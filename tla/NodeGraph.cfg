SPECIFICATION Spec
CONSTANTS
  Items = {i1, i2, i3, i4, i5}
  Root = Root Dummy = Dummy Nil = Nil
  Programs <- MCPrograms
CHECK_DEADLOCK FALSE
VIEW MCView
SYMMETRY Symmetry
INVARIANTS GraphInv FunconsInOrder
PROPERTIES PlacedAsAsked FreedExactly
