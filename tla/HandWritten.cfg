SPECIFICATION Spec
CONSTANTS
  p1 = p1
  p2 = p2
  list = list
  listMany = listMany
  count = count
  old = old
  column = column
  label = label
  Procs = {p1, p2}
  Files = {2, 3}
  Other = 4
  Texts = {list, listMany, count}
  Sql <- SqlOf
  Whole = {list, listMany}
  Schemas = {old, column, label}
  Shape <- ShapeOf
  Tables <- TablesOf
  Types <- TypesOf
  Digests = {1, 2}
  None = None
  Hand = Hand
  Cut = Cut
  Damaged = Damaged
  Commands <- AllCommands
  InitTrees <- HandWrittenTrees
  MaxStarts = 1
  MaxEdits = 0
SYMMETRY Symmetry
PROPERTY HandWrittenKept
