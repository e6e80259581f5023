\* Two connections of any backends, with up to two result lists each.
SPECIFICATION ConnectionsSpec
SYMMETRY Handles
CONSTANTS
  h1 = h1
  h2 = h2
  Handle = {h1, h2}
  PointerSize = 8
  MaxLists = 2
INVARIANTS TypeOK NothingLeaks ListsKeepConnection AutocommitAlways
PROPERTIES AnswersTellState
