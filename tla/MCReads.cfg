\* All backends, all kinds of fields, short and nested clause lists, two lists.
SPECIFICATION Spec
SYMMETRY Lists
CONSTANTS
  l1 = l1
  l2 = l2
  List = {l1, l2}
  NoRow = NoRow
  Row <- MCRow
  Half32 = 4
  Half64 = 8
  EnumSet = {0, 1, 2}
  Samples <- MCSamples
  ClauseTypes = {"EQUAL", "NOT_EQUAL", "LESS_THEN", "IS_NULL"}
  InnerTypes = {"EQUAL"}
  MaxObjects = 2
  MaxClauses <- MCMaxClauses
  MaxLists <- MCMaxLists
INVARIANTS TypeOK PlacesFilled FieldsSurvive OwnedOnce SizeTells
PROPERTIES AnswersAreExact KeepsRows
