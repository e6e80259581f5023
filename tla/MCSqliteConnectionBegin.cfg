\* transaction_begin on a single connection.
SPECIFICATION Spec
CONSTANTS
  h1 = h1
  Handle = {h1}
  PointerSize = 8
  MaxLists = 1
PROPERTIES BeginBegins
