CONSTANTS
  Resources <- MCResources
  Byte <- MCByte
  Text <- MCText
  Orders <- MCOrders
  Delimiters <- MCDelimiters
  MaxRoom = 2
SPECIFICATION Spec
INVARIANTS StreamExact NoLeak
PROPERTIES NothingAfterClose ReadReturns
