CONSTANTS
  Resources <- MCResources
  Byte <- MCByte
  Text <- MCText
  Orders <- MCOrders
  Delimiters = {}
  MaxRoom = 2
  Newline <- MCNewline
  BufSize = 2
  Books <- MCBooks
  Convertible <- MCConvertible
  Processors <- MCProcessors
  Cap <- MCCap
  MaxHead = 3
  Lineups <- MCLineups
  Fallible = {"custom", "short", "summary"}
  Isbns <- MCIsbns
  Key <- MCKey
SPECIFICATION ScanSpec
INVARIANTS TextComplete HeadExact HeadOnTime NoOverread FinishLast  FallbackOnce AtMostOneLateChunk StreamClosed
PROPERTIES CancelEnds
