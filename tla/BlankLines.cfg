CONSTANTS
  Docs <- MCBlankDocs
  Rooms = {1, 3}
  NameSyms <- MCNameSyms
  LocalName <- MCLocalName
  Fb2Blocks <- MCFb2Blocks
  Fb2Skips <- MCFb2Skips
  Fb3Blocks <- MCFb3Blocks
  Known <- MCKnown
  EntityMax = 4
  MaxLine = 2
  HtmlBlocks <- MCHtmlBlocks
  HtmlSkips <- MCHtmlSkips
  HeadElements <- MCHeadElements
  Digit <- MCDigit
  K = 2
  Encoding <- MCEncoding
  Dropped <- MCDropped
  Delimiter <- MCDelimiter
  Fold <- MCFold
  Seeds <- MCSeeds
  Hash <- MCHash
  HashBits <- MCHashBits
  BitSet <- MCBitSet
  TestCores <- MCTestCores
SPECIFICATION Spec
INVARIANT OneBlankLine
CHECK_DEADLOCK FALSE
