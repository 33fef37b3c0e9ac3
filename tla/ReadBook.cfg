CONSTANTS
  CodeWidth = 4
  TopWidth = 2
  MaxHuffDepth = 3
  PalmDocPrefixCap = 8
  MetadataEnd <- MCMetadataEnd
  HtmlTag <- MCHtmlTag
  Word = 65536
  Half = 256
  LocaleCode <- MCLocaleCode
  HeaderSizeDropbook = 12
  MakebookHeader = 3
  MakebookCounted = 8
  ImageHeaderSize = 3
  ImageProbeSize = 5
  ImageNames <- MCImageNames
  Files <- MCFiles
  DefaultResource = 2000
  DefaultRecord = 2000
  DefaultExth = 8
SPECIFICATION Spec
INVARIANTS TextFaithful  ImagesOnce MetadataFaithful
CHECK_DEADLOCK FALSE
