CONSTANTS
  NoId = ""
  Dup <- MCDup
  MaxDup = 3
  Labels <- MCLabels
  Canonical <- MCCanonical
  Calls <- MCCalls
  Lower <- MCLower
  SchemeLabel <- MCSchemeLabel
  Archives <- MCArchives
  TextMedia <- MCTextMedia
  OebDocs <- MCOebDocs
  CoverProperties <- MCCoverProperties
  FontObfuscation <- MCFontObfuscation
  ContainerXml <- MCContainerXml
  EncryptionXml <- MCEncryptionXml
  RightsXml <- MCRightsXml
SPECIFICATION Spec
INVARIANTS TypeOK IndexesExact NothingLost SpineFaithful ProtectedNeverRead MetadataFaithful
CHECK_DEADLOCK FALSE
