CONSTANTS
  r1 = r1
  r2 = r2
  Readers = {r1, r2}
  Entries <- MCEntries
  Byte <- MCByte
  Plain <- MCPlain
  Stored <- MCStored
  UncompLen = 7
  StoredLen = 2
  BlockLen = 1
  BlocksPerTurn = 3
  TurnCacheMax = 2
  MaxCachedTurn = 2
  MaxSize = 14
  SniffLimit = 1
  AddrMod = 16
SPECIFICATION Spec
INVARIANTS TypeOK CacheConsistent CachedPlain ReadExact NoNilComp NoSpuriousFailure
PROPERTIES LongestKept ActsAtomically
