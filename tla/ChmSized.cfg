CONSTANTS
  r1 = r1
  r2 = r2
  Readers = {r1, r2}
  Entries <- MCDeep
  Byte <- MCByte
  Plain <- MCPlain
  Stored <- MCStored
  UncompLen = 7
  StoredLen = 2
  BlockLen = 1
  BlocksPerTurn = 3
  TurnCacheMax = 2
  MaxCachedTurn = 2
  MaxSize = 2
  SniffLimit = 1
  AddrMod = 16
SPECIFICATION Spec
INVARIANT SizedEntryServed
