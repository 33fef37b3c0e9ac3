---------------------------- MODULE ChmContainer ----------------------------
(***************************************************************************)
(* Lazy payload reads of a CHM container (internal/chm/container.go).      *)
(*                                                                         *)
(* Every resource of a CHM book shares one container.  Its Open closures   *)
(* may run in several goroutines; they share, under the mutex c.mu, the    *)
(* parsed LZX parameters (loaded once by ensureComp) and a bounded cache   *)
(* of decoded turn prefixes.  Each critical section (Lock .. Unlock) is    *)
(* one step here: the fields it touches are touched nowhere else, and the  *)
(* lock is never held across two of them.                                  *)
(*                                                                         *)
(* A payload byte is abstract.  Plain is the uncompressed content stream   *)
(* (section 1), Stored the data area of the file (section 0).  Reading the *)
(* blob or inflating a turn may fail at any time.                          *)
(***************************************************************************)
EXTENDS Integers, Sequences

CONSTANTS
  Readers,        \* goroutines that call Open
  Entries,        \* directory entries: [space, start, length]
  Byte,           \* payload bytes
  Plain,          \* uncompressed stream, indexed from 0
  Stored,         \* data area, indexed from 0
  UncompLen,      \* compParams.uncompLen
  StoredLen,      \* bytes of the file after dataOff
  BlockLen,       \* compParams.blockLen
  BlocksPerTurn,  \* compParams.blocksPerTurn
  TurnCacheMax,   \* turnCacheMax
  MaxCachedTurn,  \* maxCachedTurn
  MaxSize,        \* Config.MaxResourceSize
  SniffLimit,     \* bytes readEntryHead asks for
  AddrMod         \* 2^64: width of entry coordinates

ASSUME SizesAssumption ==
  /\ BlockLen \in Nat \ {0} /\ BlocksPerTurn \in Nat \ {0}
  /\ UncompLen \in Nat /\ StoredLen \in Nat
  /\ TurnCacheMax \in Nat \ {0} /\ MaxCachedTurn \in Nat
  /\ MaxSize \in Nat \ {0} /\ SniffLimit \in Nat \ {0}
  /\ AddrMod \in Nat
  /\ UncompLen + BlocksPerTurn * BlockLen < AddrMod

ASSUME DataAssumption ==
  /\ Plain \in [0..(UncompLen - 1) -> Byte]
  /\ Stored \in [0..(StoredLen - 1) -> Byte]
  /\ \A e \in Entries : /\ e \in [space : Nat, start : Nat, length : Nat]
                        /\ e.start < AddrMod /\ e.length < AddrMod

VARIABLES
  comp,       \* container.comp: FALSE is the nil pointer
  compErr,    \* container.compErr # nil
  compDone,   \* container.compDone
  turns,      \* container.turns: decoded prefix by turn start
  turnOrder,  \* container.turnOrder: turn starts, oldest first
  pc,         \* where each goroutine is
  ent,        \* the entry being read
  want,       \* number of bytes wanted from it
  off,        \* loop variable of readEntryRange
  out,        \* bytes assembled so far
  plain,      \* result of decodeTurn
  loaded,     \* ensureComp's local: loadComp succeeded
  faulted     \* readers whose current read met a blob or LZX failure

shared == <<comp, compErr, compDone, turns, turnOrder>>
locals == <<ent, want, off, out, plain, loaded, faulted>>
vars   == <<shared, pc, locals>>

-----------------------------------------------------------------------------
(* Helpers *)

Smaller(a, b) == IF a < b THEN a ELSE b

\* The bytes [a, b) of a stream.
Slice(f, a, b) == [i \in 1..(b - a) |-> f[a + i - 1]]

TurnLen == BlocksPerTurn * BlockLen

\* Seeded bug: the turn start is not rounded down.
TurnStartUnrounded(o) == o

TurnStart(o) == (o \div TurnLen) * TurnLen

\* Seeded bug: the whole turn is asked for, even past the stream's end.
NeedEndWholeTurn(o, e) == TurnStart(o) + TurnLen

\* End of the turn prefix a read of [o, e) needs (readEntryRange).
NeedEnd(o, e) == Smaller(TurnStart(o) + TurnLen, e)

\* uint64 addition of an entry's coordinates.
EndOf(e, n) == (e.start + n) % AddrMod

\* End of the slice r reads, as readEntryRange receives it.
Last(r) == EndOf(ent[r], want[r])

\* The stream an entry of a section lies in, and its length.
Stream(e) == IF e.space = 0 THEN Stored ELSE Plain
StreamLen(e) == IF e.space = 0 THEN StoredLen ELSE UncompLen

-----------------------------------------------------------------------------
(* States *)

States == {"idle", "stored", "comp", "load", "publish", "range", "loop",
           "decode", "store", "append", "done", "failed"}

NoEntry == [space |-> 0, start |-> 0, length |-> 0]

Init ==
  /\ comp = FALSE /\ compErr = FALSE /\ compDone = FALSE
  /\ turns = <<>> /\ turnOrder = <<>>
  /\ pc = [r \in Readers |-> "idle"]
  /\ ent = [r \in Readers |-> NoEntry]
  /\ want = [r \in Readers |-> 0]
  /\ off = [r \in Readers |-> 0]
  /\ out = [r \in Readers |-> <<>>]
  /\ plain = [r \in Readers |-> <<>>]
  /\ loaded = [r \in Readers |-> FALSE]
  /\ faulted = {}

Goto(r, s) == pc' = [pc EXCEPT ![r] = s]
-----------------------------------------------------------------------------
(* The calls a goroutine makes *)

\* The common start of a read: n bytes of entry e are wanted.
Begin(r, e, n, s) ==
  /\ pc[r] = "idle"
  /\ ent' = [ent EXCEPT ![r] = e]
  /\ want' = [want EXCEPT ![r] = n]
  /\ Goto(r, s)
  /\ UNCHANGED <<shared, off, out, plain, loaded, faulted>>

\* readEntry: dispatch on the section, after the size limit.
ReadEntry(r) ==
  \E e \in Entries :
    Begin(r, e, e.length,
          IF e.length > MaxSize THEN "failed"
          ELSE IF e.space = 0 THEN (IF e.start + e.length > StoredLen THEN "failed" ELSE "stored")
          ELSE IF e.space = 1 THEN "comp"
          ELSE "failed")

\* readEntryHead: at most SniffLimit bytes, for charset sniffing.
ReadEntryHead(r) ==
  \E e \in Entries :
    LET n == Smaller(SniffLimit, e.length) IN
    Begin(r, e, n,
          IF e.length = 0 THEN "done"
          ELSE IF e.space = 0
            THEN (IF e.start + n > StoredLen \/ n > MaxSize THEN "failed" ELSE "stored")
          ELSE IF e.space = 1 THEN "comp"
          ELSE "failed")

\* readBounded: one blob read of a stored entry.
ReadStored(r) ==
  /\ pc[r] = "stored"
  /\ \/ /\ out' = [out EXCEPT ![r] = Slice(Stored, ent[r].start, ent[r].start + want[r])]
        /\ Goto(r, "done")
        /\ UNCHANGED faulted
     \/ /\ faulted' = faulted \cup {r}
        /\ Goto(r, "failed")
        /\ UNCHANGED out
  /\ UNCHANGED <<shared, ent, want, off, plain, loaded>>

\* ensureComp, first critical section.
CheckComp(r) ==
  /\ pc[r] = "comp"
  /\ Goto(r, IF ~compDone THEN "load" ELSE IF compErr THEN "failed" ELSE "range")
  /\ UNCHANGED <<shared, locals>>

\* loadComp: reads the control entries without the lock.
LoadComp(r) ==
  /\ pc[r] = "load"
  /\ loaded' \in {[loaded EXCEPT ![r] = ok] : ok \in BOOLEAN}
  /\ Goto(r, "publish")
  /\ UNCHANGED <<shared, ent, want, off, out, plain, faulted>>

\* Seeded bug: every loader goes by its own result, not the published one.
PublishCompOwnResult(r) ==
  /\ pc[r] = "publish"
  /\ IF compDone
       THEN UNCHANGED <<comp, compErr, compDone>>
       ELSE comp' = loaded[r] /\ compErr' = ~loaded[r] /\ compDone' = TRUE
  /\ Goto(r, IF loaded[r] THEN "range" ELSE "failed")
  /\ UNCHANGED <<turns, turnOrder, locals>>

\* Seeded bug: the last loader wins instead of the first.
PublishCompAgain(r) ==
  /\ pc[r] = "publish"
  /\ comp' = loaded[r] /\ compErr' = ~loaded[r] /\ compDone' = TRUE
  /\ Goto(r, IF compErr' THEN "failed" ELSE "range")
  /\ UNCHANGED <<turns, turnOrder, locals>>

\* ensureComp, second critical section: the first to arrive publishes, and
\* everybody returns the published error.
PublishComp(r) ==
  /\ pc[r] = "publish"
  /\ IF compDone
       THEN UNCHANGED <<comp, compErr, compDone>>
       ELSE comp' = loaded[r] /\ compErr' = ~loaded[r] /\ compDone' = TRUE
  /\ Goto(r, IF compErr' THEN "failed" ELSE "range")
  /\ UNCHANGED <<turns, turnOrder, locals>>

\* Seeded bug: a wrapped end is not noticed.
CheckRangeNoWrap(r) ==
  /\ pc[r] = "range"
  /\ IF ent[r].start > UncompLen \/ Last(r) > UncompLen
       THEN Goto(r, "failed") /\ UNCHANGED <<off, out>>
       ELSE /\ Goto(r, "loop")
            /\ off' = [off EXCEPT ![r] = ent[r].start]
            /\ out' = [out EXCEPT ![r] = <<>>]
  /\ UNCHANGED <<shared, ent, want, plain, loaded, faulted>>

\* readEntryRange: p := c.comp, bounds, then the loop is entered.
CheckRange(r) ==
  /\ pc[r] = "range"
  /\ IF \/ Last(r) < ent[r].start \/ Last(r) > EndOf(ent[r], ent[r].length)
        \/ ent[r].start > UncompLen \/ Last(r) > UncompLen
       THEN Goto(r, "failed") /\ UNCHANGED <<off, out>>
       ELSE /\ Goto(r, "loop")
            /\ off' = [off EXCEPT ![r] = ent[r].start]
            /\ out' = [out EXCEPT ![r] = <<>>]
  /\ UNCHANGED <<shared, ent, want, plain, loaded, faulted>>

\* Loop condition of readEntryRange, and decodeTurn's range check and
\* cache lookup (one critical section).
Lookup(r) ==
  LET ts   == TurnStart(off[r])
      need == NeedEnd(off[r], Last(r))
      hit  == ts \in DOMAIN turns /\ ts + Len(turns[ts]) >= need
  IN
  /\ pc[r] = "loop"
  /\ off[r] < Last(r)
  /\ IF need <= ts \/ need > Smaller(ts + TurnLen, UncompLen)
       THEN Goto(r, "failed") /\ UNCHANGED plain
       ELSE IF hit
         THEN /\ plain' = [plain EXCEPT ![r] = SubSeq(turns[ts], 1, need - ts)]
              /\ Goto(r, "append")
         ELSE Goto(r, "decode") /\ UNCHANGED plain
  /\ UNCHANGED <<shared, ent, want, off, out, loaded, faulted>>

\* decodeTurn without the lock: reset table, compressed bytes, LZX.  The
\* decoder refuses a prefix over the size limit.
Decode(r) ==
  /\ pc[r] = "decode"
  /\ \/ /\ NeedEnd(off[r], Last(r)) - TurnStart(off[r]) > MaxSize
        /\ Goto(r, "failed")
        /\ UNCHANGED <<plain, faulted>>
     \/ /\ NeedEnd(off[r], Last(r)) - TurnStart(off[r]) <= MaxSize
        /\ plain' = [plain EXCEPT ![r] =
                       Slice(Plain, TurnStart(off[r]), NeedEnd(off[r], Last(r)))]
        /\ Goto(r, "store")
        /\ UNCHANGED faulted
     \/ /\ faulted' = faulted \cup {r}
        /\ Goto(r, "failed")
        /\ UNCHANGED plain
  /\ UNCHANGED <<shared, ent, want, off, out, loaded>>

\* Seeded bug: the evicted turn stays in the map.
RetainNoDelete(ts, p) ==
  /\ turns' = [k \in DOMAIN turns \cup {ts} |-> IF k = ts THEN p ELSE turns[k]]
  /\ turnOrder' = Append(IF Len(turnOrder) >= TurnCacheMax THEN Tail(turnOrder)
                                                         ELSE turnOrder, ts)

\* A new turn enters the bounded FIFO.
Retain(ts, p) ==
  LET full == Len(turnOrder) >= TurnCacheMax
      kept == IF full THEN DOMAIN turns \ {Head(turnOrder)} ELSE DOMAIN turns
  IN
  /\ turns' = [k \in kept \cup {ts} |-> IF k = ts THEN p ELSE turns[k]]
  /\ turnOrder' = Append(IF full THEN Tail(turnOrder) ELSE turnOrder, ts)

\* The longest prefix of a cached turn is kept.
Lengthen(ts, p) ==
  /\ turns' = [turns EXCEPT ![ts] = IF Len(p) > Len(@) THEN p ELSE @]
  /\ UNCHANGED turnOrder

\* Seeded bug: oversized prefixes are cached.
CacheTurnAnySize(ts, p) ==
  IF ts \in DOMAIN turns THEN Lengthen(ts, p) ELSE Retain(ts, p)

\* cacheTurn: oversized prefixes are not cached at all.
CacheTurn(ts, p) ==
  IF Len(p) > MaxCachedTurn THEN UNCHANGED <<turns, turnOrder>>
  ELSE IF ts \in DOMAIN turns THEN Lengthen(ts, p)
  ELSE Retain(ts, p)

\* Seeded bug: a decoded prefix replaces the cached one without a look.
StoreTurnBlindly(r) ==
  LET ts == TurnStart(off[r]) IN
  /\ pc[r] = "store"
  /\ IF ts \in DOMAIN turns
       THEN turns' = [turns EXCEPT ![ts] = plain[r]] /\ UNCHANGED turnOrder
       ELSE CacheTurn(ts, plain[r])
  /\ Goto(r, "append")
  /\ UNCHANGED <<comp, compErr, compDone, ent, want, off, out, plain, loaded, faulted>>

\* decodeTurn, last critical section: adopt what another goroutine cached
\* meanwhile, or cache our own.
StoreTurn(r) ==
  LET ts  == TurnStart(off[r])
      len == NeedEnd(off[r], Last(r)) - ts
  IN
  /\ pc[r] = "store"
  /\ IF ts \in DOMAIN turns /\ Len(turns[ts]) >= len
       THEN /\ plain' = [plain EXCEPT ![r] = SubSeq(turns[ts], 1, len)]
            /\ UNCHANGED <<turns, turnOrder>>
       ELSE CacheTurn(ts, plain[r]) /\ UNCHANGED plain
  /\ Goto(r, "append")
  /\ UNCHANGED <<comp, compErr, compDone, ent, want, off, out, loaded, faulted>>

\* Rest of the loop body of readEntryRange.
AppendPlain(r) ==
  LET from == off[r] - TurnStart(off[r])
      n    == Smaller(Len(plain[r]) - from, Last(r) - off[r])
  IN
  /\ pc[r] = "append"
  /\ IF from >= Len(plain[r]) \/ n = 0
       THEN Goto(r, "failed") /\ UNCHANGED <<off, out>>
       ELSE /\ out' = [out EXCEPT ![r] = @ \o SubSeq(plain[r], from + 1, from + n)]
            /\ off' = [off EXCEPT ![r] = @ + n]
            /\ Goto(r, "loop")
  /\ UNCHANGED <<shared, ent, want, plain, loaded, faulted>>

\* readEntryRange returns.
Return(r) ==
  /\ pc[r] = "loop"
  /\ off[r] >= Last(r)
  /\ Goto(r, "done")
  /\ UNCHANGED <<shared, locals>>

\* The caller drops the result or the error; its goroutine may read again.
Release(r) ==
  /\ pc[r] \in {"done", "failed"}
  /\ Goto(r, "idle")
  /\ ent' = [ent EXCEPT ![r] = NoEntry]
  /\ want' = [want EXCEPT ![r] = 0]
  /\ off' = [off EXCEPT ![r] = 0]
  /\ out' = [out EXCEPT ![r] = <<>>]
  /\ plain' = [plain EXCEPT ![r] = <<>>]
  /\ loaded' = [loaded EXCEPT ![r] = FALSE]
  /\ faulted' = faulted \ {r}
  /\ UNCHANGED shared
-----------------------------------------------------------------------------
Working(r) ==
  \/ ReadStored(r) \/ CheckComp(r) \/ LoadComp(r) \/ PublishComp(r)
  \/ CheckRange(r) \/ Lookup(r) \/ Decode(r) \/ StoreTurn(r)
  \/ AppendPlain(r) \/ Return(r)

Next == \E r \in Readers :
  ReadEntry(r) \/ ReadEntryHead(r) \/ Working(r) \/ Release(r)

\* A goroutine that has called Open keeps running.
Spec == Init /\ [][Next]_vars /\ \A r \in Readers : WF_vars(Working(r))
-----------------------------------------------------------------------------
(* Properties *)

\* Turns start at the multiples of the turn length.
IsTurnStart(ts) == \E k \in 0..ts : ts = k * TurnLen

\* Every variable has its type, and every cached key is the start of a turn.
TypeOK ==
  /\ comp \in BOOLEAN /\ compErr \in BOOLEAN /\ compDone \in BOOLEAN
  /\ \A ts \in DOMAIN turns : ts \in Nat /\ IsTurnStart(ts) /\ turns[ts] \in Seq(Byte)
  /\ turnOrder \in Seq(Nat)
  /\ pc \in [Readers -> States]
  /\ ent \in [Readers -> Entries \cup {NoEntry}]
  /\ want \in [Readers -> 0..(AddrMod - 1)] /\ off \in [Readers -> Nat]
  /\ out \in [Readers -> Seq(Byte)] /\ plain \in [Readers -> Seq(Byte)]
  /\ loaded \in [Readers -> BOOLEAN]
  /\ faulted \subseteq Readers

\* The elements of a sequence, and that none occurs twice.
Members(s)  == {s[i] : i \in 1..Len(s)}
Distinct(s) == \A i, j \in 1..Len(s) : s[i] = s[j] => i = j

\* The eviction queue and the map hold the same turns, each once, and no
\* more than turnCacheMax of them (cacheTurn, container.go:702).
CacheConsistent ==
  /\ DOMAIN turns = Members(turnOrder)
  /\ Distinct(turnOrder)
  /\ Len(turnOrder) <= TurnCacheMax

\* A cached prefix is the content of its turn, whoever decoded it: no read
\* of one goroutine can leave bytes that mislead another (decodeTurn).
PrefixOf(ts, p) ==
  /\ 0 < Len(p) /\ Len(p) <= TurnLen /\ ts + Len(p) <= UncompLen
  /\ p = Slice(Plain, ts, ts + Len(p))

CachedPlain ==
  \A ts \in DOMAIN turns :
    PrefixOf(ts, turns[ts]) /\ Len(turns[ts]) <= MaxCachedTurn

\* What a read returns is the wanted slice of the entry, whatever the other
\* goroutines cached, evicted or replaced meanwhile, and a slice that runs
\* past the stream or wraps the address width is never returned.
Exact(r) ==
  /\ want[r] > 0 => ent[r].start + want[r] <= StreamLen(ent[r])
  /\ out[r] = Slice(Stream(ent[r]), ent[r].start, ent[r].start + want[r])

ReadExact == \A r \in Readers : pc[r] = "done" => Exact(r)

\* What holds of one goroutine inside a read: the slice is known to lie in
\* its stream from the bounds checks on, out is what was read up to off, and
\* plain is the true content of the turn up to where the slice needs it.
ReadInv(r) ==
  LET end == ent[r].start + want[r] IN
  /\ pc[r] = "idle" => out[r] = <<>>
  /\ pc[r] = "stored" => ent[r].space = 0 /\ end <= StoredLen
  /\ pc[r] \in {"comp", "load", "publish", "range", "loop", "decode", "store", "append"} =>
       ent[r].space = 1
  /\ pc[r] \in {"loop", "decode", "store", "append"} =>
       /\ end <= UncompLen /\ ent[r].start <= off[r] /\ off[r] <= end
       /\ out[r] = Slice(Plain, ent[r].start, off[r])
  /\ pc[r] \in {"decode", "store", "append"} => off[r] < end
  /\ pc[r] \in {"store", "append"} =>
       plain[r] = Slice(Plain, TurnStart(off[r]), NeedEnd(off[r], end))

\* Past ensureComp the parameters are there: readEntryRange reads c.comp
\* without the lock and dereferences it (container.go:599, :635).
NoNilComp ==
  \A r \in Readers :
    pc[r] \in {"range", "loop", "decode", "store", "append"} =>
      compDone /\ comp /\ ~compErr

\* The inductive invariant behind the safety properties above.
IInv ==
  /\ TypeOK /\ CacheConsistent /\ CachedPlain /\ NoNilComp
  /\ compDone => comp = ~compErr
  /\ ReadExact /\ \A r \in Readers : ReadInv(r)

\* A well-formed entry: known section, within the size limit and the stream.
Proper(e) ==
  /\ e.space \in {0, 1} /\ e.length <= MaxSize
  /\ e.start + e.length <= StreamLen(e)

\* Every byte up to the entry's end is at most MaxSize from its turn's start.
NearTurnStart(e) == TurnLen <= MaxSize \/ e.start + e.length <= MaxSize

\* A read of a well-formed entry fails only when its own blob or LZX data
\* failed, or the parameters could not be loaded: no interleaving with other
\* readers makes it miss its interval or stop making progress.
NoSpuriousFailure ==
  \A r \in Readers : pc[r] = "failed" =>
    \/ r \in faulted \/ (ent[r].space = 1 /\ compErr)
    \/ ~Proper(ent[r]) \/ (ent[r].space = 1 /\ ~NearTurnStart(ent[r]))

\* options.go:17: WithMaxResourceSize sets the maximum decompressed size of
\* a single resource, so an entry within it is not refused for its size.
SizedEntryServed ==
  \A r \in Readers : pc[r] = "failed" /\ Proper(ent[r]) =>
    r \in faulted \/ (ent[r].space = 1 /\ compErr)

\* A turn that stays cached never loses bytes (cacheTurn, "longest-kept").
NoPrefixShrinks ==
  \A ts \in DOMAIN turns \cap DOMAIN turns' : Len(turns'[ts]) >= Len(turns[ts])

LongestKept == [][NoPrefixShrinks]_vars

\* The refinement mapping to ChmReads: what a caller can tell of a read.
Asked(e, n) == [ent |-> e, n |-> n]

Phase(s) == CASE s = "idle"   -> "idle"
              [] s = "done"   -> "answered"
              [] s = "failed" -> "refused"
              [] OTHER        -> "reading"

ReadRequests == {Asked(e, e.length) : e \in Entries}
           \cup {Asked(e, Smaller(SniffLimit, e.length)) : e \in Entries}
ReadCompressed(q) == q.ent.space = 1
ReadInStream(q)   == q.ent.start + q.n <= StreamLen(q.ent)
ReadTrivial(q)    == q.n = 0
ReadContent(q)    == Slice(Stream(q.ent), q.ent.start, q.ent.start + q.n)

Atomic == INSTANCE ChmReads WITH
  Requests   <- ReadRequests,
  Compressed <- ReadCompressed,
  InStream   <- ReadInStream,
  Trivial    <- ReadTrivial,
  Content    <- ReadContent,
  Nothing    <- Asked(NoEntry, 0),
  phase      <- [r \in Readers |-> Phase(pc[r])],
  request    <- [r \in Readers |-> Asked(ent[r], want[r])],
  answer     <- [r \in Readers |-> IF pc[r] = "done" THEN out[r] ELSE <<>>],
  params     <- IF ~compDone THEN "unknown" ELSE IF compErr THEN "bad" ELSE "good"

\* The concurrent, caching container behaves as the atomic one of ChmReads:
\* every read is answered from the immutable file as if it were alone.
ActsAtomically == Atomic!Spec
=============================================================================
