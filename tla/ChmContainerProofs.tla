------------------------- MODULE ChmContainerProofs -------------------------
(***************************************************************************)
(* Proofs about ChmContainer, for every number of readers and every size:  *)
(* the invariant IInv is inductive, so the safety properties hold of every *)
(* execution; a cached prefix never gets shorter; a well-formed entry is   *)
(* refused only for a failure of the file; and every step of the           *)
(* concurrent, caching container is a step of the atomic one of ChmReads,  *)
(* or no step of it.                                                       *)
(***************************************************************************)
EXTENDS ChmContainer, SequenceTheorems, TLAPS

-----------------------------------------------------------------------------
(* Arithmetic of turns and of wrapped coordinates *)

\* Rounding a natural number down to a multiple of L.
LEMMA DivBounds ==
  ASSUME NEW o \in Nat, NEW L \in Nat \ {0}
  PROVE  /\ o \div L \in Nat
         /\ (o \div L) * L \in Nat
         /\ (o \div L) * L <= o
         /\ o < (o \div L) * L + L
         /\ o \div L <= (o \div L) * L
OBVIOUS

\* A turn is not empty.
LEMMA TurnLenPos == TurnLen \in Nat \ {0}
BY SizesAssumption DEF TurnLen

\* The start of the turn of an offset (decodeTurn's turnStart).
LEMMA TurnStartBounds ==
  ASSUME NEW o \in Nat
  PROVE  /\ TurnStart(o) \in Nat
         /\ TurnStart(o) <= o
         /\ o < TurnStart(o) + TurnLen
         /\ IsTurnStart(TurnStart(o))
<1> DEFINE L == TurnLen
<1>1. L \in Nat \ {0}
  BY TurnLenPos
<1> HIDE DEF L
<1>2. /\ o \div L \in Nat
      /\ (o \div L) * L \in Nat
      /\ (o \div L) * L <= o
      /\ o < (o \div L) * L + L
      /\ o \div L <= (o \div L) * L
  BY <1>1, DivBounds
<1>3. o \div L \in 0..((o \div L) * L)
  BY <1>2
<1>4. TurnStart(o) = (o \div L) * L
  BY DEF TurnStart, L
<1>5. IsTurnStart(TurnStart(o))
  BY <1>3, <1>4 DEF IsTurnStart, L
<1>6. TurnLen = L
  BY DEF L
<1> QED
  BY <1>2, <1>4, <1>5, <1>6

\* A sum of two coordinates either fits the address width or falls below
\* both of them: this is why end < start detects a wrapped entry.
LEMMA WrappedEnd ==
  ASSUME NEW a \in Nat, NEW n \in Nat, NEW M \in Nat, a < M, n < M
  PROVE  /\ (a + n) % M \in Nat
         /\ a + n < M => (a + n) % M = a + n
         /\ a + n >= M => (a + n) % M < a
<1>1. CASE a + n < M
  BY <1>1
<1>2. CASE a + n >= M
  <2>1. (a + n) % M = a + n - M
    BY <1>2
  <2> QED BY <1>2, <2>1
<1> QED BY <1>1, <1>2

-----------------------------------------------------------------------------
(* Slices of a stream *)

\* A slice inside the stream is a sequence of bytes of the expected length.
LEMMA SliceType ==
  ASSUME NEW f, NEW a \in Nat, NEW b \in Nat, a <= b,
         \A k \in a..(b - 1) : f[k] \in Byte
  PROVE  /\ Slice(f, a, b) \in Seq(Byte)
         /\ Len(Slice(f, a, b)) = b - a
         /\ \A i \in 1..(b - a) : Slice(f, a, b)[i] = f[a + i - 1]
<1>1. \A i \in 1..(b - a) : a + i - 1 \in a..(b - 1)
  OBVIOUS
<1>2. Slice(f, a, b) \in [1..(b - a) -> Byte]
  BY <1>1 DEF Slice
<1> QED BY <1>2 DEF Slice

\* A prefix of a slice is a slice.
LEMMA SlicePrefix ==
  ASSUME NEW f, NEW a \in Nat, NEW b \in Nat, NEW n \in Nat, a + n <= b,
         \A k \in a..(b - 1) : f[k] \in Byte
  PROVE  SubSeq(Slice(f, a, b), 1, n) = Slice(f, a, a + n)
<1> DEFINE s == Slice(f, a, b)
           t == Slice(f, a, a + n)
<1>1. /\ s \in Seq(Byte)
      /\ Len(s) = b - a
      /\ \A i \in 1..(b - a) : s[i] = f[a + i - 1]
  BY SliceType
<1>2. /\ t \in Seq(Byte)
      /\ Len(t) = n
      /\ \A i \in 1..n : t[i] = f[a + i - 1]
  <2>1. \A k \in a..(a + n - 1) : f[k] \in Byte
    OBVIOUS
  <2>2. a + n \in Nat /\ a <= a + n /\ (a + n) - a = n
    OBVIOUS
  <2> QED BY <2>1, <2>2, SliceType
<1> HIDE DEF s, t
<1>3. /\ SubSeq(s, 1, n) \in Seq(Byte)
      /\ Len(SubSeq(s, 1, n)) = n
      /\ \A i \in 1..n : SubSeq(s, 1, n)[i] = t[i]
  BY <1>1, <1>2
<1>4. SubSeq(s, 1, n) = t
  BY <1>2, <1>3, SeqEqual
<1> QED BY <1>4 DEF s, t

\* Bytes of the content stream.
LEMMA PlainBytes ==
  \A k \in Nat : k < UncompLen => Plain[k] \in Byte
<1>1. Plain \in [0..(UncompLen - 1) -> Byte] /\ UncompLen \in Nat
  BY DataAssumption, SizesAssumption
<1> QED BY <1>1

\* Appending to the slice [a, b) the bytes of [c, d) from b on continues it.
Continues(a, b, c, d, n) ==
  Slice(Plain, a, b) \o SubSeq(Slice(Plain, c, d), b - c + 1, b - c + n)
    = Slice(Plain, a, b + n)

LEMMA SliceAppend ==
  ASSUME NEW a \in Nat, NEW b \in Nat, NEW c \in Nat, NEW d \in Nat, NEW n \in Nat,
         a <= b, c <= b, b + n <= d, d <= UncompLen
  PROVE  Continues(a, b, c, d, n)
<1> DEFINE s == Slice(Plain, a, b)
           w == Slice(Plain, c, d)
           t == SubSeq(w, b - c + 1, b - c + n)
           u == Slice(Plain, a, b + n)
<1>0. \A k \in Nat : k < d => Plain[k] \in Byte
  BY PlainBytes, SizesAssumption
<1>1. /\ s \in Seq(Byte)
      /\ Len(s) = b - a
      /\ \A i \in 1..(b - a) : s[i] = Plain[a + i - 1]
  <2>1. \A k \in a..(b - 1) : Plain[k] \in Byte
    BY <1>0
  <2> QED BY <2>1, SliceType
<1>2. /\ w \in Seq(Byte)
      /\ Len(w) = d - c
      /\ \A i \in 1..(d - c) : w[i] = Plain[c + i - 1]
  <2>1. \A k \in c..(d - 1) : Plain[k] \in Byte
    BY <1>0
  <2>2. c <= d
    OBVIOUS
  <2> HIDE DEF s, t, u
  <2> QED BY <2>1, <2>2, SliceType, ZenonT(40)
<1>4. /\ u \in Seq(Byte)
      /\ Len(u) = b + n - a
      /\ \A i \in 1..(b + n - a) : u[i] = Plain[a + i - 1]
  <2>1. \A k \in a..(b + n - 1) : Plain[k] \in Byte
    BY <1>0
  <2>2. b + n \in Nat /\ a <= b + n
    OBVIOUS
  <2> QED BY <2>1, <2>2, SliceType
<1> HIDE DEF s, w, u
<1>3. /\ t \in Seq(Byte)
      /\ Len(t) = n
      /\ \A i \in 1..n : t[i] = Plain[b + i - 1]
  <2>1. /\ b - c + 1 \in 1..(Len(w) + 1)
        /\ b - c + n \in (b - c)..Len(w)
    BY <1>2
  <2>2. /\ t \in Seq(Byte)
        /\ Len(t) = n
        /\ \A i \in 1..n : t[i] = w[(b - c) + i]
    BY <1>2, <2>1
  <2>3. \A i \in 1..n : (b - c) + i \in 1..(d - c) /\ c + ((b - c) + i) - 1 = b + i - 1
    OBVIOUS
  <2> QED BY <1>2, <2>2, <2>3
<1> HIDE DEF t
<1>5. /\ s \o t \in Seq(Byte)
      /\ Len(s \o t) = Len(s) + Len(t)
      /\ \A i \in 1..(Len(s) + Len(t)) :
           (s \o t)[i] = IF i <= Len(s) THEN s[i] ELSE t[i - Len(s)]
  BY <1>1, <1>3, ConcatProperties
<1>6. \A i \in 1..Len(u) : (s \o t)[i] = u[i]
  <2> SUFFICES ASSUME NEW i \in 1..Len(u) PROVE (s \o t)[i] = u[i]
    OBVIOUS
  <2>0. i \in 1..(Len(s) + Len(t))
    BY <1>1, <1>3, <1>4
  <2>1. CASE i <= b - a
    BY <2>0, <2>1, <1>1, <1>4, <1>5
  <2>2. CASE i > b - a
    <3>1. (s \o t)[i] = t[i - (b - a)]
      BY <2>0, <2>2, <1>1, <1>5
    <3>2. i - (b - a) \in 1..n /\ b + (i - (b - a)) - 1 = a + i - 1
      BY <2>2, <1>4
    <3> DEFINE j == i - (b - a)
    <3>3. j \in 1..n /\ b + j - 1 = a + i - 1
      BY <3>2
    <3> HIDE DEF j
    <3>5. t[j] = Plain[b + j - 1]
      BY <3>3, <1>3
    <3>6. t[j] = Plain[a + i - 1]
      BY <3>3, <3>5, Zenon
    <3>7. (s \o t)[i] = t[j]
      BY <3>1 DEF j
    <3>4. i \in 1..(b + n - a) /\ u[i] = Plain[a + i - 1]
      BY <1>4
    <3> QED BY <3>4, <3>6, <3>7
  <2>3. i <= b - a \/ i > b - a
    BY <2>0, <1>1, <1>3
  <2> QED BY <2>1, <2>2, <2>3
<1>8. Len(s \o t) = Len(u)
  BY <1>1, <1>3, <1>4, <1>5
<1>7. s \o t = u
  BY <1>4, <1>5, <1>6, <1>8, SeqEqual
<1> QED BY <1>7 DEF Continues, s, t, u, w
-----------------------------------------------------------------------------
(* The eviction queue *)

\* Removing the head of a queue without duplicates.
LEMMA TailOfQueue ==
  ASSUME NEW s \in Seq(Nat), s # <<>>, Distinct(s)
  PROVE  /\ Tail(s) \in Seq(Nat) /\ Len(Tail(s)) = Len(s) - 1
         /\ Members(Tail(s)) = Members(s) \ {Head(s)}
         /\ Distinct(Tail(s))
<1>1. /\ Tail(s) \in Seq(Nat) /\ Len(Tail(s)) = Len(s) - 1 /\ Len(s) \in Nat \ {0}
      /\ \A i \in 1..(Len(s) - 1) : Tail(s)[i] = s[i + 1]
      /\ Head(s) = s[1]
  OBVIOUS
<1>2. Distinct(Tail(s))
  BY <1>1 DEF Distinct
<1>3. \A i \in 1..Len(s) : i # 1 => s[i] # Head(s) /\ i - 1 \in 1..Len(Tail(s)) /\ Tail(s)[i - 1] = s[i]
  BY <1>1 DEF Distinct
<1>4. \A i \in 1..Len(Tail(s)) : i + 1 \in 1..Len(s) /\ Tail(s)[i] = s[i + 1] /\ s[i + 1] # Head(s)
  BY <1>1 DEF Distinct
<1> DEFINE t == Tail(s)
           h == Head(s)
<1> HIDE DEF t, h
<1>6. /\ h = s[1] /\ 1 \in 1..Len(s)
      /\ \A i \in 1..Len(s) : i # 1 => s[i] # h /\ i - 1 \in 1..Len(t) /\ t[i - 1] = s[i]
      /\ \A i \in 1..Len(t) : i + 1 \in 1..Len(s) /\ t[i] = s[i + 1] /\ s[i + 1] # h
  BY <1>1, <1>3, <1>4 DEF t, h
<1>5. Members(t) = Members(s) \ {h}
  <2>1. ASSUME NEW e \in Members(t) PROVE e \in Members(s) \ {h}
    BY <1>6 DEF Members
  <2>2. ASSUME NEW e \in Members(s) \ {h} PROVE e \in Members(t)
    <3>1. PICK i \in 1..Len(s) : e = s[i]
      BY DEF Members
    <3>2. i # 1
      BY <3>1, <2>2, <1>6
    <3>3. i - 1 \in 1..Len(t) /\ t[i - 1] = e
      BY <3>1, <3>2, <1>6
    <3> QED BY <3>3 DEF Members
  <2> QED BY <2>1, <2>2
<1> QED BY <1>1, <1>2, <1>5 DEF t, h

\* Appending a new element to a queue without duplicates.
LEMMA AppendToQueue ==
  ASSUME NEW s \in Seq(Nat), Distinct(s), NEW x \in Nat, x \notin Members(s)
  PROVE  /\ Append(s, x) \in Seq(Nat) /\ Len(Append(s, x)) = Len(s) + 1
         /\ Members(Append(s, x)) = Members(s) \cup {x}
         /\ Distinct(Append(s, x))
<1>1. /\ Append(s, x) \in Seq(Nat) /\ Len(Append(s, x)) = Len(s) + 1 /\ Len(s) \in Nat
      /\ \A i \in 1..Len(s) : Append(s, x)[i] = s[i]
      /\ Append(s, x)[Len(s) + 1] = x
  OBVIOUS
<1>2. \A i \in 1..(Len(s) + 1) : i \in 1..Len(s) \/ i = Len(s) + 1
  BY <1>1
<1>3. \A i \in 1..Len(s) : s[i] # x /\ i \in 1..(Len(s) + 1)
  BY <1>1 DEF Members
<1> DEFINE t == Append(s, x)
<1> HIDE DEF t
<1>6. /\ Len(t) = Len(s) + 1 /\ t[Len(s) + 1] = x
      /\ \A i \in 1..Len(s) : t[i] = s[i]
  BY <1>1 DEF t
<1>7. Len(s) + 1 \in 1..(Len(s) + 1)
  BY <1>1
<1>4. Members(t) = Members(s) \cup {x}
  BY <1>2, <1>3, <1>6, <1>7 DEF Members
<1>5. Distinct(Append(s, x))
  BY <1>1, <1>2, <1>3 DEF Distinct
<1> QED BY <1>1, <1>4, <1>5 DEF t

-----------------------------------------------------------------------------
(* Facts about a state that satisfies the invariant *)

\* The coordinates of the entry in hand are natural numbers of the width.
LEMMA EntryCoords ==
  ASSUME TypeOK, NEW r \in Readers
  PROVE  /\ ent[r].space \in Nat /\ ent[r].start \in Nat /\ ent[r].length \in Nat
         /\ ent[r].start < AddrMod /\ ent[r].length < AddrMod
         /\ want[r] \in Nat /\ want[r] < AddrMod /\ off[r] \in Nat
         /\ AddrMod \in Nat /\ UncompLen < AddrMod /\ UncompLen \in Nat
<1>1. ent[r] \in Entries \cup {NoEntry} /\ want[r] \in 0..(AddrMod - 1) /\ off[r] \in Nat
  BY DEF TypeOK
<1>2. AddrMod \in Nat /\ UncompLen < AddrMod /\ UncompLen \in Nat
  BY SizesAssumption, TurnLenPos DEF TurnLen
<1>3. CASE ent[r] \in Entries
  BY <1>1, <1>2, <1>3, DataAssumption
<1>4. CASE ent[r] = NoEntry
  BY <1>1, <1>2, <1>4 DEF NoEntry
<1> QED BY <1>1, <1>3, <1>4

\* The end of the slice, as uint64 addition computes it.
LEMMA LastOfSlice ==
  ASSUME TypeOK, NEW r \in Readers
  PROVE  /\ Last(r) \in Nat
         /\ ent[r].start + want[r] < AddrMod => Last(r) = ent[r].start + want[r]
         /\ ent[r].start <= Last(r) => Last(r) = ent[r].start + want[r]
<1>1. Last(r) = (ent[r].start + want[r]) % AddrMod
  BY DEF Last, EndOf
<1> QED BY <1>1, EntryCoords, WrappedEnd

\* The turn prefix a reader inside the loop asks for: it covers the current
\* offset, ends inside the slice and inside the stream.
LEMMA TurnFacts ==
  ASSUME TypeOK, NEW r \in Readers, ReadInv(r),
         pc[r] \in {"loop", "decode", "store", "append"}, off[r] < Last(r)
  PROVE  LET ts   == TurnStart(off[r])
             need == NeedEnd(off[r], Last(r))
         IN /\ Last(r) = ent[r].start + want[r] /\ Last(r) <= UncompLen
            /\ ts \in Nat /\ need \in Nat /\ IsTurnStart(ts)
            /\ ts <= off[r] /\ off[r] < need /\ need <= Last(r)
            /\ need <= ts + TurnLen
            /\ Slice(Plain, ts, need) \in Seq(Byte)
            /\ Len(Slice(Plain, ts, need)) = need - ts
            /\ PrefixOf(ts, Slice(Plain, ts, need))
<1> DEFINE ts == TurnStart(off[r])
           need == NeedEnd(off[r], Last(r))
<1>1. /\ ent[r].start + want[r] <= UncompLen
      /\ ent[r].start \in Nat /\ want[r] \in Nat /\ off[r] \in Nat
      /\ AddrMod \in Nat /\ UncompLen < AddrMod /\ UncompLen \in Nat
  BY EntryCoords DEF ReadInv
<1>2. Last(r) \in Nat /\ Last(r) = ent[r].start + want[r]
  BY <1>1, LastOfSlice
<1>3. /\ ts \in Nat /\ ts <= off[r] /\ off[r] < ts + TurnLen /\ IsTurnStart(ts)
      /\ TurnLen \in Nat
  BY <1>1, TurnStartBounds, TurnLenPos
<1> HIDE DEF ts
<1>4. need = IF ts + TurnLen < Last(r) THEN ts + TurnLen ELSE Last(r)
  BY DEF ts, NeedEnd, Smaller
<1> HIDE DEF need
<1>5. /\ need \in Nat /\ off[r] < need /\ need <= Last(r) /\ need <= ts + TurnLen
      /\ ts <= need /\ need <= UncompLen
  BY <1>1, <1>2, <1>3, <1>4
<1>6. \A k \in ts..(need - 1) : Plain[k] \in Byte
  <2>1. \A k \in ts..(need - 1) : k \in Nat /\ k < UncompLen
    BY <1>1, <1>3, <1>5
  <2> QED BY <2>1, PlainBytes
<1>7. Slice(Plain, ts, need) \in Seq(Byte) /\ Len(Slice(Plain, ts, need)) = need - ts
  BY <1>3, <1>5, <1>6, SliceType
<1>8. ts + (need - ts) = need /\ 0 < need - ts /\ need - ts <= TurnLen
  BY <1>1, <1>3, <1>5
<1>9. PrefixOf(ts, Slice(Plain, ts, need))
  BY <1>5, <1>7, <1>8 DEF PrefixOf
<1> QED
  BY <1>1, <1>2, <1>3, <1>5, <1>7, <1>9 DEF ts, need

\* A long enough cached prefix, cut to length, is the slice asked for.
LEMMA CutPrefix ==
  ASSUME NEW ts \in Nat, NEW p, PrefixOf(ts, p), p \in Seq(Byte),
         NEW need \in Nat, ts <= need, need <= ts + Len(p)
  PROVE  SubSeq(p, 1, need - ts) = Slice(Plain, ts, need)
<1>1. /\ Len(p) \in Nat /\ ts + Len(p) <= UncompLen /\ UncompLen \in Nat
      /\ p = Slice(Plain, ts, ts + Len(p))
  BY SizesAssumption DEF PrefixOf
<1> DEFINE b == ts + Len(p)
           n == need - ts
<1>2. b \in Nat /\ n \in Nat /\ ts + n <= b /\ ts + n = need
  BY <1>1
<1>3. \A k \in ts..(b - 1) : Plain[k] \in Byte
  <2>1. \A k \in ts..(b - 1) : k \in Nat /\ k < UncompLen
    BY <1>1
  <2> QED BY <2>1, PlainBytes
<1>5. p = Slice(Plain, ts, b) /\ n = need - ts
  BY <1>1
<1> HIDE DEF b, n
<1>4. SubSeq(Slice(Plain, ts, b), 1, n) = Slice(Plain, ts, ts + n)
  BY <1>2, <1>3, SlicePrefix
<1> QED BY <1>2, <1>4, <1>5

-----------------------------------------------------------------------------
(* The cache *)

\* What the cache is trusted for, with its types.
CacheInv ==
  /\ turnOrder \in Seq(Nat)
  /\ \A ts \in DOMAIN turns : ts \in Nat /\ IsTurnStart(ts) /\ turns[ts] \in Seq(Byte)
  /\ CacheConsistent /\ CachedPlain

\* Every step but the end of decodeTurn leaves the cache alone.
LEMMA CacheUntouched ==
  ASSUME CacheInv, UNCHANGED <<turns, turnOrder>>
  PROVE  CacheInv'
<1>1. CacheConsistent'
  BY DEF CacheInv, CacheConsistent, Members, Distinct
<1>2. CachedPlain'
  BY DEF CacheInv, CachedPlain, PrefixOf
<1> QED BY <1>1, <1>2 DEF CacheInv, IsTurnStart

\* A turn enters the queue and the map together, and if there is no room the
\* oldest leaves both (cacheTurn).
LEMMA RetainKeepsCache ==
  ASSUME CacheInv, NEW ts \in Nat, NEW p \in Seq(Byte), ts \notin DOMAIN turns,
         IsTurnStart(ts), PrefixOf(ts, p), Len(p) <= MaxCachedTurn, Retain(ts, p)
  PROVE  CacheInv'
<1> DEFINE full == Len(turnOrder) >= TurnCacheMax
           rest == IF full THEN Tail(turnOrder) ELSE turnOrder
           kept == IF full THEN DOMAIN turns \ {Head(turnOrder)} ELSE DOMAIN turns
<1>1. /\ turnOrder \in Seq(Nat) /\ Len(turnOrder) \in Nat /\ TurnCacheMax \in Nat \ {0}
      /\ Distinct(turnOrder) /\ Members(turnOrder) = DOMAIN turns
      /\ Len(turnOrder) <= TurnCacheMax
  BY SizesAssumption DEF CacheInv, CacheConsistent
<1>2. /\ rest \in Seq(Nat) /\ Len(rest) \in Nat /\ Len(rest) < TurnCacheMax
      /\ Distinct(rest) /\ Members(rest) = kept
  <2>1. CASE full
    <3>1. turnOrder # <<>>
      BY <2>1, <1>1
    <3>2. /\ Tail(turnOrder) \in Seq(Nat) /\ Len(Tail(turnOrder)) = Len(turnOrder) - 1
          /\ Members(Tail(turnOrder)) = Members(turnOrder) \ {Head(turnOrder)}
          /\ Distinct(Tail(turnOrder))
      BY <3>1, <1>1, TailOfQueue
    <3> QED BY <2>1, <3>2, <1>1
  <2>2. CASE ~full
    BY <2>2, <1>1
  <2> QED BY <2>1, <2>2
<1>3. /\ turns' = [k \in kept \cup {ts} |-> IF k = ts THEN p ELSE turns[k]]
      /\ turnOrder' = Append(rest, ts)
  BY DEF Retain
<1>4. kept \subseteq DOMAIN turns /\ ts \notin kept
  OBVIOUS
<1> HIDE DEF rest, kept
<1>5. /\ turnOrder' \in Seq(Nat) /\ Len(turnOrder') = Len(rest) + 1
      /\ Members(turnOrder') = kept \cup {ts} /\ Distinct(turnOrder')
  BY <1>2, <1>3, <1>4, AppendToQueue
<1>6. CacheConsistent'
  <2>1. DOMAIN turns' = Members(turnOrder')
    BY <1>3, <1>5
  <2>2. Len(turnOrder') <= TurnCacheMax
    BY <1>1, <1>2, <1>5
  <2> QED BY <1>5, <2>1, <2>2 DEF CacheConsistent, Distinct, Members
<1>7. ASSUME NEW k \in DOMAIN turns'
      PROVE  /\ k \in Nat /\ IsTurnStart(k) /\ turns'[k] \in Seq(Byte)
             /\ PrefixOf(k, turns'[k]) /\ Len(turns'[k]) <= MaxCachedTurn
  <2>1. CASE k = ts
    <3>1. turns'[k] = p
      BY <2>1, <1>3
    <3> QED BY <2>1, <3>1
  <2>2. CASE k # ts
    <3>1. k \in DOMAIN turns /\ turns'[k] = turns[k]
      BY <2>2, <1>3, <1>4
    <3> QED BY <3>1 DEF CacheInv, CachedPlain
  <2> QED BY <2>1, <2>2
<1> QED
  BY <1>5, <1>6, <1>7 DEF CacheInv, CachedPlain, PrefixOf, IsTurnStart

\* A longer prefix of a cached turn replaces the cached one.
LEMMA LengthenKeepsCache ==
  ASSUME CacheInv, NEW ts \in DOMAIN turns, NEW p \in Seq(Byte),
         PrefixOf(ts, p), Len(p) <= MaxCachedTurn, Lengthen(ts, p)
  PROVE  CacheInv'
<1>1. /\ turns' = [turns EXCEPT ![ts] = IF Len(p) > Len(@) THEN p ELSE @]
      /\ turnOrder' = turnOrder
  BY DEF Lengthen
<1>2. DOMAIN turns' = DOMAIN turns
  BY <1>1
<1>3. CacheConsistent'
  BY <1>1, <1>2 DEF CacheInv, CacheConsistent, Members, Distinct
<1>4. ASSUME NEW k \in DOMAIN turns'
      PROVE  /\ k \in Nat /\ IsTurnStart(k) /\ turns'[k] \in Seq(Byte)
             /\ PrefixOf(k, turns'[k]) /\ Len(turns'[k]) <= MaxCachedTurn
  <2>1. turns'[k] = turns[k] \/ (k = ts /\ turns'[k] = p)
    BY <1>1, <1>2
  <2>2. CASE turns'[k] = turns[k]
    BY <1>2, <2>2 DEF CacheInv, CachedPlain
  <2>3. CASE k = ts /\ turns'[k] = p
    BY <2>3 DEF CacheInv
  <2> QED BY <2>1, <2>2, <2>3
<1> QED
  BY <1>1, <1>3, <1>4 DEF CacheInv, CachedPlain, PrefixOf, IsTurnStart

\* The last critical section of decodeTurn: the cache stays right, and the
\* reader goes on with the slice it asked for, its own or the cached one.
LEMMA StoreTurnKeepsCache ==
  ASSUME TypeOK, CacheInv, NEW r \in Readers, ReadInv(r), StoreTurn(r)
  PROVE  /\ CacheInv'
         /\ plain' \in [Readers -> Seq(Byte)]
         /\ plain'[r] = Slice(Plain, TurnStart(off[r]), NeedEnd(off[r], Last(r)))
         /\ \A q \in Readers \ {r} : plain'[q] = plain[q]
<1> DEFINE ts == TurnStart(off[r])
           need == NeedEnd(off[r], Last(r))
<1>0. pc[r] = "store" /\ off[r] < Last(r)
  <2>1. pc[r] = "store"
    BY DEF StoreTurn
  <2>2. /\ off[r] < ent[r].start + want[r] /\ ent[r].start + want[r] <= UncompLen
    BY <2>1 DEF ReadInv
  <2> QED BY <2>1, <2>2, EntryCoords, LastOfSlice
<1>1. /\ Last(r) = ent[r].start + want[r] /\ Last(r) <= UncompLen
      /\ ts \in Nat /\ need \in Nat /\ IsTurnStart(ts)
      /\ ts <= off[r] /\ off[r] < need
      /\ Slice(Plain, ts, need) \in Seq(Byte)
      /\ Len(Slice(Plain, ts, need)) = need - ts
      /\ PrefixOf(ts, Slice(Plain, ts, need))
  BY <1>0, TurnFacts
<1>2. plain[r] = Slice(Plain, ts, need)
  BY <1>0, <1>1 DEF ReadInv
<1>3. plain \in [Readers -> Seq(Byte)] /\ off[r] \in Nat
  BY DEF TypeOK
<1> HIDE DEF ts, need
<1>4. CASE ts \in DOMAIN turns /\ Len(turns[ts]) >= need - ts
  <2>1. /\ plain' = [plain EXCEPT ![r] = SubSeq(turns[ts], 1, need - ts)]
        /\ UNCHANGED <<turns, turnOrder>>
    BY <1>4 DEF StoreTurn, ts, need
  <2>2. SubSeq(turns[ts], 1, need - ts) = Slice(Plain, ts, need)
    <3>1. turns[ts] \in Seq(Byte) /\ PrefixOf(ts, turns[ts])
      BY <1>4 DEF CacheInv, CachedPlain
    <3>2. ts <= need /\ need <= ts + Len(turns[ts])
      BY <1>1, <1>3, <1>4, <3>1
    <3> QED BY <1>1, <3>1, <3>2, CutPrefix
  <2>3. CacheInv'
    BY <2>1, CacheUntouched
  <2> QED BY <1>1, <1>3, <2>1, <2>2, <2>3 DEF ts, need
<1>5. CASE ~(ts \in DOMAIN turns /\ Len(turns[ts]) >= need - ts)
  <2>1. CacheTurn(ts, plain[r]) /\ plain' = plain
    BY <1>5 DEF StoreTurn, ts, need
  <2>2. CacheInv'
    <3>1. CASE Len(plain[r]) > MaxCachedTurn
      <4>1. UNCHANGED <<turns, turnOrder>>
        BY <2>1, <3>1 DEF CacheTurn
      <4> QED BY <4>1, CacheUntouched
    <3>2. CASE ~(Len(plain[r]) > MaxCachedTurn) /\ ts \in DOMAIN turns
      <4>1. Lengthen(ts, plain[r])
        BY <2>1, <3>2 DEF CacheTurn
      <4>2. Len(plain[r]) <= MaxCachedTurn
        BY <1>1, <1>2, <3>2, SizesAssumption
      <4> QED BY <1>1, <1>2, <3>2, <4>1, <4>2, LengthenKeepsCache
    <3>3. CASE ~(Len(plain[r]) > MaxCachedTurn) /\ ts \notin DOMAIN turns
      <4>1. Retain(ts, plain[r])
        BY <2>1, <3>3 DEF CacheTurn
      <4>2. Len(plain[r]) <= MaxCachedTurn
        BY <1>1, <1>2, <3>3, SizesAssumption
      <4> QED BY <1>1, <1>2, <3>3, <4>1, <4>2, RetainKeepsCache
    <3> QED BY <3>1, <3>2, <3>3
  <2> QED BY <1>2, <1>3, <2>1, <2>2 DEF ts, need
<1> QED BY <1>4, <1>5

-----------------------------------------------------------------------------
(* The readers *)

\* Past ensureComp, one reader's part of NoNilComp.
NilFree(r) ==
  pc[r] \in {"range", "loop", "decode", "store", "append"} =>
    compDone /\ comp /\ ~compErr

\* A step of r touches no other goroutine's locals.
OthersKept(r) ==
  \A q \in Readers \ {r} :
    /\ pc'[q] = pc[q] /\ ent'[q] = ent[q] /\ want'[q] = want[q]
    /\ off'[q] = off[q] /\ out'[q] = out[q] /\ plain'[q] = plain[q]

\* The invariant after a step of r follows from what the step did to the
\* shared state and to r itself.
LEMMA OneReaderSteps ==
  ASSUME IInv, NEW r \in Readers, TypeOK', CacheInv', OthersKept(r),
         compDone => UNCHANGED <<comp, compErr, compDone>>,
         compDone' => comp' = ~compErr',
         ReadInv(r)', NilFree(r)', (pc[r] = "done" => Exact(r))'
  PROVE  IInv'
<1>1. ASSUME NEW q \in Readers
      PROVE  ReadInv(q)' /\ NilFree(q)' /\ (pc[q] = "done" => Exact(q))'
  <2>1. CASE q = r
    BY <2>1
  <2>2. CASE q # r
    <3>1. /\ pc'[q] = pc[q] /\ ent'[q] = ent[q] /\ want'[q] = want[q]
          /\ off'[q] = off[q] /\ out'[q] = out[q] /\ plain'[q] = plain[q]
      BY <2>2 DEF OthersKept
    <3>2. ReadInv(q)'
      BY <3>1 DEF IInv, ReadInv
    <3>3. NilFree(q)'
      BY <3>1 DEF IInv, NoNilComp, NilFree
    <3>4. (pc[q] = "done" => Exact(q))'
      BY <3>1 DEF IInv, ReadExact, Exact, Stream, StreamLen
    <3> QED BY <3>2, <3>3, <3>4
  <2> QED BY <2>1, <2>2
<1>2. NoNilComp'
  BY <1>1 DEF NoNilComp, NilFree
<1>3. ReadExact'
  BY <1>1 DEF ReadExact
<1> QED
  BY <1>1, <1>2, <1>3 DEF IInv, CacheInv

\* The cache part of the invariant.
LEMMA CacheOfIInv ==
  ASSUME IInv PROVE CacheInv
BY DEF IInv, TypeOK, CacheInv

\* A step that leaves every shared variable alone.
LEMMA SharedKept ==
  ASSUME IInv, UNCHANGED shared
  PROVE  /\ CacheInv'
         /\ compDone => UNCHANGED <<comp, compErr, compDone>>
         /\ compDone' => comp' = ~compErr'
         /\ comp' \in BOOLEAN /\ compErr' \in BOOLEAN /\ compDone' \in BOOLEAN
<1>1. UNCHANGED <<turns, turnOrder>> /\ UNCHANGED <<comp, compErr, compDone>>
  BY DEF shared
<1>2. CacheInv'
  BY <1>1, CacheOfIInv, CacheUntouched
<1> QED BY <1>1, <1>2 DEF IInv, TypeOK

\* A call starts.
LEMMA BeginStep ==
  ASSUME IInv, NEW r \in Readers, NEW e \in Entries, NEW n \in Nat, n <= e.length,
         NEW s, Begin(r, e, n, s),
         \/ s \in {"failed"}
         \/ s = "stored" /\ e.space = 0 /\ e.start + n <= StoredLen
         \/ s = "comp" /\ e.space = 1
         \/ s = "done" /\ n = 0
  PROVE  IInv'
<1>1. e.space \in Nat /\ e.start \in Nat /\ e.length \in Nat /\ e.length < AddrMod /\ AddrMod \in Nat
  BY DataAssumption, SizesAssumption
<1>2. n \in 0..(AddrMod - 1)
  BY <1>1
<1>3. TypeOK
  BY DEF IInv
<1>4. /\ pc[r] = "idle" /\ out[r] = <<>>
      /\ ent' = [ent EXCEPT ![r] = e] /\ want' = [want EXCEPT ![r] = n]
      /\ pc' = [pc EXCEPT ![r] = s]
      /\ UNCHANGED shared /\ UNCHANGED <<off, out, plain, loaded, faulted>>
  BY DEF Begin, Goto, IInv, ReadInv
<1>5. /\ ent'[r] = e /\ want'[r] = n /\ pc'[r] = s /\ out'[r] = <<>>
  BY <1>3, <1>4 DEF TypeOK
<1>6. s \in States
  BY DEF States
<1>7. TypeOK'
  <2>1. turns' = turns /\ turnOrder' = turnOrder
    BY <1>4 DEF shared
  <2> QED BY <1>2, <1>3, <1>4, <1>6, <2>1, SharedKept DEF TypeOK, IsTurnStart
<1>8. OthersKept(r)
  BY <1>3, <1>4 DEF TypeOK, OthersKept
<1>9. ReadInv(r)'
  BY <1>5 DEF ReadInv
<1>10. NilFree(r)'
  BY <1>5 DEF NilFree
<1>11. (pc[r] = "done" => Exact(r))'
  <2> SUFFICES ASSUME s = "done", n = 0 PROVE Exact(r)'
    BY <1>5
  <2>1. Slice(Stream(e), e.start, e.start + 0) = <<>>
    BY <1>1 DEF Slice
  <2> QED BY <1>5, <2>1 DEF Exact
<1> QED
  BY <1>4, <1>7, <1>8, <1>9, <1>10, <1>11, SharedKept, OneReaderSteps

LEMMA ReadEntryStep ==
  ASSUME IInv, NEW r \in Readers, ReadEntry(r) PROVE IInv'
<1> DEFINE S(e) == IF e.length > MaxSize THEN "failed"
          ELSE IF e.space = 0 THEN (IF e.start + e.length > StoredLen THEN "failed" ELSE "stored")
          ELSE IF e.space = 1 THEN "comp"
          ELSE "failed"
<1>1. PICK e \in Entries : Begin(r, e, e.length, S(e))
  BY DEF ReadEntry
<1>2. e.space \in Nat /\ e.start \in Nat /\ e.length \in Nat /\ StoredLen \in Nat
  BY DataAssumption, SizesAssumption
<1>3. \/ S(e) \in {"failed"}
      \/ S(e) = "stored" /\ e.space = 0 /\ e.start + e.length <= StoredLen
      \/ S(e) = "comp" /\ e.space = 1
  BY <1>2
<1> HIDE DEF S
<1> QED BY <1>1, <1>2, <1>3, BeginStep

LEMMA ReadEntryHeadStep ==
  ASSUME IInv, NEW r \in Readers, ReadEntryHead(r) PROVE IInv'
<1> DEFINE N(e) == Smaller(SniffLimit, e.length)
           S(e) == IF e.length = 0 THEN "done"
          ELSE IF e.space = 0
            THEN (IF e.start + N(e) > StoredLen \/ N(e) > MaxSize THEN "failed" ELSE "stored")
          ELSE IF e.space = 1 THEN "comp"
          ELSE "failed"
<1>1. PICK e \in Entries : Begin(r, e, N(e), S(e))
  BY DEF ReadEntryHead
<1>2. /\ e.space \in Nat /\ e.start \in Nat /\ e.length \in Nat /\ StoredLen \in Nat
      /\ SniffLimit \in Nat \ {0}
  BY DataAssumption, SizesAssumption
<1>3. N(e) \in Nat /\ N(e) <= e.length /\ (e.length = 0 => N(e) = 0)
  BY <1>2 DEF Smaller
<1> HIDE DEF N
<1>4. \/ S(e) \in {"failed"}
      \/ S(e) = "stored" /\ e.space = 0 /\ e.start + N(e) <= StoredLen
      \/ S(e) = "comp" /\ e.space = 1
      \/ S(e) = "done" /\ N(e) = 0
  BY <1>2, <1>3
<1> HIDE DEF S
<1> QED BY <1>1, <1>3, <1>4, BeginStep

\* The read of a stored entry.
LEMMA ReadStoredStep ==
  ASSUME IInv, NEW r \in Readers, ReadStored(r) PROVE IInv'
<1> DEFINE end == ent[r].start + want[r]
<1>1. /\ TypeOK /\ pc[r] = "stored" /\ ent[r].space = 0 /\ end <= StoredLen
      /\ UNCHANGED shared /\ UNCHANGED <<ent, want, off, plain, loaded>>
  BY DEF ReadStored, IInv, ReadInv
<1>2. /\ ent[r].start \in Nat /\ want[r] \in Nat /\ end \in Nat /\ StoredLen \in Nat
  BY <1>1, EntryCoords, SizesAssumption
<1>3. Slice(Stored, ent[r].start, end) \in Seq(Byte)
  <2>1. Stored \in [0..(StoredLen - 1) -> Byte]
    BY DataAssumption
  <2>2. \A k \in ent[r].start..(end - 1) : Stored[k] \in Byte
    BY <1>1, <1>2, <2>1
  <2>3. ent[r].start <= end
    BY <1>2
  <2> QED BY <1>2, <2>2, <2>3, SliceType
<1>4. \/ /\ out' = [out EXCEPT ![r] = Slice(Stored, ent[r].start, end)]
         /\ pc' = [pc EXCEPT ![r] = "done"] /\ UNCHANGED faulted
      \/ /\ faulted' = faulted \cup {r} /\ pc' = [pc EXCEPT ![r] = "failed"] /\ UNCHANGED out
  BY DEF ReadStored, Goto
<1>5. TypeOK'
  <2>1. turns' = turns /\ turnOrder' = turnOrder
    BY <1>1 DEF shared
  <2>2. pc \in [Readers -> States] /\ out \in [Readers -> Seq(Byte)] /\ faulted \subseteq Readers
    BY <1>1 DEF TypeOK
  <2>3. pc' \in [Readers -> States]
    BY <1>4, <2>2 DEF States
  <2>4. out' \in [Readers -> Seq(Byte)]
    BY <1>3, <1>4, <2>2
  <2>5. faulted' \subseteq Readers
    BY <1>4, <2>2
  <2> QED BY <1>1, <2>1, <2>3, <2>4, <2>5, SharedKept DEF TypeOK, IsTurnStart
<1>6. OthersKept(r)
  BY <1>1, <1>4 DEF TypeOK, OthersKept
<1>7. ent'[r] = ent[r] /\ want'[r] = want[r] /\ pc'[r] \in {"done", "failed"}
      /\ (pc'[r] = "done" => out'[r] = Slice(Stored, ent[r].start, end))
  BY <1>1, <1>4 DEF TypeOK
<1>8. (pc[r] = "done" => Exact(r))'
  BY <1>1, <1>7 DEF Exact, Stream, StreamLen
<1>9. ReadInv(r)' /\ NilFree(r)'
  BY <1>7 DEF ReadInv, NilFree
<1> QED
  BY <1>1, <1>5, <1>6, <1>8, <1>9, SharedKept, OneReaderSteps

\* A step that moves only r's program counter, inside the code where neither
\* out nor plain matters or to a failure.
LEMMA JumpStep ==
  ASSUME IInv, NEW r \in Readers, NEW s \in States,
         pc' = [pc EXCEPT ![r] = s], UNCHANGED locals, CacheInv', TypeOK',
         compDone => UNCHANGED <<comp, compErr, compDone>>,
         compDone' => comp' = ~compErr',
         ReadInv(r)', NilFree(r)', s = "done" => Exact(r)
  PROVE  IInv'
<1>1. /\ pc \in [Readers -> States] /\ UNCHANGED <<ent, want, off, out, plain>>
  BY DEF IInv, TypeOK, locals
<1>2. OthersKept(r) /\ pc'[r] = s
  BY <1>1 DEF OthersKept
<1>3. (pc[r] = "done" => Exact(r))'
  BY <1>1, <1>2 DEF Exact, Stream, StreamLen
<1> QED BY <1>2, <1>3, OneReaderSteps

\* ensureComp.
LEMMA CheckCompStep ==
  ASSUME IInv, NEW r \in Readers, CheckComp(r) PROVE IInv'
<1> DEFINE s == IF ~compDone THEN "load" ELSE IF compErr THEN "failed" ELSE "range"
<1>1. /\ TypeOK /\ pc[r] = "comp" /\ ent[r].space = 1
      /\ pc' = [pc EXCEPT ![r] = s] /\ UNCHANGED shared /\ UNCHANGED locals
  BY DEF CheckComp, Goto, IInv, ReadInv
<1>2. s \in {"load", "failed", "range"} /\ (s = "range" => compDone /\ ~compErr)
  OBVIOUS
<1> HIDE DEF s
<1>3. s \in States
  BY <1>2 DEF States
<1>4. pc'[r] = s /\ pc' \in [Readers -> States] /\ ent' = ent /\ out' = out
  BY <1>1, <1>3 DEF TypeOK, locals
<1>5. TypeOK'
  BY <1>1, <1>4, SharedKept DEF TypeOK, shared, locals, IsTurnStart
<1>6. ReadInv(r)'
  BY <1>1, <1>2, <1>4 DEF ReadInv
<1>7. NilFree(r)'
  BY <1>1, <1>2, <1>4 DEF NilFree, shared, IInv
<1>8. s # "done"
  BY <1>2
<1> QED BY <1>1, <1>3, <1>5, <1>6, <1>7, <1>8, SharedKept, JumpStep

LEMMA LoadCompStep ==
  ASSUME IInv, NEW r \in Readers, LoadComp(r) PROVE IInv'
<1>1. /\ TypeOK /\ pc[r] = "load" /\ ent[r].space = 1
      /\ pc' = [pc EXCEPT ![r] = "publish"] /\ UNCHANGED shared
      /\ UNCHANGED <<ent, want, off, out, plain, faulted>>
      /\ loaded' \in [Readers -> BOOLEAN]
  BY DEF LoadComp, Goto, IInv, ReadInv, TypeOK
<1>2. "publish" \in States
  BY DEF States
<1>3. pc'[r] = "publish" /\ pc' \in [Readers -> States] /\ OthersKept(r)
  BY <1>1, <1>2 DEF TypeOK, OthersKept
<1>4. TypeOK'
  BY <1>1, <1>3, SharedKept DEF TypeOK, shared, IsTurnStart
<1>5. ReadInv(r)' /\ NilFree(r)' /\ (pc[r] = "done" => Exact(r))'
  BY <1>1, <1>3 DEF ReadInv, NilFree
<1> QED BY <1>1, <1>3, <1>4, <1>5, SharedKept, OneReaderSteps

\* The first loader publishes; r goes on by the published result.
LEMMA PublishCompStep ==
  ASSUME IInv, NEW r \in Readers, PublishComp(r) PROVE IInv'
<1> DEFINE s == IF compErr' THEN "failed" ELSE "range"
<1>1. /\ TypeOK /\ pc[r] = "publish" /\ ent[r].space = 1
      /\ pc' = [pc EXCEPT ![r] = s]
      /\ UNCHANGED <<turns, turnOrder>> /\ UNCHANGED locals
  BY DEF PublishComp, Goto, IInv, ReadInv
<1>2. /\ comp \in BOOLEAN /\ compErr \in BOOLEAN /\ compDone \in BOOLEAN /\ loaded[r] \in BOOLEAN
      /\ compDone => comp = ~compErr
  BY <1>1 DEF TypeOK, IInv
<1>3. \/ compDone /\ UNCHANGED <<comp, compErr, compDone>>
      \/ ~compDone /\ comp' = loaded[r] /\ compErr' = ~loaded[r] /\ compDone' = TRUE
  BY <1>2 DEF PublishComp
<1>4. /\ comp' \in BOOLEAN /\ compErr' \in BOOLEAN /\ compDone' \in BOOLEAN
      /\ compDone' = TRUE /\ comp' = ~compErr'
      /\ compDone => UNCHANGED <<comp, compErr, compDone>>
  <2>1. CASE compDone /\ UNCHANGED <<comp, compErr, compDone>>
    BY <1>2, <2>1
  <2>2. CASE ~compDone /\ comp' = loaded[r] /\ compErr' = ~loaded[r] /\ compDone' = TRUE
    BY <1>2, <2>2
  <2> QED BY <1>3, <2>1, <2>2
<1>5. s \in {"failed", "range"} /\ (s = "range" => ~compErr')
  OBVIOUS
<1> HIDE DEF s
<1>6. s \in States
  BY <1>5 DEF States
<1>7. pc'[r] = s /\ pc' \in [Readers -> States] /\ ent' = ent /\ out' = out
  BY <1>1, <1>6 DEF TypeOK, locals
<1>8. TypeOK'
  BY <1>1, <1>4, <1>7 DEF TypeOK, locals, IsTurnStart
<1>9. ReadInv(r)'
  BY <1>1, <1>5, <1>7 DEF ReadInv
<1>10. NilFree(r)'
  BY <1>4, <1>5, <1>7 DEF NilFree
<1>11. CacheInv'
  BY <1>1, CacheOfIInv, CacheUntouched
<1>12. s # "done"
  BY <1>5
<1> QED BY <1>1, <1>4, <1>6, <1>8, <1>9, <1>10, <1>11, <1>12, JumpStep

\* The bounds checks of readEntryRange: only a slice inside the stream
\* enters the loop.
LEMMA CheckRangeStep ==
  ASSUME IInv, NEW r \in Readers, CheckRange(r) PROVE IInv'
<1> DEFINE bad == \/ Last(r) < ent[r].start \/ Last(r) > EndOf(ent[r], ent[r].length)
                  \/ ent[r].start > UncompLen \/ Last(r) > UncompLen
<1>1. /\ TypeOK /\ pc[r] = "range" /\ ent[r].space = 1 /\ NilFree(r)
      /\ UNCHANGED shared /\ UNCHANGED <<ent, want, plain, loaded, faulted>>
      /\ \/ bad /\ pc' = [pc EXCEPT ![r] = "failed"] /\ UNCHANGED <<off, out>>
         \/ /\ ~bad /\ pc' = [pc EXCEPT ![r] = "loop"]
            /\ off' = [off EXCEPT ![r] = ent[r].start]
            /\ out' = [out EXCEPT ![r] = <<>>]
  BY DEF CheckRange, Goto, IInv, ReadInv, NoNilComp, NilFree
<1>2. /\ ent[r].start \in Nat /\ want[r] \in Nat /\ Last(r) \in Nat /\ UncompLen \in Nat
      /\ ~bad => Last(r) = ent[r].start + want[r] /\ Last(r) <= UncompLen
  BY <1>1, EntryCoords, LastOfSlice
<1>3. ent[r].start \in Nat /\ <<>> \in Seq(Byte) /\ "failed" \in States /\ "loop" \in States
  BY <1>2 DEF States
<1>4. pc' \in [Readers -> States] /\ off' \in [Readers -> Nat] /\ out' \in [Readers -> Seq(Byte)]
  BY <1>1, <1>3 DEF TypeOK
<1>5. TypeOK'
  BY <1>1, <1>4, SharedKept DEF TypeOK, shared, IsTurnStart
<1>6. OthersKept(r)
  BY <1>1 DEF TypeOK, OthersKept
<1>7. Slice(Plain, ent[r].start, ent[r].start) = <<>>
  BY <1>2 DEF Slice
<1>8. /\ ent'[r] = ent[r] /\ want'[r] = want[r]
      /\ \/ pc'[r] = "failed"
         \/ /\ pc'[r] = "loop" /\ off'[r] = ent[r].start /\ out'[r] = <<>>
            /\ ent[r].start + want[r] <= UncompLen
  BY <1>1, <1>2 DEF TypeOK
<1>9. ReadInv(r)'
  <2>1. CASE pc'[r] = "failed"
    BY <2>1 DEF ReadInv
  <2>2. CASE /\ pc'[r] = "loop" /\ off'[r] = ent[r].start /\ out'[r] = <<>>
             /\ ent[r].start + want[r] <= UncompLen
    <3>1. ent[r].start <= ent[r].start + want[r]
      BY <1>2
    <3> QED BY <1>1, <1>2, <1>7, <1>8, <2>2, <3>1 DEF ReadInv
  <2> QED BY <1>8, <2>1, <2>2
<1>10. NilFree(r)' /\ (pc[r] = "done" => Exact(r))'
  BY <1>1, <1>8 DEF NilFree, shared
<1> QED
  BY <1>1, <1>5, <1>6, <1>9, <1>10, SharedKept, OneReaderSteps

\* A reader inside the loop stays there with the same slice in hand; a step
\* to it, or to a failure, that settles plain.
LEMMA LoopStep ==
  ASSUME IInv, NEW r \in Readers, NEW s \in States, TypeOK', CacheInv',
         pc[r] \in {"loop", "decode", "store"}, off[r] < Last(r),
         s \in {"decode", "store", "append", "failed"}, pc' = [pc EXCEPT ![r] = s],
         UNCHANGED <<comp, compErr, compDone, ent, want, off, out>>,
         \A q \in Readers \ {r} : plain'[q] = plain[q],
         s \in {"store", "append"} =>
           plain'[r] = Slice(Plain, TurnStart(off[r]), NeedEnd(off[r], Last(r)))
  PROVE  IInv'
<1>1. TypeOK /\ ReadInv(r) /\ pc'[r] = s /\ pc[r] \in {"loop", "decode", "store", "append"}
  BY DEF IInv, TypeOK
<1>2. /\ Last(r) = ent[r].start + want[r]
  BY <1>1, TurnFacts
<1>3. OthersKept(r)
  BY DEF IInv, TypeOK, OthersKept
<1>4. ReadInv(r)'
  BY <1>1, <1>2 DEF ReadInv
<1>5. NilFree(r)'
  BY <1>1 DEF IInv, NoNilComp, NilFree
<1>6. (pc[r] = "done" => Exact(r))'
  BY <1>1
<1>7. compDone' => comp' = ~compErr'
  BY DEF IInv
<1> QED BY <1>3, <1>4, <1>5, <1>6, <1>7, OneReaderSteps

\* decodeTurn's lookup: a hit gives the true content.
LEMMA LookupStep ==
  ASSUME IInv, NEW r \in Readers, Lookup(r) PROVE IInv'
<1> DEFINE ts == TurnStart(off[r])
           need == NeedEnd(off[r], Last(r))
           hit == ts \in DOMAIN turns /\ ts + Len(turns[ts]) >= need
<1>1. /\ TypeOK /\ CacheInv /\ ReadInv(r) /\ pc[r] = "loop" /\ off[r] < Last(r)
      /\ UNCHANGED shared /\ UNCHANGED <<ent, want, off, out, loaded, faulted>>
  BY CacheOfIInv DEF Lookup, IInv
<1>2. /\ ts \in Nat /\ need \in Nat /\ ts <= need /\ off[r] \in Nat
      /\ Slice(Plain, ts, need) \in Seq(Byte)
  <2>1. /\ ts \in Nat /\ need \in Nat /\ ts <= off[r] /\ off[r] < need
        /\ Slice(Plain, ts, need) \in Seq(Byte)
    BY <1>1, TurnFacts
  <2>2. off[r] \in Nat
    BY <1>1 DEF TypeOK
  <2> QED BY <2>1, <2>2
<1>3. \/ pc' = [pc EXCEPT ![r] = "failed"] /\ UNCHANGED plain
      \/ /\ hit /\ plain' = [plain EXCEPT ![r] = SubSeq(turns[ts], 1, need - ts)]
         /\ pc' = [pc EXCEPT ![r] = "append"]
      \/ pc' = [pc EXCEPT ![r] = "decode"] /\ UNCHANGED plain
  BY DEF Lookup, Goto
<1> HIDE DEF ts, need
<1>4. hit => SubSeq(turns[ts], 1, need - ts) = Slice(Plain, ts, need)
  BY <1>1, <1>2, CutPrefix DEF CacheInv, CachedPlain
<1>5. /\ pc' \in [Readers -> States] /\ plain' \in [Readers -> Seq(Byte)]
      /\ \A q \in Readers \ {r} : plain'[q] = plain[q]
  <2>1. /\ pc \in [Readers -> States] /\ plain \in [Readers -> Seq(Byte)]
        /\ {"failed", "append", "decode"} \subseteq States
    BY <1>1 DEF TypeOK, States
  <2>2. pc' \in [Readers -> States]
    BY <1>3, <2>1
  <2>3. plain' = plain \/ plain' = [plain EXCEPT ![r] = Slice(Plain, ts, need)]
    BY <1>3, <1>4
  <2> QED BY <1>2, <2>1, <2>2, <2>3
<1>6. TypeOK'
  BY <1>1, <1>5, SharedKept DEF TypeOK, shared, IsTurnStart
<1>7. UNCHANGED <<comp, compErr, compDone>>
  BY <1>1 DEF shared
<1>8. "failed" \in States /\ "append" \in States /\ "decode" \in States
  BY DEF States
<1>9. CASE pc' = [pc EXCEPT ![r] = "failed"] /\ UNCHANGED plain
  BY <1>1, <1>5, <1>6, <1>7, <1>8, <1>9, SharedKept, LoopStep
<1>10. CASE pc' = [pc EXCEPT ![r] = "decode"] /\ UNCHANGED plain
  BY <1>1, <1>5, <1>6, <1>7, <1>8, <1>10, SharedKept, LoopStep
<1>11. CASE /\ hit /\ plain' = [plain EXCEPT ![r] = SubSeq(turns[ts], 1, need - ts)]
            /\ pc' = [pc EXCEPT ![r] = "append"]
  <2>1. plain'[r] = Slice(Plain, ts, need)
    BY <1>1, <1>4, <1>11 DEF TypeOK
  <2> QED
    BY <1>1, <1>5, <1>6, <1>7, <1>8, <1>11, <2>1, SharedKept, LoopStep DEF ts, need
<1> QED BY <1>3, <1>9, <1>10, <1>11

\* The decoder gives the true content or the read fails.
LEMMA DecodeStep ==
  ASSUME IInv, NEW r \in Readers, Decode(r) PROVE IInv'
<1> DEFINE ts == TurnStart(off[r])
           need == NeedEnd(off[r], Last(r))
<1>1. /\ TypeOK /\ ReadInv(r) /\ pc[r] = "decode"
      /\ UNCHANGED shared /\ UNCHANGED <<ent, want, off, out, loaded>>
  BY DEF Decode, IInv
<1>2. off[r] < Last(r)
  BY <1>1, EntryCoords, LastOfSlice DEF ReadInv
<1>3. Slice(Plain, ts, need) \in Seq(Byte)
  BY <1>1, <1>2, TurnFacts
<1>4. \/ /\ plain' = [plain EXCEPT ![r] = Slice(Plain, ts, need)]
         /\ pc' = [pc EXCEPT ![r] = "store"] /\ UNCHANGED faulted
      \/ /\ faulted' \in {faulted, faulted \cup {r}}
         /\ pc' = [pc EXCEPT ![r] = "failed"] /\ UNCHANGED plain
  BY DEF Decode, Goto
<1> HIDE DEF ts, need
<1>5. /\ pc' \in [Readers -> States] /\ plain' \in [Readers -> Seq(Byte)]
      /\ faulted' \subseteq Readers
      /\ \A q \in Readers \ {r} : plain'[q] = plain[q]
  <2>1. pc \in [Readers -> States] /\ plain \in [Readers -> Seq(Byte)] /\ faulted \subseteq Readers
    BY <1>1 DEF TypeOK
  <2>2. pc' \in [Readers -> States]
    BY <1>4, <2>1 DEF States
  <2>3. plain' \in [Readers -> Seq(Byte)] /\ \A q \in Readers \ {r} : plain'[q] = plain[q]
    BY <1>3, <1>4, <2>1
  <2>4. faulted' \subseteq Readers
    BY <1>4, <2>1
  <2> QED
    BY <2>2, <2>3, <2>4
<1>6. TypeOK'
  BY <1>1, <1>5, SharedKept DEF TypeOK, shared, IsTurnStart
<1>7. UNCHANGED <<comp, compErr, compDone>>
  BY <1>1 DEF shared
<1>8. "failed" \in States /\ "store" \in States
  BY DEF States
<1>9. CASE pc' = [pc EXCEPT ![r] = "failed"] /\ UNCHANGED plain
  BY <1>1, <1>2, <1>5, <1>6, <1>7, <1>8, <1>9, SharedKept, LoopStep
<1>10. CASE /\ plain' = [plain EXCEPT ![r] = Slice(Plain, ts, need)]
            /\ pc' = [pc EXCEPT ![r] = "store"]
  <2>1. plain'[r] = Slice(Plain, ts, need)
    BY <1>1, <1>10 DEF TypeOK
  <2> QED
    BY <1>1, <1>2, <1>5, <1>6, <1>7, <1>8, <1>10, <2>1, SharedKept, LoopStep DEF ts, need
<1> QED BY <1>4, <1>9, <1>10

\* decodeTurn's end, with the cache lemma above.
LEMMA StoreTurnStep ==
  ASSUME IInv, NEW r \in Readers, StoreTurn(r) PROVE IInv'
<1>1. /\ TypeOK /\ CacheInv /\ ReadInv(r) /\ pc[r] = "store"
      /\ pc' = [pc EXCEPT ![r] = "append"]
      /\ UNCHANGED <<comp, compErr, compDone, ent, want, off, out, loaded, faulted>>
  BY CacheOfIInv DEF StoreTurn, Goto, IInv
<1>2. off[r] < Last(r)
  BY <1>1, EntryCoords, LastOfSlice DEF ReadInv
<1>3. /\ CacheInv'
      /\ plain' \in [Readers -> Seq(Byte)]
      /\ plain'[r] = Slice(Plain, TurnStart(off[r]), NeedEnd(off[r], Last(r)))
      /\ \A q \in Readers \ {r} : plain'[q] = plain[q]
  BY <1>1, StoreTurnKeepsCache
<1>4. "append" \in States
  BY DEF States
<1>5. pc' \in [Readers -> States]
  BY <1>1, <1>4 DEF TypeOK
<1>6. TypeOK'
  BY <1>1, <1>3, <1>5 DEF TypeOK, CacheInv
<1> QED BY <1>1, <1>2, <1>3, <1>4, <1>6, LoopStep

\* A round of the loop appends exactly the next bytes of the slice.
LEMMA AppendPlainStep ==
  ASSUME IInv, NEW r \in Readers, AppendPlain(r) PROVE IInv'
<1> DEFINE ts == TurnStart(off[r])
           need == NeedEnd(off[r], Last(r))
           end == ent[r].start + want[r]
           from == off[r] - ts
           n == Smaller(Len(plain[r]) - from, Last(r) - off[r])
<1>1. /\ TypeOK /\ ReadInv(r) /\ pc[r] = "append"
      /\ UNCHANGED shared /\ UNCHANGED <<ent, want, plain, loaded, faulted>>
  BY DEF AppendPlain, IInv
<1>2. /\ off[r] < Last(r) /\ ent[r].start \in Nat /\ want[r] \in Nat /\ off[r] \in Nat
      /\ ent[r].start <= off[r] /\ out[r] = Slice(Plain, ent[r].start, off[r])
      /\ UncompLen \in Nat
  BY <1>1, EntryCoords, LastOfSlice DEF ReadInv
<1>3. /\ Last(r) = end /\ Last(r) <= UncompLen
      /\ ts \in Nat /\ need \in Nat
      /\ ts <= off[r] /\ off[r] < need /\ need <= Last(r)
      /\ Len(Slice(Plain, ts, need)) = need - ts
  BY <1>1, <1>2, TurnFacts
<1>4. plain[r] = Slice(Plain, ts, need)
  BY <1>1, <1>3 DEF ReadInv
<1>5. \/ /\ from >= Len(plain[r]) \/ n = 0
         /\ pc' = [pc EXCEPT ![r] = "failed"] /\ UNCHANGED <<off, out>>
      \/ /\ out' = [out EXCEPT ![r] = out[r] \o SubSeq(plain[r], from + 1, from + n)]
         /\ off' = [off EXCEPT ![r] = off[r] + n]
         /\ pc' = [pc EXCEPT ![r] = "loop"]
  BY <1>1 DEF AppendPlain, Goto, TypeOK
<1> HIDE DEF ts, need
<1>6. n = need - off[r]
  BY <1>2, <1>3, <1>4 DEF Smaller
<1> HIDE DEF n
<1>7. /\ n \in Nat /\ off[r] + n = need /\ need <= end /\ end \in Nat
      /\ ~(from >= Len(plain[r]) \/ n = 0)
  BY <1>2, <1>3, <1>4, <1>6
<1>8. Slice(Plain, ent[r].start, off[r]) \o SubSeq(Slice(Plain, ts, need), off[r] - ts + 1, off[r] - ts + n)
        = Slice(Plain, ent[r].start, off[r] + n)
  <2>2. off[r] + n <= need
    BY <1>2, <1>7, <1>3
  <2> DEFINE a == ent[r].start
             b == off[r]
  <2>3. /\ a \in Nat /\ b \in Nat /\ ts \in Nat /\ need \in Nat /\ n \in Nat
        /\ a <= b /\ ts <= b /\ b + n <= need /\ need <= UncompLen
    BY <1>2, <1>3, <1>7, <2>2
  <2> HIDE DEF a, b
  <2>4. Continues(a, b, ts, need, n)
    BY <2>3, SliceAppend
  <2> QED BY <2>4 DEF Continues, a, b
<1>9. /\ out' = [out EXCEPT ![r] = Slice(Plain, ent[r].start, need)]
      /\ off' = [off EXCEPT ![r] = need]
      /\ pc' = [pc EXCEPT ![r] = "loop"]
  BY <1>2, <1>4, <1>5, <1>7, <1>8
<1>10. Slice(Plain, ent[r].start, need) \in Seq(Byte)
  <2>1. ent[r].start <= need
    BY <1>2, <1>3
  <2>2. \A k \in ent[r].start..(need - 1) : k \in Nat /\ k < UncompLen
    BY <1>2, <1>3
  <2> QED BY <1>2, <1>3, <2>1, <2>2, PlainBytes, SliceType
<1>11. TypeOK'
  <2>1. "loop" \in States
    BY DEF States
  <2>2. /\ pc' \in [Readers -> States] /\ off' \in [Readers -> Nat] /\ out' \in [Readers -> Seq(Byte)]
    BY <1>1, <1>3, <1>9, <1>10, <2>1 DEF TypeOK
  <2> QED BY <1>1, <2>2, SharedKept DEF TypeOK, shared, IsTurnStart
<1>12. OthersKept(r)
  BY <1>1, <1>9 DEF TypeOK, OthersKept
<1>13. /\ pc'[r] = "loop" /\ off'[r] = need /\ out'[r] = Slice(Plain, ent[r].start, need)
       /\ ent'[r] = ent[r] /\ want'[r] = want[r]
  BY <1>1, <1>9 DEF TypeOK
<1>14. ReadInv(r)'
  <2>1. ent[r].space = 1 /\ end <= UncompLen /\ ent[r].start <= need /\ need <= end
    BY <1>1, <1>2, <1>3, <1>7 DEF ReadInv
  <2> QED BY <1>13, <2>1 DEF ReadInv
<1>15. NilFree(r)' /\ (pc[r] = "done" => Exact(r))'
  BY <1>1, <1>13 DEF NilFree, IInv, NoNilComp, shared
<1> QED
  BY <1>1, <1>11, <1>12, <1>14, <1>15, SharedKept, OneReaderSteps

\* The loop ends with the whole slice read.
LEMMA ReturnStep ==
  ASSUME IInv, NEW r \in Readers, Return(r) PROVE IInv'
<1>1. /\ TypeOK /\ ReadInv(r) /\ pc[r] = "loop" /\ off[r] >= Last(r)
      /\ pc' = [pc EXCEPT ![r] = "done"] /\ UNCHANGED shared /\ UNCHANGED locals
  BY DEF Return, Goto, IInv
<1>2. /\ ent[r].start \in Nat /\ want[r] \in Nat /\ off[r] \in Nat /\ Last(r) \in Nat
      /\ UncompLen \in Nat /\ UncompLen < AddrMod /\ AddrMod \in Nat
      /\ ent[r].start + want[r] < AddrMod => Last(r) = ent[r].start + want[r]
  BY <1>1, EntryCoords, LastOfSlice
<1>3. /\ ent[r].start + want[r] <= UncompLen /\ off[r] <= ent[r].start + want[r]
      /\ out[r] = Slice(Plain, ent[r].start, off[r]) /\ ent[r].space = 1
  BY <1>1 DEF ReadInv
<1>4. off[r] = ent[r].start + want[r]
  BY <1>1, <1>2, <1>3
<1>5. Exact(r)
  BY <1>3, <1>4 DEF Exact, Stream, StreamLen
<1>6. "done" \in States
  BY DEF States
<1>7. pc'[r] = "done" /\ pc' \in [Readers -> States]
  BY <1>1, <1>6 DEF TypeOK
<1>8. TypeOK'
  BY <1>1, <1>7, SharedKept DEF TypeOK, shared, locals, IsTurnStart
<1>9. ReadInv(r)' /\ NilFree(r)'
  BY <1>7 DEF ReadInv, NilFree
<1> QED BY <1>1, <1>5, <1>6, <1>8, <1>9, SharedKept, JumpStep

\* The goroutine forgets its read.
LEMMA ReleaseStep ==
  ASSUME IInv, NEW r \in Readers, Release(r) PROVE IInv'
<1>1. /\ TypeOK /\ UNCHANGED shared
      /\ pc' = [pc EXCEPT ![r] = "idle"] /\ ent' = [ent EXCEPT ![r] = NoEntry]
      /\ want' = [want EXCEPT ![r] = 0] /\ off' = [off EXCEPT ![r] = 0]
      /\ out' = [out EXCEPT ![r] = <<>>] /\ plain' = [plain EXCEPT ![r] = <<>>]
      /\ loaded' = [loaded EXCEPT ![r] = FALSE] /\ faulted' = faulted \ {r}
  BY DEF Release, Goto, IInv
<1>2. "idle" \in States /\ <<>> \in Seq(Byte) /\ 0 \in 0..(AddrMod - 1)
  BY SizesAssumption, TurnLenPos DEF States, TurnLen
<1>3. /\ pc' \in [Readers -> States] /\ ent' \in [Readers -> Entries \cup {NoEntry}]
      /\ want' \in [Readers -> 0..(AddrMod - 1)] /\ off' \in [Readers -> Nat]
      /\ out' \in [Readers -> Seq(Byte)] /\ plain' \in [Readers -> Seq(Byte)]
      /\ loaded' \in [Readers -> BOOLEAN] /\ faulted' \subseteq Readers
  BY <1>1, <1>2 DEF TypeOK
<1>4. TypeOK'
  BY <1>1, <1>3, SharedKept DEF TypeOK, shared, IsTurnStart
<1>5. OthersKept(r) /\ pc'[r] = "idle" /\ out'[r] = <<>>
  BY <1>1 DEF TypeOK, OthersKept
<1>6. ReadInv(r)' /\ NilFree(r)' /\ (pc[r] = "done" => Exact(r))'
  BY <1>5 DEF ReadInv, NilFree
<1> QED BY <1>1, <1>4, <1>5, <1>6, SharedKept, OneReaderSteps

-----------------------------------------------------------------------------
(* The theorems *)

\* A new container satisfies the invariant (openContainer).
LEMMA InitIInv == Init => IInv
<1> SUFFICES ASSUME Init PROVE IInv
  OBVIOUS
<1>1. TypeOK
  <2>1. "idle" \in States /\ 0 \in 0..(AddrMod - 1)
    BY SizesAssumption, TurnLenPos DEF States, TurnLen
  <2>2. DOMAIN turns = {} /\ <<>> \in Seq(Byte) /\ turnOrder \in Seq(Nat)
    BY DEF Init
  <2> QED BY <2>1, <2>2 DEF Init, TypeOK
<1>2. CacheConsistent /\ CachedPlain
  <2>1. DOMAIN turns = {} /\ Len(turnOrder) = 0
    BY DEF Init
  <2>2. TurnCacheMax \in Nat
    BY SizesAssumption
  <2> QED BY <2>1, <2>2 DEF CacheConsistent, CachedPlain, Members, Distinct
<1>3. \A r \in Readers : ReadInv(r) /\ NilFree(r) /\ pc[r] # "done"
  BY DEF Init, ReadInv, NilFree
<1> QED
  BY <1>1, <1>2, <1>3 DEF Init, IInv, NoNilComp, NilFree, ReadExact

\* No step of any goroutine breaks the invariant.
LEMMA NextIInv == IInv /\ [Next]_vars => IInv'
<1> SUFFICES ASSUME IInv, [Next]_vars PROVE IInv'
  OBVIOUS
<1>1. ASSUME NEW r \in Readers, ReadEntry(r) PROVE IInv'
  BY <1>1, ReadEntryStep
<1>2. ASSUME NEW r \in Readers, ReadEntryHead(r) PROVE IInv'
  BY <1>2, ReadEntryHeadStep
<1>3. ASSUME NEW r \in Readers, Working(r) PROVE IInv'
  <2>1. CASE ReadStored(r)
    BY <2>1, ReadStoredStep
  <2>2. CASE CheckComp(r)
    BY <2>2, CheckCompStep
  <2>3. CASE LoadComp(r)
    BY <2>3, LoadCompStep
  <2>4. CASE PublishComp(r)
    BY <2>4, PublishCompStep
  <2>5. CASE CheckRange(r)
    BY <2>5, CheckRangeStep
  <2>6. CASE Lookup(r)
    BY <2>6, LookupStep
  <2>7. CASE Decode(r)
    BY <2>7, DecodeStep
  <2>8. CASE StoreTurn(r)
    BY <2>8, StoreTurnStep
  <2>9. CASE AppendPlain(r)
    BY <2>9, AppendPlainStep
  <2>10. CASE Return(r)
    BY <2>10, ReturnStep
  <2> QED
    BY <1>3, <2>1, <2>2, <2>3, <2>4, <2>5, <2>6, <2>7, <2>8, <2>9, <2>10 DEF Working
<1>4. ASSUME NEW r \in Readers, Release(r) PROVE IInv'
  BY <1>4, ReleaseStep
<1>5. CASE UNCHANGED vars
  <2>1. UNCHANGED <<comp, compErr, compDone, turns, turnOrder, pc, ent, want, off, out, plain,
                    loaded, faulted>>
    BY <1>5 DEF vars, shared, locals
  <2>2. TypeOK'
    BY <2>1 DEF IInv, TypeOK, IsTurnStart
  <2>3. CacheInv'
    BY <2>1, CacheOfIInv, CacheUntouched
  <2>4. NoNilComp' /\ (compDone' => comp' = ~compErr')
    BY <2>1 DEF IInv, NoNilComp
  <2>5. ReadExact'
    BY <2>1 DEF IInv, ReadExact, Exact, Stream, StreamLen
  <2>6. \A r \in Readers : ReadInv(r)'
    BY <2>1 DEF IInv, ReadInv
  <2> QED BY <2>2, <2>3, <2>4, <2>5, <2>6 DEF IInv, CacheInv
<1> QED BY <1>1, <1>2, <1>3, <1>4, <1>5 DEF Next

\* The invariant holds throughout every execution.
THEOREM Invariance == Spec => []IInv
BY InitIInv, NextIInv, PTL DEF Spec

\* Every variable of the container and of its readers keeps its type.
THEOREM TypeCorrect == Spec => []TypeOK
<1>1. IInv => TypeOK
  BY DEF IInv
<1> QED BY Invariance, <1>1, PTL

\* The bounded cache and its eviction queue never disagree.
THEOREM CacheStaysConsistent == Spec => []CacheConsistent
<1>1. IInv => CacheConsistent
  BY DEF IInv
<1> QED BY Invariance, <1>1, PTL

\* The cache never holds anything but the content of the turn it names.
THEOREM CacheHoldsContent == Spec => []CachedPlain
<1>1. IInv => CachedPlain
  BY DEF IInv
<1> QED BY Invariance, <1>1, PTL

\* No goroutine dereferences the parameters before they are published.
THEOREM ParametersPresent == Spec => []NoNilComp
<1>1. IInv => NoNilComp
  BY DEF IInv
<1> QED BY Invariance, <1>1, PTL

\* Every answer is the requested slice, for any number of concurrent readers.
THEOREM ReadsAreExact == Spec => []ReadExact
<1>1. IInv => ReadExact
  BY DEF IInv
<1> QED BY Invariance, <1>1, PTL

\* A cached prefix is only ever replaced by a longer one (cacheTurn).
LEMMA StoreTurnLengthens ==
  ASSUME IInv, NEW r \in Readers, StoreTurn(r),
         NEW k \in DOMAIN turns, k \in DOMAIN turns'
  PROVE  Len(turns'[k]) >= Len(turns[k])
<1> DEFINE ts == TurnStart(off[r])
           p == plain[r]
<1>1. /\ turns[k] \in Seq(Byte) /\ Len(turns[k]) \in Nat
      /\ p \in Seq(Byte) /\ Len(p) \in Nat
  BY DEF IInv, TypeOK
<1>2. UNCHANGED turns \/ CacheTurn(ts, p)
  BY DEF StoreTurn
<1> HIDE DEF ts, p
<1>3. CASE UNCHANGED turns
  BY <1>1, <1>3
<1>4. CASE CacheTurn(ts, p)
  <2>1. CASE Lengthen(ts, p) /\ ts \in DOMAIN turns
    <3>1. turns'[k] = turns[k] \/ (k = ts /\ turns'[k] = p /\ Len(p) > Len(turns[k]))
      BY <2>1 DEF Lengthen
    <3> QED BY <1>1, <3>1
  <2>2. CASE Retain(ts, p) /\ ts \notin DOMAIN turns
    <3>1. turns'[k] = turns[k]
      BY <2>2 DEF Retain
    <3> QED BY <1>1, <3>1
  <2>3. CASE UNCHANGED turns
    BY <1>1, <2>3
  <2> QED BY <1>4, <2>1, <2>2, <2>3 DEF CacheTurn
<1> QED BY <1>2, <1>3, <1>4

\* Turns that stay cached never lose bytes.
THEOREM CacheKeepsLongest == Spec => LongestKept
<1>1. IInv /\ [Next]_vars => [NoPrefixShrinks]_vars
  <2> SUFFICES ASSUME IInv, NEW r \in Readers,
                      ReadEntry(r) \/ ReadEntryHead(r) \/ Working(r) \/ Release(r)
               PROVE  NoPrefixShrinks
    BY DEF Next
  <2>1. CASE StoreTurn(r)
    BY <2>1, StoreTurnLengthens DEF NoPrefixShrinks
  <2>2. CASE UNCHANGED turns
    <3> SUFFICES ASSUME NEW k \in DOMAIN turns, k \in DOMAIN turns'
                 PROVE  Len(turns'[k]) >= Len(turns[k])
      BY DEF NoPrefixShrinks
    <3>1. Len(turns[k]) \in Nat
      BY DEF IInv, TypeOK
    <3>2. turns'[k] = turns[k]
      BY <2>2
    <3> QED BY <3>1, <3>2
  <2>3. StoreTurn(r) \/ UNCHANGED turns
    BY DEF ReadEntry, ReadEntryHead, Begin, Working, Release, ReadStored, CheckComp, LoadComp,
           PublishComp, CheckRange, Lookup, Decode, AppendPlain, Return, shared
  <2> QED BY <2>1, <2>2, <2>3
<1> QED BY Invariance, <1>1, PTL DEF Spec, LongestKept

-----------------------------------------------------------------------------
(* Refusals *)

\* A refusal that NoSpuriousFailure accepts.
Excused(r) ==
  \/ r \in faulted \/ (ent[r].space = 1 /\ compErr)
  \/ ~Proper(ent[r]) \/ (ent[r].space = 1 /\ ~NearTurnStart(ent[r]))

\* The strengthening: no more is wanted of an entry than it has, and an
\* error of the parameters is a published one.
RefusalInv ==
  /\ \A r \in Readers : pc[r] = "failed" => Excused(r)
  /\ \A r \in Readers : want[r] <= ent[r].length
  /\ compErr => compDone

\* The bounds checks of readEntryRange pass for a well-formed entry: the
\* coordinates of a slice inside the stream do not wrap.
LEMMA RangePasses ==
  ASSUME IInv, RefusalInv, NEW r \in Readers, pc[r] = "range", Proper(ent[r])
  PROVE  ~ \/ Last(r) < ent[r].start \/ Last(r) > EndOf(ent[r], ent[r].length)
           \/ ent[r].start > UncompLen \/ Last(r) > UncompLen
<1>1. TypeOK /\ ent[r].space = 1 /\ want[r] <= ent[r].length
  BY DEF IInv, ReadInv, RefusalInv
<1>2. /\ ent[r].start \in Nat /\ ent[r].length \in Nat /\ want[r] \in Nat
      /\ ent[r].start < AddrMod /\ ent[r].length < AddrMod
      /\ AddrMod \in Nat /\ UncompLen \in Nat /\ UncompLen < AddrMod
  BY <1>1, EntryCoords
<1>3. ent[r].start + ent[r].length <= UncompLen
  BY <1>1 DEF Proper, StreamLen
<1>4. EndOf(ent[r], ent[r].length) = ent[r].start + ent[r].length
  BY <1>2, <1>3, WrappedEnd DEF EndOf
<1>5. Last(r) = ent[r].start + want[r]
  BY <1>1, <1>2, <1>3, LastOfSlice
<1> QED BY <1>1, <1>2, <1>3, <1>4, <1>5

\* Inside the loop decodeTurn's range check passes, whatever the entry.
LEMMA LookupPasses ==
  ASSUME IInv, NEW r \in Readers, Lookup(r)
  PROVE  LET ts == TurnStart(off[r])
             need == NeedEnd(off[r], Last(r))
         IN ~(need <= ts \/ need > Smaller(ts + TurnLen, UncompLen))
<1>1. TypeOK /\ ReadInv(r) /\ pc[r] = "loop" /\ off[r] < Last(r)
  BY DEF IInv, Lookup
<1> DEFINE ts == TurnStart(off[r])
           need == NeedEnd(off[r], Last(r))
<1>2. /\ ts \in Nat /\ need \in Nat /\ ts <= off[r] /\ off[r] < need
      /\ need <= Last(r) /\ Last(r) <= UncompLen /\ need <= ts + TurnLen
  BY <1>1, TurnFacts
<1>3. Last(r) \in Nat /\ off[r] \in Nat /\ UncompLen \in Nat /\ TurnLen \in Nat
  BY <1>1, LastOfSlice, EntryCoords, TurnLenPos
<1> HIDE DEF ts, need
<1>4. ~(need <= ts \/ need > Smaller(ts + TurnLen, UncompLen))
  BY <1>2, <1>3 DEF Smaller
<1> QED BY <1>4 DEF ts, need

\* The prefix asked of the decoder is within the size limit when the entry
\* lies near the start of its turn.
LEMMA DecodeWithinLimit ==
  ASSUME IInv, RefusalInv, NEW r \in Readers, pc[r] = "decode", NearTurnStart(ent[r])
  PROVE  NeedEnd(off[r], Last(r)) - TurnStart(off[r]) <= MaxSize
<1>1. TypeOK /\ ReadInv(r) /\ want[r] <= ent[r].length
  BY DEF IInv, RefusalInv
<1>2. off[r] < Last(r)
  BY <1>1, EntryCoords, LastOfSlice DEF ReadInv
<1> DEFINE ts == TurnStart(off[r])
           need == NeedEnd(off[r], Last(r))
<1>3. /\ Last(r) = ent[r].start + want[r]
      /\ ts \in Nat /\ need \in Nat /\ need <= Last(r) /\ need <= ts + TurnLen
  BY <1>1, <1>2, TurnFacts
<1>4. /\ ent[r].start \in Nat /\ ent[r].length \in Nat /\ want[r] \in Nat
      /\ TurnLen \in Nat /\ MaxSize \in Nat
  BY <1>1, EntryCoords, TurnLenPos, SizesAssumption
<1>5. TurnLen <= MaxSize \/ ent[r].start + ent[r].length <= MaxSize
  BY DEF NearTurnStart
<1> HIDE DEF ts, need
<1>6. need - ts <= MaxSize
  BY <1>1, <1>3, <1>4, <1>5
<1> QED BY <1>6 DEF ts, need

\* Every round of the loop makes progress.
LEMMA AppendProgresses ==
  ASSUME IInv, NEW r \in Readers, pc[r] = "append"
  PROVE  LET from == off[r] - TurnStart(off[r])
             n == Smaller(Len(plain[r]) - from, Last(r) - off[r])
         IN ~(from >= Len(plain[r]) \/ n = 0)
<1>1. TypeOK /\ ReadInv(r)
  BY DEF IInv
<1>2. off[r] < Last(r) /\ off[r] \in Nat /\ Last(r) \in Nat
  BY <1>1, EntryCoords, LastOfSlice DEF ReadInv
<1> DEFINE ts == TurnStart(off[r])
           need == NeedEnd(off[r], Last(r))
<1>3. /\ Last(r) = ent[r].start + want[r]
      /\ ts \in Nat /\ need \in Nat /\ ts <= off[r] /\ off[r] < need
      /\ Len(Slice(Plain, ts, need)) = need - ts
  BY <1>1, <1>2, TurnFacts
<1>4. plain[r] = Slice(Plain, ts, need)
  BY <1>1, <1>3 DEF ReadInv
<1> HIDE DEF need
<1>5. Len(plain[r]) = need - ts
  BY <1>3, <1>4
<1> HIDE DEF ts
<1>6. /\ ~(off[r] - ts >= Len(plain[r]))
      /\ Smaller(Len(plain[r]) - (off[r] - ts), Last(r) - off[r]) # 0
  BY <1>2, <1>3, <1>5 DEF Smaller
<1> QED BY <1>6 DEF ts

\* The refusals after a step of r follow from what it did to r.
LEMMA OneReaderRefusals ==
  ASSUME RefusalInv, NEW r \in Readers,
         \A q \in Readers \ {r} : pc'[q] = pc[q] /\ ent'[q] = ent[q] /\ want'[q] = want[q],
         faulted \ {r} \subseteq faulted',
         want'[r] <= ent'[r].length,
         compErr => compErr', compErr' => compDone',
         pc'[r] = "failed" => Excused(r)'
  PROVE  RefusalInv'
<1>1. ASSUME NEW q \in Readers
      PROVE (pc'[q] = "failed" => Excused(q)') /\ want'[q] <= ent'[q].length
  <2>1. CASE q = r
    BY <2>1
  <2>2. CASE q # r
    <3>1. pc'[q] = pc[q] /\ ent'[q] = ent[q] /\ want'[q] = want[q]
      BY <2>2
    <3>2. pc[q] = "failed" => Excused(q)
      BY DEF RefusalInv
    <3>3. Excused(q) => Excused(q)'
      BY <2>2, <3>1 DEF Excused, Proper, NearTurnStart, StreamLen
    <3> QED BY <3>1, <3>2, <3>3 DEF RefusalInv
  <2> QED BY <2>1, <2>2
<1> QED BY <1>1 DEF RefusalInv

\* A step that keeps the entry and the shared parameters.
LEMMA EntryKeptRefusals ==
  ASSUME IInv, RefusalInv, NEW r \in Readers, NEW s \in States,
         pc' = [pc EXCEPT ![r] = s], UNCHANGED <<ent, want, comp, compErr, compDone>>,
         faulted \subseteq faulted',
         s = "failed" => Excused(r)'
  PROVE  RefusalInv'
<1>1. pc'[r] = s /\ \A q \in Readers \ {r} : pc'[q] = pc[q]
  BY DEF IInv, TypeOK
<1>2. want'[r] <= ent'[r].length
  BY DEF RefusalInv
<1> QED BY <1>1, <1>2, OneReaderRefusals DEF RefusalInv
-----------------------------------------------------------------------------
(* The steps that can refuse *)

\* Where a call goes at once: only an entry that is not well formed is
\* turned down before it is read.
LEMMA BeginRefusals ==
  ASSUME IInv, RefusalInv, NEW r \in Readers, NEW e \in Entries, NEW n \in Nat,
         n <= e.length, NEW s, Begin(r, e, n, s), s = "failed" => ~Proper(e)
  PROVE  RefusalInv'
<1>1. /\ pc' = [pc EXCEPT ![r] = s] /\ ent' = [ent EXCEPT ![r] = e]
      /\ want' = [want EXCEPT ![r] = n] /\ faulted' = faulted
      /\ compErr' = compErr /\ compDone' = compDone
  BY DEF Begin, Goto, shared
<1>2. /\ pc'[r] = s /\ ent'[r] = e /\ want'[r] = n
      /\ \A q \in Readers \ {r} : pc'[q] = pc[q] /\ ent'[q] = ent[q] /\ want'[q] = want[q]
  BY <1>1 DEF IInv, TypeOK
<1>3. pc'[r] = "failed" => Excused(r)'
  BY <1>2 DEF Excused, Proper, StreamLen
<1>4. compErr' => compDone'
  BY <1>1 DEF RefusalInv
<1>5. want'[r] <= ent'[r].length
  BY <1>2
<1> QED BY <1>1, <1>2, <1>3, <1>4, <1>5, OneReaderRefusals

LEMMA ReadEntryRefusals ==
  ASSUME IInv, RefusalInv, NEW r \in Readers, ReadEntry(r) PROVE RefusalInv'
<1> DEFINE S(e) == IF e.length > MaxSize THEN "failed"
          ELSE IF e.space = 0 THEN (IF e.start + e.length > StoredLen THEN "failed" ELSE "stored")
          ELSE IF e.space = 1 THEN "comp"
          ELSE "failed"
<1>1. PICK e \in Entries : Begin(r, e, e.length, S(e))
  BY DEF ReadEntry
<1>2. /\ e.space \in Nat /\ e.start \in Nat /\ e.length \in Nat /\ StoredLen \in Nat
      /\ MaxSize \in Nat
  BY DataAssumption, SizesAssumption
<1>3. S(e) = "failed" => ~Proper(e)
  BY <1>2 DEF Proper, StreamLen
<1>4. e.length <= e.length
  BY <1>2
<1> HIDE DEF S
<1> QED BY <1>1, <1>2, <1>3, <1>4, BeginRefusals

LEMMA ReadEntryHeadRefusals ==
  ASSUME IInv, RefusalInv, NEW r \in Readers, ReadEntryHead(r) PROVE RefusalInv'
<1> DEFINE N(e) == Smaller(SniffLimit, e.length)
           S(e) == IF e.length = 0 THEN "done"
          ELSE IF e.space = 0
            THEN (IF e.start + N(e) > StoredLen \/ N(e) > MaxSize THEN "failed" ELSE "stored")
          ELSE IF e.space = 1 THEN "comp"
          ELSE "failed"
<1>1. PICK e \in Entries : Begin(r, e, N(e), S(e))
  BY DEF ReadEntryHead
<1>2. /\ e.space \in Nat /\ e.start \in Nat /\ e.length \in Nat /\ StoredLen \in Nat
      /\ SniffLimit \in Nat \ {0} /\ MaxSize \in Nat
  BY DataAssumption, SizesAssumption
<1>3. N(e) \in Nat /\ N(e) <= e.length
  BY <1>2 DEF Smaller
<1> HIDE DEF N
<1>4. S(e) = "failed" => ~Proper(e)
  BY <1>2, <1>3 DEF Proper, StreamLen
<1> HIDE DEF S
<1> QED BY <1>1, <1>3, <1>4, BeginRefusals

LEMMA ReadStoredRefusals ==
  ASSUME IInv, RefusalInv, NEW r \in Readers, ReadStored(r) PROVE RefusalInv'
<1>1. /\ UNCHANGED <<ent, want, comp, compErr, compDone>>
      /\ \/ pc' = [pc EXCEPT ![r] = "done"] /\ faulted' = faulted
         \/ pc' = [pc EXCEPT ![r] = "failed"] /\ faulted' = faulted \cup {r}
  BY DEF ReadStored, Goto, shared
<1>2. "done" \in States /\ "failed" \in States
  BY DEF States
<1>3. CASE pc' = [pc EXCEPT ![r] = "done"] /\ faulted' = faulted
  BY <1>1, <1>2, <1>3, EntryKeptRefusals
<1>4. CASE pc' = [pc EXCEPT ![r] = "failed"] /\ faulted' = faulted \cup {r}
  <2>1. Excused(r)'
    BY <1>4 DEF Excused
  <2> QED BY <1>1, <1>2, <1>4, <2>1, EntryKeptRefusals
<1> QED BY <1>1, <1>3, <1>4

LEMMA CheckCompRefusals ==
  ASSUME IInv, RefusalInv, NEW r \in Readers, CheckComp(r) PROVE RefusalInv'
<1> DEFINE s == IF ~compDone THEN "load" ELSE IF compErr THEN "failed" ELSE "range"
<1>1. /\ UNCHANGED <<ent, want, comp, compErr, compDone, faulted>>
      /\ pc' = [pc EXCEPT ![r] = s] /\ ent[r].space = 1
  BY DEF CheckComp, Goto, shared, locals, IInv, ReadInv
<1>2. s \in States /\ (s = "failed" => compErr)
  BY DEF States
<1> HIDE DEF s
<1>3. s = "failed" => Excused(r)'
  BY <1>1, <1>2 DEF Excused
<1> QED BY <1>1, <1>2, <1>3, EntryKeptRefusals

LEMMA PublishCompRefusals ==
  ASSUME IInv, RefusalInv, NEW r \in Readers, PublishComp(r) PROVE RefusalInv'
<1> DEFINE s == IF compErr' THEN "failed" ELSE "range"
<1>1. /\ UNCHANGED <<ent, want, faulted>>
      /\ pc' = [pc EXCEPT ![r] = s] /\ ent[r].space = 1
      /\ compDone => UNCHANGED <<compErr, compDone>>
      /\ ~compDone => compDone'
  BY DEF PublishComp, Goto, locals, IInv, ReadInv
<1>2. /\ compErr => compErr'
      /\ compErr' => compDone'
  BY <1>1 DEF RefusalInv
<1>3. s = "failed" => compErr'
  OBVIOUS
<1> HIDE DEF s
<1>4. /\ pc'[r] = s
      /\ \A q \in Readers \ {r} : pc'[q] = pc[q] /\ ent'[q] = ent[q] /\ want'[q] = want[q]
  BY <1>1 DEF IInv, TypeOK
<1>5. pc'[r] = "failed" => Excused(r)'
  BY <1>1, <1>3, <1>4 DEF Excused
<1>6. want'[r] <= ent'[r].length /\ faulted \ {r} \subseteq faulted'
  BY <1>1 DEF RefusalInv
<1> QED BY <1>2, <1>4, <1>5, <1>6, OneReaderRefusals

LEMMA CheckRangeRefusals ==
  ASSUME IInv, RefusalInv, NEW r \in Readers, CheckRange(r) PROVE RefusalInv'
<1> DEFINE bad == \/ Last(r) < ent[r].start \/ Last(r) > EndOf(ent[r], ent[r].length)
                  \/ ent[r].start > UncompLen \/ Last(r) > UncompLen
<1>1. /\ UNCHANGED <<ent, want, comp, compErr, compDone, faulted>> /\ pc[r] = "range"
      /\ \/ bad /\ pc' = [pc EXCEPT ![r] = "failed"]
         \/ pc' = [pc EXCEPT ![r] = "loop"]
  BY DEF CheckRange, Goto, shared
<1>2. "loop" \in States /\ "failed" \in States
  BY DEF States
<1>3. bad => ~Proper(ent[r])
  BY <1>1, RangePasses
<1> HIDE DEF bad
<1>4. CASE bad /\ pc' = [pc EXCEPT ![r] = "failed"]
  <2>1. Excused(r)'
    BY <1>1, <1>3, <1>4 DEF Excused, Proper, StreamLen
  <2> QED BY <1>1, <1>2, <1>4, <2>1, EntryKeptRefusals
<1>5. CASE pc' = [pc EXCEPT ![r] = "loop"]
  BY <1>1, <1>2, <1>5, EntryKeptRefusals
<1> QED BY <1>1, <1>4, <1>5

LEMMA LookupRefusals ==
  ASSUME IInv, RefusalInv, NEW r \in Readers, Lookup(r) PROVE RefusalInv'
<1>1. /\ UNCHANGED <<ent, want, comp, compErr, compDone, faulted>>
  BY DEF Lookup, shared
<1>2. "append" \in States /\ "decode" \in States
  BY DEF States
<1>3. pc' = [pc EXCEPT ![r] = "append"] \/ pc' = [pc EXCEPT ![r] = "decode"]
  BY LookupPasses DEF Lookup, Goto
<1> QED BY <1>1, <1>2, <1>3, EntryKeptRefusals

LEMMA DecodeRefusals ==
  ASSUME IInv, RefusalInv, NEW r \in Readers, Decode(r) PROVE RefusalInv'
<1> DEFINE over == NeedEnd(off[r], Last(r)) - TurnStart(off[r]) > MaxSize
<1>1. /\ UNCHANGED <<ent, want, comp, compErr, compDone>> /\ pc[r] = "decode"
      /\ \/ over /\ pc' = [pc EXCEPT ![r] = "failed"] /\ faulted' = faulted
         \/ pc' = [pc EXCEPT ![r] = "store"] /\ faulted' = faulted
         \/ pc' = [pc EXCEPT ![r] = "failed"] /\ faulted' = faulted \cup {r}
  BY DEF Decode, Goto, shared
<1>2. "store" \in States /\ "failed" \in States
  BY DEF States
<1>3. ent[r].space = 1
  BY <1>1 DEF IInv, ReadInv
<1>4. over => ~NearTurnStart(ent[r])
  <2>1. ReadInv(r) /\ TypeOK
    BY DEF IInv
  <2>2. off[r] < Last(r)
    BY <1>1, <2>1, EntryCoords, LastOfSlice DEF ReadInv
  <2>3. NeedEnd(off[r], Last(r)) \in Nat /\ TurnStart(off[r]) \in Nat
    BY <1>1, <2>1, <2>2, TurnFacts
  <2> QED BY <1>1, <2>3, DecodeWithinLimit, SizesAssumption
<1> HIDE DEF over
<1>5. CASE over /\ pc' = [pc EXCEPT ![r] = "failed"] /\ faulted' = faulted
  <2>1. Excused(r)'
    BY <1>1, <1>3, <1>4, <1>5 DEF Excused, NearTurnStart
  <2> QED BY <1>1, <1>2, <1>5, <2>1, EntryKeptRefusals
<1>6. CASE pc' = [pc EXCEPT ![r] = "store"] /\ faulted' = faulted
  BY <1>1, <1>2, <1>6, EntryKeptRefusals
<1>7. CASE pc' = [pc EXCEPT ![r] = "failed"] /\ faulted' = faulted \cup {r}
  <2>1. Excused(r)'
    BY <1>7 DEF Excused
  <2> QED BY <1>1, <1>2, <1>7, <2>1, EntryKeptRefusals
<1> QED BY <1>1, <1>5, <1>6, <1>7

LEMMA AppendRefusals ==
  ASSUME IInv, RefusalInv, NEW r \in Readers, AppendPlain(r) PROVE RefusalInv'
<1>1. /\ UNCHANGED <<ent, want, comp, compErr, compDone, faulted>> /\ pc[r] = "append"
  BY DEF AppendPlain, shared
<1>2. "loop" \in States
  BY DEF States
<1>3. pc' = [pc EXCEPT ![r] = "loop"]
  BY <1>1, AppendProgresses DEF AppendPlain, Goto
<1> QED BY <1>1, <1>2, <1>3, EntryKeptRefusals

\* The steps that only go on.
LEMMA QuietRefusals ==
  ASSUME IInv, RefusalInv, NEW r \in Readers, LoadComp(r) \/ StoreTurn(r) \/ Return(r)
  PROVE  RefusalInv'
<1>1. UNCHANGED <<ent, want, comp, compErr, compDone, faulted>>
  BY DEF LoadComp, StoreTurn, Return, shared, locals
<1>2. \E s \in {"publish", "append", "done"} : pc' = [pc EXCEPT ![r] = s]
  BY DEF LoadComp, StoreTurn, Return, Goto
<1>3. {"publish", "append", "done"} \subseteq States
  BY DEF States
<1> QED BY <1>1, <1>2, <1>3, EntryKeptRefusals

LEMMA ReleaseRefusals ==
  ASSUME IInv, RefusalInv, NEW r \in Readers, Release(r) PROVE RefusalInv'
<1>1. /\ pc' = [pc EXCEPT ![r] = "idle"] /\ ent' = [ent EXCEPT ![r] = NoEntry]
      /\ want' = [want EXCEPT ![r] = 0] /\ faulted' = faulted \ {r}
      /\ compErr' = compErr /\ compDone' = compDone
  BY DEF Release, Goto, shared
<1>2. /\ pc'[r] = "idle" /\ ent'[r] = NoEntry /\ want'[r] = 0
      /\ \A q \in Readers \ {r} : pc'[q] = pc[q] /\ ent'[q] = ent[q] /\ want'[q] = want[q]
  BY <1>1 DEF IInv, TypeOK
<1>3. want'[r] <= ent'[r].length
  BY <1>2 DEF NoEntry
<1>4. compErr' => compDone'
  BY <1>1 DEF RefusalInv
<1> QED BY <1>1, <1>2, <1>3, <1>4, OneReaderRefusals

LEMMA InitRefusals == Init => RefusalInv
<1> SUFFICES ASSUME Init PROVE RefusalInv
  OBVIOUS
<1>1. ASSUME NEW r \in Readers PROVE pc[r] # "failed" /\ want[r] <= ent[r].length
  BY DEF Init, NoEntry
<1> QED BY <1>1 DEF RefusalInv, Init

LEMMA NextRefusals == IInv /\ RefusalInv /\ [Next]_vars => RefusalInv'
<1> SUFFICES ASSUME IInv, RefusalInv, [Next]_vars PROVE RefusalInv'
  OBVIOUS
<1>1. ASSUME NEW r \in Readers, ReadEntry(r) PROVE RefusalInv'
  BY <1>1, ReadEntryRefusals
<1>2. ASSUME NEW r \in Readers, ReadEntryHead(r) PROVE RefusalInv'
  BY <1>2, ReadEntryHeadRefusals
<1>3. ASSUME NEW r \in Readers, Working(r) PROVE RefusalInv'
  BY <1>3, ReadStoredRefusals, CheckCompRefusals, PublishCompRefusals, CheckRangeRefusals,
     LookupRefusals, DecodeRefusals, AppendRefusals, QuietRefusals DEF Working
<1>4. ASSUME NEW r \in Readers, Release(r) PROVE RefusalInv'
  BY <1>4, ReleaseRefusals
<1>5. CASE UNCHANGED vars
  BY <1>5 DEF RefusalInv, Excused, Proper, NearTurnStart, StreamLen, vars, shared, locals
<1> QED BY <1>1, <1>2, <1>3, <1>4, <1>5 DEF Next

\* No interleaving makes the read of a well-formed entry fail: only its own
\* blob or LZX data, or the parameters, can (readEntryRange, decodeTurn).
THEOREM RefusalsExplained == Spec => []NoSpuriousFailure
<1>1. RefusalInv => NoSpuriousFailure
  BY DEF RefusalInv, NoSpuriousFailure, Excused
<1> QED BY Invariance, InitRefusals, NextRefusals, <1>1, PTL DEF Spec

-----------------------------------------------------------------------------
(* The steps of the atomic container *)

\* What a caller sees of each place in the code.
LEMMA Phases ==
  /\ Phase("idle") = "idle" /\ Phase("done") = "answered" /\ Phase("failed") = "refused"
  /\ \A s \in States \ {"idle", "done", "failed"} : Phase(s) = "reading"
  /\ \A s : s # "done" => Phase(s) # "answered"
BY Zenon DEF Phase

\* The mapped variables, as ChmReads calls them.
APhase   == [r \in Readers |-> Phase(pc[r])]
ARequest == [r \in Readers |-> Asked(ent[r], want[r])]
AAnswer  == [r \in Readers |-> IF pc[r] = "done" THEN out[r] ELSE <<>>]
AParams  == IF ~compDone THEN "unknown" ELSE IF compErr THEN "bad" ELSE "good"

AVars == <<APhase, ARequest, AAnswer, AParams>>

\* The safety part of ActsAtomically: every execution starts as the atomic
\* container does and takes its steps.
StepsAtomically == Atomic!Init /\ [][Atomic!Next]_(Atomic!avars)

\* A step of r inside a read that changes nothing a caller can see.
LEMMA Stutter ==
  ASSUME IInv, NEW r \in Readers, NEW s \in States \ {"idle", "done", "failed"},
         pc[r] \in States \ {"idle", "done", "failed"}, pc' = [pc EXCEPT ![r] = s],
         UNCHANGED <<ent, want, compDone, compErr>>,
         \A q \in Readers \ {r} : out'[q] = out[q]
  PROVE  UNCHANGED AVars
<1>1. pc \in [Readers -> States] /\ pc'[r] = s /\ Phase(s) = Phase(pc[r])
  BY Phases DEF IInv, TypeOK
<1>2. \A q \in Readers : Phase(pc'[q]) = Phase(pc[q])
  BY <1>1
<1>3. \A q \in Readers : (pc'[q] = "done" <=> pc[q] = "done") /\ (pc[q] = "done" => out'[q] = out[q])
  BY <1>1
<1> QED BY <1>2, <1>3 DEF AVars, APhase, ARequest, AAnswer, AParams

\* A step of r that ends its read with the answer a, or with a refusal.
LEMMA Ends ==
  ASSUME IInv, NEW r \in Readers, NEW s \in {"done", "failed"},
         pc[r] \in States \ {"idle", "done", "failed"}, pc' = [pc EXCEPT ![r] = s],
         UNCHANGED <<ent, want>>,
         \A q \in Readers \ {r} : out'[q] = out[q]
  PROVE  /\ APhase[r] = "reading" /\ APhase' = [APhase EXCEPT ![r] = Phase(s)]
         /\ ARequest' = ARequest /\ ARequest[r] = Asked(ent[r], want[r])
         /\ s = "done" => AAnswer' = [AAnswer EXCEPT ![r] = out'[r]]
         /\ s = "failed" => AAnswer' = AAnswer
<1>1. pc \in [Readers -> States] /\ pc'[r] = s /\ \A q \in Readers \ {r} : pc'[q] = pc[q]
  BY DEF IInv, TypeOK
<1>2. APhase[r] = "reading" /\ APhase' = [APhase EXCEPT ![r] = Phase(s)]
  BY <1>1, Phases DEF APhase
<1>3. ARequest' = ARequest /\ ARequest[r] = Asked(ent[r], want[r])
  BY DEF ARequest
<1>4. s = "done" => AAnswer' = [AAnswer EXCEPT ![r] = out'[r]]
  BY <1>1 DEF AAnswer
<1>5. s = "failed" => AAnswer' = AAnswer
  BY <1>1 DEF AAnswer
<1> QED BY <1>2, <1>3, <1>4, <1>5

\* A refusal of the concurrent container is one of the atomic container.
LEMMA Refuses ==
  ASSUME IInv, NEW r \in Readers,
         pc[r] \in States \ {"idle", "done", "failed"}, pc' = [pc EXCEPT ![r] = "failed"],
         UNCHANGED <<ent, want, compDone, compErr>>,
         \A q \in Readers \ {r} : out'[q] = out[q],
         ent[r].space = 1 => compDone
  PROVE  Atomic!Refuse(r)
<1>1. /\ APhase[r] = "reading" /\ APhase' = [APhase EXCEPT ![r] = "refused"]
      /\ ARequest' = ARequest /\ ARequest[r] = Asked(ent[r], want[r]) /\ AAnswer' = AAnswer
  BY Ends, Phases
<1>2. AParams' = AParams /\ (compDone => AParams # "unknown")
  BY DEF AParams
<1>3. ReadCompressed(ARequest[r]) => AParams # "unknown"
  BY <1>1, <1>2 DEF ReadCompressed, Asked
<1> QED
  BY <1>1, <1>2, <1>3 DEF Atomic!Refuse, APhase, ARequest, AAnswer, AParams

\* So is an answer: it is the content of the file for the request.
LEMMA Answers ==
  ASSUME IInv, NEW r \in Readers,
         pc[r] \in States \ {"idle", "done", "failed"}, pc' = [pc EXCEPT ![r] = "done"],
         UNCHANGED <<ent, want, compDone, compErr>>,
         \A q \in Readers \ {r} : out'[q] = out[q],
         ent[r].space = 1 => compDone /\ ~compErr,
         ent[r].start + want[r] <= StreamLen(ent[r]),
         out'[r] = Slice(Stream(ent[r]), ent[r].start, ent[r].start + want[r])
  PROVE  Atomic!Answer(r)
<1>1. /\ APhase[r] = "reading" /\ APhase' = [APhase EXCEPT ![r] = "answered"]
      /\ ARequest' = ARequest /\ ARequest[r] = Asked(ent[r], want[r])
      /\ AAnswer' = [AAnswer EXCEPT ![r] = out'[r]]
  BY Ends, Phases
<1>2. AParams' = AParams /\ (compDone /\ ~compErr => AParams = "good")
  BY DEF AParams
<1>3. ReadCompressed(ARequest[r]) => AParams = "good"
  BY <1>1, <1>2 DEF ReadCompressed, Asked
<1>4. ReadInStream(ARequest[r]) /\ ReadContent(ARequest[r]) = out'[r]
  BY <1>1 DEF ReadInStream, ReadContent, Asked
<1> QED
  BY <1>1, <1>2, <1>3, <1>4 DEF Atomic!Answer, APhase, ARequest, AAnswer, AParams

\* A call is a request of the atomic container.
LEMMA Asks ==
  ASSUME IInv, NEW r \in Readers, NEW e \in Entries, NEW n \in Nat,
         Asked(e, n) \in ReadRequests, NEW s \in States \ {"idle"},
         Begin(r, e, n, s), s = "done" => n = 0
  PROVE  Atomic!Ask(r)
<1>1. /\ pc[r] = "idle" /\ pc' = [pc EXCEPT ![r] = s] /\ ent' = [ent EXCEPT ![r] = e]
      /\ want' = [want EXCEPT ![r] = n] /\ out' = out
      /\ compErr' = compErr /\ compDone' = compDone
  BY DEF Begin, Goto, shared
<1>2. /\ pc \in [Readers -> States] /\ ent \in [Readers -> Entries \cup {NoEntry}]
      /\ want \in [Readers -> 0..(AddrMod - 1)] /\ out[r] = <<>>
  BY <1>1 DEF IInv, TypeOK, ReadInv
<1>3. /\ pc'[r] = s /\ ent'[r] = e /\ want'[r] = n
      /\ \A q \in Readers \ {r} : pc'[q] = pc[q] /\ ent'[q] = ent[q] /\ want'[q] = want[q]
  BY <1>1, <1>2
<1>4. APhase[r] = "idle" /\ APhase' = [APhase EXCEPT ![r] = Phase(s)]
  BY <1>1, <1>2, <1>3, Phases DEF APhase
<1>5. ARequest' = [ARequest EXCEPT ![r] = Asked(e, n)]
  BY <1>3 DEF ARequest
<1>6. AAnswer' = AAnswer /\ AAnswer[r] = <<>> /\ AParams' = AParams
  BY <1>1, <1>2, <1>3 DEF AAnswer, AParams
<1>7. AAnswer' = [AAnswer EXCEPT ![r] = <<>>]
  BY <1>6 DEF AAnswer
<1>8. CASE s = "done"
  <2>1. ReadContent(Asked(e, n)) = <<>>
    <3>1. e.start \in Nat /\ n = 0
      BY <1>8, DataAssumption
    <3> QED BY <3>1 DEF ReadContent, Asked, Slice
  <2>2. ReadTrivial(Asked(e, n))
    BY <1>8 DEF ReadTrivial, Asked
  <2> QED
    BY <1>4, <1>5, <1>6, <1>7, <1>8, <2>1, <2>2, Phases
    DEF Atomic!Ask, APhase, ARequest, AAnswer, AParams
<1>9. CASE s # "done"
  <2>1. Phase(s) \in {"reading", "refused"}
    BY <1>9, Phases
  <2> QED
    BY <1>4, <1>5, <1>6, <2>1 DEF Atomic!Ask, APhase, ARequest, AAnswer, AParams
<1> QED BY <1>8, <1>9

\* Nothing a caller sees changes, or one reader takes a step that ends its
\* read or settles the parameters.
Simulated(r) == Atomic!Finish(r) \/ UNCHANGED AVars

LEMMA ReadStoredSimulated ==
  ASSUME IInv, NEW r \in Readers, ReadStored(r) PROVE Simulated(r)
<1> DEFINE end == ent[r].start + want[r]
<1>1. /\ pc[r] = "stored" /\ ent[r].space = 0 /\ end <= StoredLen
      /\ UNCHANGED <<ent, want, compDone, compErr>>
      /\ \/ /\ out' = [out EXCEPT ![r] = Slice(Stored, ent[r].start, end)]
            /\ pc' = [pc EXCEPT ![r] = "done"]
         \/ pc' = [pc EXCEPT ![r] = "failed"] /\ UNCHANGED out
  BY DEF ReadStored, Goto, IInv, ReadInv, shared
<1>2. pc[r] \in States \ {"idle", "done", "failed"} /\ out \in [Readers -> Seq(Byte)]
  BY <1>1 DEF IInv, TypeOK
<1>5. ent[r].space # 1
  BY <1>1
<1>3. CASE pc' = [pc EXCEPT ![r] = "failed"] /\ UNCHANGED out
  <2>2. /\ UNCHANGED <<ent, want, compDone, compErr>>
        /\ \A q \in Readers \ {r} : out'[q] = out[q]
    BY <1>1, <1>3
  <2>1. Atomic!Refuse(r)
    BY <1>2, <1>3, <1>5, <2>2, Refuses
  <2> QED BY <2>1 DEF Simulated, Atomic!Finish
<1>4. CASE /\ out' = [out EXCEPT ![r] = Slice(Stored, ent[r].start, end)]
           /\ pc' = [pc EXCEPT ![r] = "done"]
  <2>1. /\ out'[r] = Slice(Stream(ent[r]), ent[r].start, ent[r].start + want[r])
        /\ end <= StreamLen(ent[r]) /\ \A q \in Readers \ {r} : out'[q] = out[q]
    BY <1>1, <1>2, <1>4 DEF Stream, StreamLen
  <2>3. UNCHANGED <<ent, want, compDone, compErr>>
    BY <1>1
  <2>2. Atomic!Answer(r)
    BY <1>2, <1>4, <1>5, <2>1, <2>3, Answers
  <2> QED BY <2>2 DEF Simulated, Atomic!Finish
<1> QED BY <1>1, <1>3, <1>4

LEMMA CheckCompSimulated ==
  ASSUME IInv, NEW r \in Readers, CheckComp(r) PROVE Simulated(r)
<1> DEFINE s == IF ~compDone THEN "load" ELSE IF compErr THEN "failed" ELSE "range"
<1>1. /\ pc[r] = "comp" /\ UNCHANGED <<ent, want, out, compDone, compErr>>
      /\ pc' = [pc EXCEPT ![r] = s]
  BY DEF CheckComp, Goto, shared, locals
<1>2. s \in {"load", "failed", "range"} /\ (s = "failed" => compDone)
  OBVIOUS
<1> HIDE DEF s
<1>3. pc[r] \in States \ {"idle", "done", "failed"}
  BY <1>1 DEF IInv, TypeOK
<1>4. CASE s = "failed"
  <2>1. Atomic!Refuse(r)
    BY <1>1, <1>2, <1>3, <1>4, Refuses
  <2> QED BY <2>1 DEF Simulated, Atomic!Finish
<1>5. CASE s # "failed"
  <2>1. s \in States \ {"idle", "done", "failed"}
    BY <1>2, <1>5 DEF States
  <2>2. UNCHANGED AVars
    BY <1>1, <1>3, <2>1, Stutter
  <2> QED BY <2>2 DEF Simulated
<1> QED BY <1>4, <1>5

\* The first loader settles the parameters; the others find them settled.
LEMMA PublishCompSimulated ==
  ASSUME IInv, NEW r \in Readers, PublishComp(r) PROVE Simulated(r)
<1> DEFINE s == IF compErr' THEN "failed" ELSE "range"
<1>1. /\ pc[r] = "publish" /\ ent[r].space = 1 /\ UNCHANGED <<ent, want, out>>
      /\ pc' = [pc EXCEPT ![r] = s]
      /\ compDone => UNCHANGED <<compErr, compDone>>
      /\ ~compDone => compDone'
  BY DEF PublishComp, Goto, locals, IInv, ReadInv
<1>2. s \in {"failed", "range"} /\ (s = "failed" <=> compErr')
  OBVIOUS
<1> HIDE DEF s
<1>3. /\ pc[r] \in States \ {"idle", "done", "failed"}
      /\ "range" \in States \ {"idle", "done", "failed"}
  BY <1>1 DEF IInv, TypeOK, States
<1>4. CASE compDone
  <2>1. UNCHANGED <<compErr, compDone>>
    BY <1>1, <1>4
  <2>2. CASE s = "failed"
    <3>1. Atomic!Refuse(r)
      BY <1>1, <1>3, <1>4, <2>1, <2>2, Refuses
    <3> QED BY <3>1 DEF Simulated, Atomic!Finish
  <2>3. CASE s = "range"
    <3>1. UNCHANGED AVars
      BY <1>1, <1>3, <2>1, <2>3, Stutter
    <3> QED BY <3>1 DEF Simulated
  <2> QED BY <1>2, <2>2, <2>3
<1>5. CASE ~compDone
  <2>1. AParams = "unknown" /\ AParams' = IF compErr' THEN "bad" ELSE "good"
    BY <1>1, <1>5 DEF AParams
  <2>2. ARequest' = ARequest /\ ARequest[r] = Asked(ent[r], want[r])
    BY <1>1 DEF ARequest
  <2>3. ReadCompressed(ARequest[r])
    BY <1>1, <2>2 DEF ReadCompressed, Asked
  <2>4. pc \in [Readers -> States] /\ pc'[r] = s /\ \A q \in Readers \ {r} : pc'[q] = pc[q]
    BY <1>1 DEF IInv, TypeOK
  <2>5. APhase[r] = "reading" /\ APhase' = [APhase EXCEPT ![r] = Phase(s)]
    BY <1>3, <2>4, Phases DEF APhase
  <2>6. AAnswer' = AAnswer
    BY <1>1, <1>2, <2>4 DEF AAnswer
  <2>7. /\ s = "failed" => Phase(s) = "refused"
        /\ s = "range" => APhase' = APhase
    BY <1>3, <2>5, Phases DEF APhase
  <2>8. Atomic!Settle(r)
    BY <1>2, <2>1, <2>2, <2>3, <2>5, <2>6, <2>7
    DEF Atomic!Settle, APhase, ARequest, AAnswer, AParams
  <2> QED BY <2>8 DEF Simulated, Atomic!Finish
<1> QED BY <1>4, <1>5

\* Inside readEntryRange a step goes on, or refuses with the parameters there.
LEMMA RangeSimulated ==
  ASSUME IInv, NEW r \in Readers, CheckRange(r) \/ Lookup(r) \/ Decode(r) \/ AppendPlain(r)
  PROVE  Simulated(r)
<1>1. /\ pc[r] \in {"range", "loop", "decode", "append"}
      /\ UNCHANGED <<ent, want, compDone, compErr>>
      /\ \E s \in {"failed", "loop", "append", "decode", "store"} : pc' = [pc EXCEPT ![r] = s]
  BY DEF CheckRange, Lookup, Decode, AppendPlain, Goto, shared
<1>2. \A q \in Readers \ {r} : out'[q] = out[q]
  BY DEF CheckRange, Lookup, Decode, AppendPlain, IInv, TypeOK
<1>3. pc[r] \in States \ {"idle", "done", "failed"} /\ compDone
  BY <1>1 DEF IInv, TypeOK, NoNilComp
<1>4. CASE pc' = [pc EXCEPT ![r] = "failed"]
  <2>1. Atomic!Refuse(r)
    BY <1>1, <1>2, <1>3, <1>4, Refuses
  <2> QED BY <2>1 DEF Simulated, Atomic!Finish
<1>5. ASSUME NEW s \in {"loop", "append", "decode", "store"}, pc' = [pc EXCEPT ![r] = s]
      PROVE  Simulated(r)
  <2>1. s \in States \ {"idle", "done", "failed"}
    BY DEF States
  <2>2. UNCHANGED AVars
    BY <1>1, <1>2, <1>3, <1>5, <2>1, Stutter
  <2> QED BY <2>2 DEF Simulated
<1> QED BY <1>1, <1>4, <1>5

\* Loading the parameters and storing a turn are nothing a caller sees.
LEMMA QuietSimulated ==
  ASSUME IInv, NEW r \in Readers, LoadComp(r) \/ StoreTurn(r)
  PROVE  Simulated(r)
<1>1. /\ pc[r] \in {"load", "store"}
      /\ UNCHANGED <<ent, want, out, compDone, compErr>>
      /\ \E s \in {"publish", "append"} : pc' = [pc EXCEPT ![r] = s]
  BY DEF LoadComp, StoreTurn, Goto, shared
<1>2. pc[r] \in States \ {"idle", "done", "failed"}
  BY <1>1 DEF IInv, TypeOK
<1>3. {"publish", "append"} \subseteq States \ {"idle", "done", "failed"}
  BY DEF States
<1>4. UNCHANGED AVars
  BY <1>1, <1>2, <1>3, Stutter
<1> QED BY <1>4 DEF Simulated

\* The loop ends with the whole slice: the answer of the atomic container.
LEMMA ReturnSimulated ==
  ASSUME IInv, NEW r \in Readers, Return(r) PROVE Simulated(r)
<1>1. /\ pc[r] = "loop" /\ off[r] >= Last(r) /\ pc' = [pc EXCEPT ![r] = "done"]
      /\ UNCHANGED <<ent, want, out, off, compDone, compErr>>
  BY DEF Return, Goto, shared, locals
<1>2. TypeOK /\ ReadInv(r) /\ compDone /\ ~compErr /\ ent[r].space = 1
  BY <1>1 DEF IInv, NoNilComp, ReadInv
<1>3. pc[r] \in States \ {"idle", "done", "failed"}
  BY <1>1, <1>2 DEF TypeOK
<1>4. /\ ent[r].start \in Nat /\ want[r] \in Nat /\ off[r] \in Nat /\ Last(r) \in Nat
      /\ UncompLen \in Nat /\ UncompLen < AddrMod /\ AddrMod \in Nat
      /\ ent[r].start + want[r] < AddrMod => Last(r) = ent[r].start + want[r]
  BY <1>2, EntryCoords, LastOfSlice
<1>5. /\ ent[r].start + want[r] <= UncompLen /\ off[r] <= ent[r].start + want[r]
      /\ out[r] = Slice(Plain, ent[r].start, off[r])
  BY <1>1, <1>2 DEF ReadInv
<1>6. off[r] = ent[r].start + want[r]
  BY <1>1, <1>4, <1>5
<1>7. /\ out'[r] = Slice(Stream(ent[r]), ent[r].start, ent[r].start + want[r])
      /\ ent[r].start + want[r] <= StreamLen(ent[r])
  BY <1>1, <1>2, <1>5, <1>6 DEF Stream, StreamLen
<1>8. Atomic!Answer(r)
  BY <1>1, <1>2, <1>3, <1>7, Answers
<1> QED BY <1>8 DEF Simulated, Atomic!Finish

LEMMA ReadEntryAsks ==
  ASSUME IInv, NEW r \in Readers, ReadEntry(r) PROVE Atomic!Ask(r)
<1> DEFINE S(e) == IF e.length > MaxSize THEN "failed"
          ELSE IF e.space = 0 THEN (IF e.start + e.length > StoredLen THEN "failed" ELSE "stored")
          ELSE IF e.space = 1 THEN "comp"
          ELSE "failed"
<1>1. PICK e \in Entries : Begin(r, e, e.length, S(e))
  BY DEF ReadEntry
<1>2. S(e) \in States \ {"idle"} /\ S(e) # "done" /\ e.length \in Nat
  BY DataAssumption DEF States
<1>3. Asked(e, e.length) \in ReadRequests
  BY DEF ReadRequests
<1> HIDE DEF S
<1> QED BY <1>1, <1>2, <1>3, Asks

LEMMA ReadEntryHeadAsks ==
  ASSUME IInv, NEW r \in Readers, ReadEntryHead(r) PROVE Atomic!Ask(r)
<1> DEFINE N(e) == Smaller(SniffLimit, e.length)
           S(e) == IF e.length = 0 THEN "done"
          ELSE IF e.space = 0
            THEN (IF e.start + N(e) > StoredLen \/ N(e) > MaxSize THEN "failed" ELSE "stored")
          ELSE IF e.space = 1 THEN "comp"
          ELSE "failed"
<1>1. PICK e \in Entries : Begin(r, e, N(e), S(e))
  BY DEF ReadEntryHead
<1>2. e.length \in Nat /\ SniffLimit \in Nat \ {0}
  BY DataAssumption, SizesAssumption
<1>3. N(e) \in Nat /\ (e.length = 0 => N(e) = 0)
  BY <1>2 DEF Smaller
<1>4. Asked(e, N(e)) \in ReadRequests
  BY DEF ReadRequests
<1> HIDE DEF N
<1>5. S(e) \in States \ {"idle"} /\ (S(e) = "done" => N(e) = 0)
  BY <1>3 DEF States
<1> HIDE DEF S
<1> QED BY <1>1, <1>3, <1>4, <1>5, Asks

LEMMA ReleaseForgets ==
  ASSUME IInv, NEW r \in Readers, Release(r) PROVE Atomic!Forget(r)
<1>1. /\ pc[r] \in {"done", "failed"}
      /\ pc' = [pc EXCEPT ![r] = "idle"] /\ ent' = [ent EXCEPT ![r] = NoEntry]
      /\ want' = [want EXCEPT ![r] = 0] /\ out' = [out EXCEPT ![r] = <<>>]
      /\ compErr' = compErr /\ compDone' = compDone
  BY DEF Release, Goto, shared
<1>2. /\ pc'[r] = "idle" /\ ent'[r] = NoEntry /\ want'[r] = 0
      /\ \A q \in Readers \ {r} : /\ pc'[q] = pc[q] /\ ent'[q] = ent[q]
                                 /\ want'[q] = want[q] /\ out'[q] = out[q]
  BY <1>1 DEF IInv, TypeOK
<1>3. APhase[r] \in {"answered", "refused"}
  BY <1>1, Phases DEF APhase
<1>5. APhase' = [APhase EXCEPT ![r] = "idle"]
  BY <1>2, Phases DEF APhase
<1>4. ARequest' = [ARequest EXCEPT ![r] = Asked(NoEntry, 0)]
  BY <1>2 DEF ARequest
<1>6. AAnswer' = [AAnswer EXCEPT ![r] = <<>>]
  <2>1. \A q \in Readers \ {r} : (pc'[q] = "done" <=> pc[q] = "done") /\ out'[q] = out[q]
    BY <1>2
  <2>2. pc'[r] # "done"
    BY <1>2
  <2> QED BY <2>1, <2>2 DEF AAnswer
<1>7. AParams' = AParams
  BY <1>1 DEF AParams
<1> QED
  BY <1>3, <1>4, <1>5, <1>6, <1>7 DEF Atomic!Forget, APhase, ARequest, AAnswer, AParams

\* A new container is a new atomic container.
LEMMA InitAtomic == Init => Atomic!Init
<1> SUFFICES ASSUME Init PROVE Atomic!Init
  OBVIOUS
<1>1. APhase = [r \in Readers |-> "idle"]
  BY Phases DEF Init, APhase
<1>2. /\ ARequest = [r \in Readers |-> Asked(NoEntry, 0)]
      /\ AAnswer = [r \in Readers |-> <<>>] /\ AParams = "unknown"
  BY DEF Init, ARequest, AAnswer, AParams
<1> QED
  BY <1>1, <1>2 DEF Atomic!Init, APhase, ARequest, AAnswer, AParams

\* Every step of the concurrent container is one of the atomic container.
LEMMA NextAtomic == IInv /\ [Next]_vars => [Atomic!Next]_(Atomic!avars)
<1> SUFFICES ASSUME IInv, [Next]_vars PROVE [Atomic!Next]_(Atomic!avars)
  OBVIOUS
<1>1. ASSUME NEW r \in Readers, ReadEntry(r) PROVE Atomic!Next
  BY <1>1, ReadEntryAsks DEF Atomic!Next
<1>2. ASSUME NEW r \in Readers, ReadEntryHead(r) PROVE Atomic!Next
  BY <1>2, ReadEntryHeadAsks DEF Atomic!Next
<1>3. ASSUME NEW r \in Readers, Working(r) PROVE Atomic!Next \/ UNCHANGED AVars
  <2>1. Simulated(r)
    BY <1>3, ReadStoredSimulated, CheckCompSimulated, PublishCompSimulated, RangeSimulated,
       QuietSimulated, ReturnSimulated DEF Working
  <2> QED BY <2>1 DEF Simulated, Atomic!Next
<1>4. ASSUME NEW r \in Readers, Release(r) PROVE Atomic!Next
  BY <1>4, ReleaseForgets DEF Atomic!Next
<1>5. ASSUME UNCHANGED vars PROVE UNCHANGED AVars
  <2>1. UNCHANGED <<pc, ent, want, out, compDone, compErr>>
    BY <1>5 DEF vars, shared, locals
  <2>2. APhase' = APhase /\ ARequest' = ARequest /\ AAnswer' = AAnswer /\ AParams' = AParams
    BY <2>1 DEF APhase, ARequest, AAnswer, AParams
  <2> QED BY <2>2 DEF AVars
<1>6. Atomic!Next \/ UNCHANGED AVars
  <2>1. ASSUME NEW r \in Readers, ReadEntry(r) \/ ReadEntryHead(r) \/ Working(r) \/ Release(r)
        PROVE Atomic!Next \/ UNCHANGED AVars
    BY <2>1, <1>1, <1>2, <1>3, <1>4
  <2> QED BY <2>1, <1>5 DEF Next
<1>7. UNCHANGED AVars => UNCHANGED Atomic!avars
  BY DEF Atomic!avars, AVars, APhase, ARequest, AAnswer, AParams
<1> QED BY <1>6, <1>7

\* The concurrent, caching container takes only the steps of one that
\* answers every read from the immutable file at once (internal/chm).
THEOREM ReadsAreAtomic == Spec => StepsAtomically
BY Invariance, InitAtomic, NextAtomic, PTL DEF Spec, StepsAtomically
=============================================================================
