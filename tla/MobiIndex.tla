----------------------------- MODULE MobiIndex -----------------------------
(***************************************************************************)
(* The indexes of a KF8 book (mobi/index.go, varint.go, cncx.go, fdst.go): *)
(* INDX records with a table of tags in the first and entries in those     *)
(* that follow, the strings entries point at, the table of flows.          *)
(*                                                                         *)
(* A section is a record as the KF8 part counts them.  file.indx has the   *)
(* fields of the INDX records, entries being bytes.                        *)
(***************************************************************************)
EXTENDS MobiHeader

\* readMobi8Indices reads all its sections beforehand.
IsIndx(i) == i \in DOMAIN file.indx

\* decInt: seven bits a byte, up to the byte with the top bit, at most eight.
SevenBits(bytes) == [value |-> FoldLeft(LAMBDA v, b : v * 128 + (b % 128), 0, bytes), consumed |-> Len(bytes)]
DecInt(raw) == SevenBits(SubSeq(raw, 1, Min({k \in 1..Len(raw) : raw[k] >= 128} \cup {8, Len(raw)})))

Rest(raw, n) == SubSeq(raw, n + 1, Len(raw))

-----------------------------------------------------------------------------
(* getTagMap.  An entry's control bytes say which tags it has; a tag of several
   bits has that many values, or, all bits set, values in so many bytes. *)
RECURSIVE LowBit(_)
LowBit(mask) == IF mask % 2 = 1 THEN 1 ELSE 2 * LowBit(mask \div 2)
\* The bits of both.
BitAnd(a, b) == MapThenSumSet(LAMBDA k : IF (a \div 2 ^ k) % 2 = 1 /\ (b \div 2 ^ k) % 2 = 1 THEN 2 ^ k ELSE 0, 0..7)

\* One tag of the table against the control byte it belongs to.
Present(acc, tag, count, bytes) ==
  [acc EXCEPT !.present = Append(@, [tag |-> tag.tag, count |-> count * tag.values, bytes |-> bytes])]
PresentBytes(acc, tag, bytes) ==
  Present([acc EXCEPT !.rest = Rest(@, bytes.consumed)], tag, 0, bytes.value)
TagValue(acc, tag, value) ==
  IF value = 0 THEN acc
  ELSE IF value # tag.mask THEN Present(acc, tag, value \div LowBit(tag.mask), 0)
  ELSE IF CountSetBits(tag.mask) = 1 THEN Present(acc, tag, 1, 0)
  ELSE PresentBytes(acc, tag, DecInt(acc.rest))
ReadTag(acc, tag) ==
  IF tag.eof THEN [acc EXCEPT !.control = Rest(@, 1)]
  ELSE IF acc.control = <<>> THEN acc
  ELSE TagValue(acc, tag, BitAnd(acc.control[1], tag.mask))

RECURSIVE Values(_, _, _, _)
\* count values, and after them as many as take up some bytes more.  The code
\* has no end here when the entry ends before these bytes have been seen.
NextValue(rest, count, bytes, values, v) ==
  IF count > 0 THEN Values(Rest(rest, v.consumed), count - 1, bytes, Append(values, v.value))
  ELSE IF v.consumed = 0 THEN [values |-> values, rest |-> rest, ends |-> FALSE]
  ELSE Values(Rest(rest, v.consumed), 0, bytes - v.consumed, Append(values, v.value))
Values(rest, count, bytes, values) ==
  IF count <= 0 /\ bytes <= 0 THEN [values |-> values, rest |-> rest, ends |-> TRUE]
  ELSE NextValue(rest, count, bytes, values, DecInt(rest))

NoTags == [ends |-> TRUE, tags |-> <<>>]

Tagged(acc, tag, v) == [ends |-> v.ends, rest |-> v.rest, tags |-> (tag :> v.values) @@ acc.tags]
AddTag(acc, p) == IF acc.ends THEN Tagged(acc, p.tag, Values(acc.rest, p.count, p.bytes, <<>>)) ELSE acc
TagsOf(read) == FoldLeft(AddTag, [ends |-> TRUE, rest |-> read.rest, tags |-> <<>>], read.present)

TagMap(tagx, data) ==
  IF tagx.controlBytes > Len(data) THEN NoTags
  ELSE TagsOf(FoldLeft(ReadTag, [control |-> SubSeq(data, 1, tagx.controlBytes), rest |-> Rest(data, tagx.controlBytes),
                                 present |-> <<>>], tagx.tags))

-----------------------------------------------------------------------------
\* decodeIdent: a length byte and the name, whose bytes stand for others where
\* the index has an ORDT map; without one NULs are left out.
Decoded(raw, ordt) ==
  IF ordt = <<>> THEN SelectSeq(raw, LAMBDA c : c # 0)
  ELSE [i \in DOMAIN raw |-> IF raw[i] < Len(ordt) THEN ordt[raw[i] + 1] ELSE 63]
Ident(rec, ordt) == Decoded(SubSeq(rec, 2, rec[1] + 1), ordt)

\* The entry between two positions of a record, if it holds one.
BytesBetween(data, start, end) ==
  IF end > Len(data) \/ start >= end THEN <<>>
  ELSE IF data[start + 1] + 1 > end - start THEN <<>> ELSE SubSeq(data, start + 1, end)
EntryBytes(indx, j) ==
  BytesBetween(indx.data, indx.positions[j], IF j < Len(indx.positions) THEN indx.positions[j + 1] ELSE indx.idxt)

\* One entry into the table: a name seen before keeps its place.
Enter(table, name, tags) ==
  IF \E i \in DOMAIN table : table[i].name = name
  THEN [i \in DOMAIN table |-> IF table[i].name = name THEN [name |-> name, tags |-> tags] ELSE table[i]]
  ELSE Append(table, [name |-> name, tags |-> tags])
EnterTags(acc, name, map) ==
  IF map.ends THEN [acc EXCEPT !.table = Enter(@, name, map.tags)] ELSE [acc EXCEPT !.err = "endless"]
AddEntry(tagx, ordt, acc, rec) ==
  IF rec = <<>> THEN acc ELSE EnterTags(acc, Ident(rec, ordt), TagMap(tagx, Rest(rec, rec[1] + 1)))

\* parseIndexRecord, for the section i of the part that starts at base.
AddEntries(tagx, ordt, acc, indx) ==
  FoldLeft(LAMBDA a, j : IF a.err # "" THEN a ELSE AddEntry(tagx, ordt, a, EntryBytes(indx, j)),
           acc, [j \in DOMAIN indx.positions |-> j])
AddIndexRecord(base, tagx, ordt, acc, i) ==
  IF acc.err # "" THEN acc
  ELSE IF ~IsIndx(base + i) THEN [acc EXCEPT !.err = "parse"]
  ELSE AddEntries(tagx, ordt, acc, file.indx[base + i])

RECURSIVE CncxFrom(_, _, _, _)
\* The strings of one record by position, each behind its length; a length of
\* nothing is skipped, one that leaves the record ends it.
CncxString(raw, pos, start, length, offset, strings) ==
  IF start + length > Len(raw) THEN strings
  ELSE CncxFrom(raw, start + length, offset,
         IF length = 0 THEN strings ELSE strings @@ ((pos + offset) :> SubSeq(raw, start + 1, start + length)))
CncxAt(raw, pos, length, offset, strings) ==
  CncxString(raw, pos, pos + length.consumed, length.value, offset, strings)
CncxFrom(raw, pos, offset, strings) ==
  IF pos >= Len(raw) THEN strings ELSE CncxAt(raw, pos, DecInt(Rest(raw, pos)), offset, strings)

\* Seeded bug: positions start anew in each record.
CncxRecordFlat == 0

\* Each record counts as many positions as a number of 16 bits has.
CncxRecord == Half
ParseCNCX(records) ==
  FoldLeft(LAMBDA strings, r : CncxFrom(records[r], 0, (r - 1) * CncxRecord, strings), <<>>, [r \in DOMAIN records |-> r])

\* ReadIndex: the entries of the index at a section, in order, and its strings.
SectionRange(base, first, count) ==
  [k \in 1..Max({Min({first + count, NumRecords - base}) - first, 0}) |-> first + k - 1]
IndexStrings(base, sections) == ParseCNCX([k \in DOMAIN sections |-> Data(base + sections[k]).data])
IndexFrom(base, idx, head) ==
  IF ~head.tagx.ok THEN [err |-> "parse", table |-> <<>>, cncx |-> <<>>]
  ELSE FoldLeft(LAMBDA acc, i : AddIndexRecord(base, head.tagx, head.ordt, acc, i),
                [err |-> "", table |-> <<>>,
                 cncx |-> IndexStrings(base, SectionRange(base, idx + head.count + 1, head.ncncx))],
                SectionRange(base, idx + 1, head.count))
ReadIndex(base, idx) ==
  IF IsIndx(base + idx) THEN IndexFrom(base, idx, file.indx[base + idx])
  ELSE [err |-> "parse", table |-> <<>>, cncx |-> <<>>]

\* parseFDST, where the section holds one: the bounds of the flows.
FlowsIn(fdst, length) == IF fdst.start + 8 * fdst.count > length THEN Fail("parse") ELSE Ok(fdst.flows)
Flows(base, idx) ==
  IF idx = NullIndex \/ base + idx >= NumRecords \/ base + idx \notin DOMAIN file.fdst THEN Ok(<<>>)
  ELSE FlowsIn(file.fdst[base + idx], Length(base + idx))
=============================================================================
