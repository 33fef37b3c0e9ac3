------------------------------ MODULE PalmText ------------------------------
(***************************************************************************)
(* The text records of MOBI and PalmDOC books (mobi/text.go, palmdoc.go,   *)
(* huffcdic.go, compress/palmdoc.go), byte by byte.  A budget below zero   *)
(* is none.                                                                *)
(***************************************************************************)
EXTENDS PalmDb

CONSTANTS
  CodeWidth,     \* bits of a HUFF code, 32 in the code
  TopWidth,      \* bits looked up first, 8 in the code
  MaxHuffDepth,
  PalmDocPrefixCap, MetadataEnd, HtmlTag  \* bytes: the sniff cap, </metadata>, an opening html tag

Exceeds(n, remain) == remain >= 0 /\ n > remain
RemainingBudget(maxSize, have) == IF maxSize <= 0 THEN -1 ELSE Max({maxSize - have, 0})

\* Seeded bug: a copy that overlaps what it writes repeats its first byte.
CopyBackFlat(out, m, n) == [k \in 1..n |-> IF m = 0 THEN 0 ELSE out[Len(out) - m + 1]]

\* n bytes from m bytes back, which may be bytes the copy itself writes.
CopyBack(out, m, n) == [k \in 1..n |-> IF m = 0 THEN 0 ELSE out[Len(out) - m + 1 + ((k - 1) % m)]]

\* What the token at p adds to out: a run of literals, a literal, a space and a
\* letter, or a copy; one that is cut off or goes too far back is ignored.
Token(in, p, out) ==
  LET c == in[p]
      code == c * 256 + in[p + 1]
      m == (code \div 8) % 2048
      Adds(bytes, size) == [adds |-> bytes, size |-> size]
  IN CASE c \in 1..8   -> Adds(SubSeq(in, p + 1, Min({p + c, Len(in)})), c + 1)
       [] c = 0 \/ c \in 9..127 -> Adds(<<c>>, 1)
       [] c >= 192     -> Adds(<<32, c - 128>>, 1)
       [] OTHER -> IF p = Len(in) THEN Adds(<<>>, 1) ELSE IF m > Len(out) THEN Adds(<<>>, 2)
                   ELSE Adds(CopyBack(out, m, (code % 8) + 3), 2)

RECURSIVE DecompressFrom(_, _, _, _)
Decompress(in, p, out, t, remain) ==
  IF Exceeds(Len(out) + Len(t.adds), remain) THEN Fail("limit")
  ELSE DecompressFrom(in, p + t.size, out \o t.adds, remain)
DecompressFrom(in, p, out, remain) ==
  IF p > Len(in) THEN Ok(out) ELSE Decompress(in, p, out, Token(in, p, out), remain)

DecompressPalmDoc(in, remain) == DecompressFrom(in, 1, <<>>, remain)

-----------------------------------------------------------------------------
(* HUFF/CDIC: codes of varying length, each a phrase of a dictionary; a
   phrase may itself be compressed and is unpacked in place when first used. *)
RECURSIVE CountSetBits(_)
CountSetBits(n) == IF n = 0 THEN 0 ELSE (n % 2) + CountSetBits(n \div 2)

Bit(data, k) ==
  IF k > 8 * Len(data) THEN 0 ELSE (data[((k - 1) \div 8) + 1] \div 2 ^ (7 - ((k - 1) % 8))) % 2

\* The code at bit b, the bytes continued with zeros.
Window(data, b) == MapThenSumSet(LAMBDA k : Bit(data, b + k) * 2 ^ (CodeWidth - k), 1..CodeWidth)

\* LoadHuff: lengths and bounds, the bounds moved to the left end of a code.
Shifted(v, length) == v * 2 ^ (CodeWidth - length)
Bound(v, length) == Shifted(v + 1, length) - 1
LoadHuff(huff) ==
  [top |-> [t \in 0..2 ^ TopWidth - 1 |-> [huff.top[t] EXCEPT !.maxcode = Bound(@, huff.top[t].length)]],
   mincode |-> [l \in 0..CodeWidth |-> IF l = 0 THEN 0 ELSE Shifted(huff.mincode[l], l)],
   maxcode |-> [l \in 0..CodeWidth |-> IF l = 0 THEN 2 ^ CodeWidth - 1 ELSE Bound(huff.maxcode[l], l)]]

\* LoadCdic: the record's share of the phrases is appended.
AddPhrases(dictionary, entries, n) ==
  IF n < 0 \/ n > Len(entries) THEN Fail("cdic") ELSE Ok(dictionary \o SubSeq(entries, 1, n))
LoadCdic(dictionary, cdic) == AddPhrases(dictionary, cdic.entries, Min({2 ^ cdic.bits, cdic.phrases - Len(dictionary)}))

Empty == [slice |-> <<>>, flag |-> FALSE]
Unpacked(e, data, dictionary) == [err |-> e, data |-> data, dictionary |-> dictionary]

RECURSIVE UnpackFrom(_, _, _, _, _, _, _)
\* Phrase r, unpacked if it has to be; meanwhile its place is empty.
Keep(u, r) ==
  IF u.err # "" THEN u ELSE [u EXCEPT !.dictionary[r] = [slice |-> u.data, flag |-> TRUE]]
Phrase(h, dictionary, r, remain, depth) ==
  IF dictionary[r].flag THEN Unpacked("", dictionary[r].slice, dictionary)
  ELSE Keep(UnpackFrom(h, [dictionary EXCEPT ![r] = Empty], dictionary[r].slice, 0, <<>>, remain, depth + 1), r)

\* A code, its length, and the highest of that length; too long when it is none.
CodeAt(h, e, code, length) ==
  [length |-> length, code |-> code,
   highest |-> IF e.term THEN e.maxcode ELSE IF length > CodeWidth THEN 0 ELSE h.maxcode[length]]
Lengths(h, e, code) == {l \in e.length..CodeWidth : e.term \/ code >= h.mincode[l]}
Shortest(h, e, code) == CodeAt(h, e, code, Min(Lengths(h, e, code) \cup {CodeWidth + 1}))
HuffCode(h, code) == Shortest(h, h.top[code \div 2 ^ (CodeWidth - TopWidth)], code)
PhraseNumber(c) == ((c.highest - c.code) \div 2 ^ (CodeWidth - c.length)) + 1

Add(h, p, data, b, out, remain, depth) ==
  IF p.err # "" THEN p
  ELSE IF Exceeds(Len(out) + Len(p.data), remain) THEN Unpacked("limit", <<>>, p.dictionary)
  ELSE UnpackFrom(h, p.dictionary, data, b, out \o p.data, remain, depth)

UnpackCode(h, c, dictionary, data, b, out, remain, depth) ==
  IF c.length > CodeWidth THEN Unpacked("code", <<>>, dictionary)
  ELSE IF b + c.length > 8 * Len(data) THEN Unpacked("", out, dictionary)
  ELSE IF c.length = 0 \/ c.highest < c.code \/ PhraseNumber(c) > Len(dictionary) THEN Unpacked("code", <<>>, dictionary)
  ELSE Add(h, Phrase(h, dictionary, PhraseNumber(c), RemainingBudget(remain, Len(out)), depth),
           data, b + c.length, out, remain, depth)

\* From bit b on.  (The code pads its copy of the data so far that the error
\* "bitstream exhausted" cannot come before the bits have run out.)
UnpackFrom(h, dictionary, data, b, out, remain, depth) ==
  IF depth > MaxHuffDepth THEN Unpacked("depth", <<>>, dictionary)
  ELSE UnpackCode(h, HuffCode(h, Window(data, b)), dictionary, data, b, out, remain, depth)

\* newHuffReader: the tables of m, in the records its header names.
HuffReader(m) ==
  LET last == m.huffOffset + m.huffCount - 1
      add(acc, i) == IF acc.err # "" THEN acc
                     ELSE IF Data(i).err # "" THEN Fail("read")
                     ELSE IF i \notin DOMAIN file.cdic THEN Fail("cdic") ELSE LoadCdic(acc.data, file.cdic[i])
  IN IF m.huffCount <= 0 \/ last >= NumRecords THEN Fail("huff")
     ELSE IF Data(m.huffOffset).err # "" THEN Fail("read")
     ELSE IF m.huffOffset \notin DOMAIN file.huff THEN Fail("huff")
     ELSE FoldLeft(add, Ok(<<>>), [k \in 1..m.huffCount - 1 |-> m.huffOffset + k])

-----------------------------------------------------------------------------
(* Text records. *)

\* A number written backwards before the end: seven bits a byte, up to the byte
\* with the top bit, at most four.
NumberBytes(data, size) == Min({k \in 1..4 : k <= size /\ data[size - k + 1] >= 128} \cup {4, size})
SizeofTrailingEntry(data, size) ==
  MapThenSumSet(LAMBDA k : (data[size - k + 1] % 128) * 128 ^ (k - 1), 1..NumberBytes(data, size))

\* The lowest flag stands for the bytes of a character begun here and repeated
\* in the next record.
WithOverlap(data, num, flags) ==
  Min({Len(data), num + IF flags % 2 = 1 /\ num < Len(data) THEN (data[Len(data) - num] % 4) + 1 ELSE 0})

\* Seeded bug: every trailing entry is measured from the end of the record.
TrailingEntriesFromEnd(data, flags) ==
  WithOverlap(data, FoldLeft(LAMBDA num, i : num + SizeofTrailingEntry(data, Len(data)),
                             0, [i \in 1..CountSetBits(flags \div 2) |-> i]), flags)

\* One entry for each other flag, from the back.
TrailingEntries(data, flags) ==
  WithOverlap(data, FoldLeft(LAMBDA num, i : num + SizeofTrailingEntry(data, Len(data) - num),
                             0, [i \in 1..CountSetBits(flags \div 2) |-> i]), flags)

CompressionHUFF == 17480
PalmDocCompressed == {2, 258}

\* One section onto what has been read; the dictionary goes along.
DecompressSection(m, tables, dictionary, section, remain) ==
  IF m.compression = CompressionHUFF THEN UnpackFrom(tables, dictionary, section, 0, <<>>, remain, 0)
  ELSE [dictionary |-> dictionary] @@
       IF m.compression \in PalmDocCompressed THEN DecompressPalmDoc(section, remain) ELSE Ok(section)
AddText(acc, dec, remain) ==
  IF dec.err # "" THEN [acc EXCEPT !.err = dec.err]
  ELSE IF Exceeds(Len(dec.data), remain) THEN [acc EXCEPT !.err = "limit"]
  ELSE Unpacked("", acc.data \o dec.data, dec.dictionary)
AddWithin(m, tables, acc, section, remain) ==
  AddText(acc, DecompressSection(m, tables, acc.dictionary, section, remain), remain)
AddSection(m, tables, maxSize, acc, section) ==
  AddWithin(m, tables, acc, section, RemainingBudget(maxSize, Len(acc.data)))

Controls(encoding) == IF encoding = "cp1252" THEN {0, 30, 2} ELSE {0}
FinishText(all, m) ==
  IF all.err # "" THEN Fail(all.err)
  ELSE Ok(SelectSeq(IF all.data # <<>> /\ Last(all.data) = 35 THEN Front(all.data) ELSE all.data,
                    LAMBDA c : c \notin Controls(m.encoding)))

\* extractTextWithOffset: MOBI6 text begins in record 1, KF8 text after its header.
AddRecord(m, tables, maxSize, acc, d) ==
  IF d.err # "" THEN [acc EXCEPT !.err = d.err]
  ELSE AddSection(m, tables, maxSize, acc, SubSeq(d.data, 1, Len(d.data) - TrailingEntries(d.data, m.extraFlags)))
TextFrom(m, huff, tables, first, maxSize) ==
  IF huff.err # "" THEN Fail(huff.err)
  ELSE FinishText(FoldLeft(LAMBDA acc, i : IF acc.err # "" THEN acc ELSE AddRecord(m, tables, maxSize, acc, Data(i)),
                           Unpacked("", <<>>, huff.data),
                           [k \in 1..Min({m.textRecordCount, NumRecords - first}) |-> first + k - 1]), m)
ExtractText(m, offset, maxSize) ==
  IF m.compression \notin {0, 1, 2, CompressionHUFF} THEN Fail("parse")
  ELSE IF m.compression = CompressionHUFF
       THEN TextFrom(m, HuffReader(m), LoadHuff(file.huff[m.huffOffset]), Min({offset, NumRecords}), maxSize)
       ELSE TextFrom(m, Ok(<<>>), <<>>, Min({offset, NumRecords}), maxSize)

-----------------------------------------------------------------------------
(* PalmDOC books: all records, the first past its header of 16 bytes. *)
PalmDocHeaderSize == 16
PalmDocError(m) == IF m.compression \notin {0, 1} \cup PalmDocCompressed THEN "parse" ELSE ""

PastHeader(d) ==
  IF d.err # "" THEN d
  ELSE IF Len(d.data) < PalmDocHeaderSize THEN Fail("parse")
  ELSE Ok(SubSeq(d.data, PalmDocHeaderSize + 1, Len(d.data)))
PalmDocSection(i) == IF i > 0 THEN Data(i) ELSE PastHeader(Data(i))

AddPalmDocSection(m, maxSize, acc, d) ==
  IF d.err # "" THEN [acc EXCEPT !.err = d.err] ELSE AddSection(m, <<>>, maxSize, acc, d.data)
AddPalmDoc(m, maxSize, acc, i) ==
  IF acc.err # "" THEN acc ELSE AddPalmDocSection(m, maxSize, acc, PalmDocSection(i))

AllRecords == [k \in 1..NumRecords |-> k - 1]
PalmDocText(m, maxSize) ==
  IF PalmDocError(m) # "" THEN Fail(PalmDocError(m))
  ELSE FinishText(FoldLeft(LAMBDA acc, i : AddPalmDoc(m, maxSize, acc, i), Unpacked("", <<>>, <<>>), AllRecords), m)

Holds(s, part) == \E i \in 0..Len(s) - Len(part) : SubSeq(s, i + 1, i + Len(part)) = part

\* The beginning of the text, record by record up to the end of the metadata or
\* the cap; what could be read of it when a record fails.
NoPrefix == Unpacked("", <<>>, <<>>)
PrefixRecords(m) == IF PalmDocError(m) # "" THEN <<>> ELSE AllRecords
AddToPrefix(m, acc, i) == AddPalmDoc(m, -1, acc, i)
PrefixEnds(acc) == acc.err # "" \/ Len(acc.data) >= PalmDocPrefixCap \/ Holds(acc.data, MetadataEnd)
Capped(data) == SubSeq(data, 1, Min({Len(data), PalmDocPrefixCap}))

\* trimPalmDocPrefix only matters for the window of the sniff, wider here than
\* any text.
IsPalmDocHtml(prefix) == Holds(prefix, HtmlTag)
=============================================================================
