------------------------------- MODULE PalmDb -------------------------------
(***************************************************************************)
(* The Palm database (internal/pdb) that MOBI, PalmDOC and eReader books   *)
(* are kept in, read from a Blob whose accesses may start to fail at any   *)
(* moment: a table of offsets, and the bytes between two of them.          *)
(*                                                                         *)
(* Records are numbered from 0, bytes of a sequence from 1.  Headers and   *)
(* indexes are kept beside the bytes, by record, as the fields they hold.  *)
(***************************************************************************)
EXTENDS Integers, Sequences, SequencesExt, FiniteSetsExt, TLC

VARIABLES
  file,   \* ident, name, bytes, offsets, the fields of its headers and indexes, the limits
  gone    \* the Blob cannot be read at the moment

Fail(e) == [err |-> e, data |-> <<>>]
Ok(data) == [err |-> "", data |-> data]

\* ReadAt: short at the end of the file.  Some places of a file may be
\* unreadable for good.
ReadAt(offset, n) ==
  IF gone \/ \E p \in file.lost : offset <= p /\ p < offset + n THEN Fail("read")
  ELSE Ok(SubSeq(file.bytes, offset + 1, Min({offset + n, Len(file.bytes)})))

PdbHeaderSize == 78
Size == Len(file.bytes)
NumRecords == Len(file.offsets)
Offset(i) == file.offsets[i + 1]
Records == 0..NumRecords - 1

\* ReadPdbDb, as far as it can fail.
PdbError ==
  IF gone THEN "read"
  ELSE IF \/ Size < PdbHeaderSize + 8 * NumRecords
          \/ \E i \in Records \ {0} : Offset(i) < Offset(i - 1)
       THEN "corrupt" ELSE ""

\* Seeded bug: the last record ends where it begins.
LengthOfLast(i) == IF i < NumRecords - 1 THEN Offset(i + 1) - Offset(i) ELSE 0

Length(i) == IF i < NumRecords - 1 THEN Offset(i + 1) - Offset(i) ELSE Max({Size - Offset(i), 0})

ReadRecordData(offset, length) ==
  IF length > file.maxRecord THEN Fail("long")
  ELSE IF offset >= Size THEN Ok(<<>>) ELSE ReadAt(offset, length)

Data(i) == ReadRecordData(Offset(i), Length(i))
\* The n bytes from the start of a record, whose end is not looked at.
DataSlice(i, n) == ReadRecordData(Offset(i), n)

\* sections.Open, for one read of the whole.
OpenSection(offset, size) ==
  IF size > Min({file.maxResource, file.maxRecord}) THEN Fail("limit") ELSE ReadAt(offset, size)

\* DetectImageMedia: by the first bytes, a byte of the signature here.
ImageExt(magic) ==
  IF magic = <<>> THEN "" ELSE CASE magic[1] = 255 -> "jpg" [] magic[1] = 137 -> "png" [] OTHER -> ""
=============================================================================
