----------------------------- MODULE MobiHeader -----------------------------
(***************************************************************************)
(* The headers of a MOBI book: record 0, the EXTH records in it, and in a  *)
(* joint file the KF8 header behind a BOUNDARY record; and what the book   *)
(* says of itself through them (mobi/mobi.go, exth.go, identifiers.go).    *)
(***************************************************************************)
EXTENDS PalmText

CONSTANTS
  Word, Half,   \* a 32-bit and a 16-bit word hold numbers below these
  LocaleCode    \* languages by LCID, "" if unknown

NullIndex == Word - 1
NoText == ""

\* The first of some values that is not empty.
FirstOf(values) ==
  LET full == {i \in DOMAIN values : values[i] # NoText} IN
    IF full = {} THEN NoText ELSE values[Min(full)]

-----------------------------------------------------------------------------
(* EXTH: records of a type, a declared length and a value, one behind the other. *)
NoExth == [err |-> "", entries |-> <<>>, present |-> FALSE]
ExthFail(e) == [NoExth EXCEPT !.err = e]

\* Seeded bug: the length a record declares is taken for that of its value.
RecordEndValue(offset, entry) == (offset + 8 + entry.length) % Word

RecordEnd(offset, entry) == (offset + entry.length) % Word

RECURSIVE ExthFrom(_, _, _, _)
\* Sums are of 32 bits: one that wraps passes the check against the data, and
\* the slice it then takes panics, which nobody recovers here.
ExthEntry(h, k, offset, end, entries) ==
  IF h.exth[k].length < 8 \/ end > h.length THEN ExthFail("parse")
  ELSE IF end < offset + 8 THEN ExthFail("panic")
  ELSE ExthFrom(h, k + 1, end, Append(entries, h.exth[k]))
ExthFrom(h, k, offset, entries) ==
  IF k > h.exthCount \/ k > file.maxExth THEN [err |-> "", entries |-> entries, present |-> TRUE]
  ELSE IF (offset + 8) % Word > h.length THEN ExthFail("parse")
  ELSE ExthEntry(h, k, offset, RecordEnd(offset, h.exth[k]), entries)

ExthAt(h, offset) ==
  IF (offset + 12) % Word > h.length THEN ExthFail("parse")
  ELSE IF offset + 12 > h.length THEN ExthFail("panic")
  ELSE ExthFrom(h, 1, offset + 12, <<>>)
ReadExth(h) == ExthAt(h, (h.headerLength + PalmDocHeaderSize) % Word)

Entries(m, type) == SelectSeq(m.exth.entries, LAMBDA entry : entry.type = type)
Texts(m, type) == [i \in DOMAIN Entries(m, type) |-> Entries(m, type)[i].text]
FirstText(m, type) == IF Entries(m, type) = <<>> THEN NoText ELSE Texts(m, type)[1]
\* A number of four bytes, 0 when there is none.
FirstNumber(entries) == IF entries = <<>> \/ entries[1].length < 12 THEN 0 ELSE entries[1].number
Number(m, type) == FirstNumber(Entries(m, type))

AUTHOR == 100
PUBLISHER == 101
DESCRIPTION == 103
ISBN == 104
SUBJECT == 105
PUBLICATION_DATE == 106
SOURCE == 112
ASIN == 113
KF8_HEADER_INDEX == 121
COVER_OFFSET == 201
UPDATED_TITLE == 503
ASIN_5XX == 504
LANGUAGE == 524

KF8HeaderIndex(m) == Number(m, KF8_HEADER_INDEX)

-----------------------------------------------------------------------------
(* readMobiHeader: the fields a record of that length has, the others absent. *)
MobiDefaults == [drmOffset |-> NullIndex, extraFlags |-> 0, div |-> NullIndex, skel |-> NullIndex,
                 fdst |-> NullIndex, firstImage |-> 0, huffOffset |-> 0, huffCount |-> 0, exthFlag |-> FALSE,
                 lastContent |-> 0]

Mobi(h, extra, exth) ==
  extra @@ MobiDefaults @@
  [err |-> exth.err, exth |-> exth, compression |-> h.compression, textRecordCount |-> h.textRecordCount,
   encryption |-> h.encryption, encoding |-> h.encoding, version |-> h.version, locale |-> h.locale,
   \* the full name, where the record holds all of it
   title |-> IF h.nameEnd <= h.length THEN h.title ELSE NoText, name |-> NoText,
   kf8FirstImage |-> 0, recordCount |-> 0]

BadHeader(e) == [err |-> e]

ReadMobiHeader(h) ==
  LET base == [firstImage |-> h.firstImage, huffOffset |-> h.huffOffset, huffCount |-> h.huffCount,
               exthFlag |-> h.exthFlag, drmOffset |-> h.drmOffset]
      content == [lastContent |-> h.lastContent]
      flags == [extraFlags |-> h.extraFlags]
      kf8 == [div |-> h.div, skel |-> h.skel, fdst |-> IF h.fdstCount <= 1 THEN NullIndex ELSE h.fdst]
      extra == (IF h.length >= 184 THEN base ELSE <<>>) @@ (IF h.length >= 216 THEN content ELSE <<>>)
               @@ (IF h.length >= 244 /\ h.identifier = "MOBI" /\ h.headerLength \in 228..500 THEN flags ELSE <<>>)
               @@ (IF h.length >= 264 /\ h.version = 8 THEN kf8 ELSE <<>>)
  IN IF h.length < 96 THEN BadHeader("parse")
     ELSE Mobi(h, extra, IF h.length >= 184 /\ h.exthFlag THEN ReadExth(h) ELSE NoExth)

\* The header in record i, if that is what the record holds.
HeaderIn(i) ==
  IF Data(i).err # "" \/ i \notin DOMAIN file.headers THEN BadHeader("parse")
  ELSE ReadMobiHeader([file.headers[i] EXCEPT !.length = Len(Data(i).data)])

Boundary == <<66, 79, 85, 78, 68, 65, 82, 89>>

\* ReadMobi, in the order it reads: record 0, the BOUNDARY record if there may be
\* one, and then the KF8 header.  The document is m, and joint when it has kf8.
NamedIn(m) == IF m.err # "" THEN m ELSE [m EXCEPT !.name = file.name, !.recordCount = NumRecords]
MobiHeader0 == NamedIn(IF NumRecords = 0 THEN BadHeader("parse") ELSE HeaderIn(0))
MayBeJoint(m) == m.exth.present /\ KF8HeaderIndex(m) \in 2..NumRecords - 1

\* A record that cannot be read is no BOUNDARY record.
HasBoundary(m) == Data(KF8HeaderIndex(m) - 1) = Ok(Boundary)

Single(m) == [m |-> m, kf8 |-> <<>>, joint |-> FALSE]
Joint(m, idx, k) ==
  [m |-> m, joint |-> TRUE,
   kf8 |-> [k EXCEPT !.recordCount = (NumRecords - idx + 1) % Half,
                     !.kf8FirstImage = (k.firstImage + idx) % Word, !.firstImage = m.firstImage,
                     !.huffOffset = IF k.huffCount > 0 THEN @ + idx ELSE @]]

Protected(m) == m.drmOffset # NullIndex \/ m.encryption # 0
IsDRMProtected(doc) == Protected(doc.m) \/ (doc.joint /\ Protected(doc.kf8))

-----------------------------------------------------------------------------
(* The metadata: from the KF8 header where it has any, then from the other. *)

Headers(doc) == IF doc.joint THEN <<doc.kf8, doc.m>> ELSE <<doc.m>>

Own(m) ==
  [title |-> FirstOf(<<FirstText(m, UPDATED_TITLE), m.title, m.name>>),
   description |-> FirstText(m, DESCRIPTION), publisher |-> FirstOf(Texts(m, PUBLISHER)),
   date |-> FirstOf(Texts(m, PUBLICATION_DATE)), language |-> FirstOf(<<FirstText(m, LANGUAGE), LocaleCode[m.locale]>>)]

\* Seeded bug: an empty value of the KF8 header hides the other.
DeclaredFirst(doc, field) == Own(Headers(doc)[1])[field]

Declared(doc, field) == FirstOf([i \in DOMAIN Headers(doc) |-> Own(Headers(doc)[i])[field]])

\* A header that has author records, empty ones even, settles the authors.
Authors(doc) ==
  LET m == IF doc.joint /\ Entries(doc.kf8, AUTHOR) # <<>> THEN doc.kf8 ELSE doc.m IN
    SelectSeq(Texts(m, AUTHOR), LAMBDA a : a # NoText)

\* The parts of all its subject records; with any, a header settles the subjects.
Subjects(doc) ==
  LET of(m) == FlattenSeq([i \in DOMAIN Entries(m, SUBJECT) |-> Entries(m, SUBJECT)[i].parts]) IN
    IF doc.joint /\ of(doc.kf8) # <<>> THEN of(doc.kf8) ELSE of(doc.m)

RemoveDuplicates(s) ==
  FoldLeft(LAMBDA out, x : IF x \in ToSet(out) THEN out ELSE Append(out, x), <<>>, s)

\* ISBNs, sources that name one, then ASINs, of the old kind where there are any.
Identifiers(doc) ==
  LET named(m, type) == SelectSeq(Entries(m, type), LAMBDA e : e.text # NoText)
      ids(entries, scheme) == [i \in DOMAIN entries |->
        [scheme |-> IF entries[i].scheme = NoText THEN scheme ELSE entries[i].scheme, value |-> entries[i].text]]
      sources(m) == SelectSeq(named(m, SOURCE), LAMBDA e : e.scheme \in {"ISBN", "calibre"})
      asins(m) == IF named(m, ASIN) # <<>> THEN named(m, ASIN) ELSE named(m, ASIN_5XX)
      of(m) == RemoveDuplicates(ids(named(m, ISBN), "ISBN") \o ids(sources(m), NoText) \o ids(asins(m), "ASIN"))
  IN IF doc.joint /\ of(doc.kf8) # <<>> THEN of(doc.kf8) ELSE of(doc.m)

\* Version: "6/8" of a joint file.
Version(doc) ==
  SelectSeq(<<doc.m.version>> \o (IF doc.joint THEN <<doc.kf8.version>> ELSE <<>>), LAMBDA v : v # 0)

-----------------------------------------------------------------------------
NoImages(first) == first \in {0, Half - 1, NullIndex}

\* The cover among the images of one header.
OwnCoverIdx(m) ==
  LET abs == (m.firstImage + Number(m, COVER_OFFSET)) % Word IN
    IF m.exth.present /\ ~NoImages(m.firstImage) /\ abs < m.recordCount THEN abs ELSE 0

CoverRecordIdx(doc) ==
  LET abs == (KF8HeaderIndex(doc.m) + OwnCoverIdx(doc.kf8)) % Word IN
    IF doc.joint /\ abs < doc.m.recordCount THEN abs ELSE OwnCoverIdx(doc.m)
=============================================================================
