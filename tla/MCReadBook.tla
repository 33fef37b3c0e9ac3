----------------------------- MODULE MCReadBook -----------------------------
(***************************************************************************)
(* An encoder of MOBI, KF8, PalmDOC and eReader files, with what each file *)
(* was made from.  Files are numbered: the digits of a number, in mixed    *)
(* radix, choose among the options of each part.                           *)
(***************************************************************************)
EXTENDS ReadBook

Nth(options, k) == options[(k % Len(options)) + 1]
Zeros(n) == [i \in 1..n |-> 0]
Concat(seqs) == FlattenSeq(seqs)
Sum(f) == FoldLeft(LAMBDA a, x : a + x, 0, f)

MCLocaleCode == [l \in 0..9 |-> IF l = 9 THEN "en" ELSE ""]
MCMetadataEnd == <<60, 47, 77, 62>>
MCHtmlTag == <<60, 72, 62>>

-----------------------------------------------------------------------------
(* Text: pieces of a record, each as it is stored and what it stands for. *)
Plain(bytes) == [bytes |-> bytes, copy |-> 0, n |-> 0, text |-> bytes]
Run(bytes) == [bytes |-> <<Len(bytes)>> \o bytes, copy |-> 0, n |-> 0, text |-> bytes]
SpaceAnd(c) == [bytes |-> <<c + 128>>, copy |-> 0, n |-> 0, text |-> <<32, c>>]
Copy(m, n) == [bytes |-> LET code == 32768 + 8 * m + n - 3 IN <<code \div 256, code % 256>>,
               copy |-> m, n |-> n, text |-> <<>>]

RECURSIVE Repeat(_, _, _)
Repeat(out, m, n) == IF n = 0 \/ m > Len(out) THEN out ELSE Repeat(Append(out, out[Len(out) - m + 1]), m, n - 1)
Say(out, p) == IF p.copy = 0 THEN out \o p.text ELSE Repeat(out, p.copy, p.n)
Said(pieces) == FoldLeft(Say, <<>>, pieces)
Stored(pieces) == Concat([i \in DOMAIN pieces |-> pieces[i].bytes])

PieceRecords == <<
  << <<Plain(<<97, 98>>), Copy(1, 4)>>, <<Run(<<1, 200>>), SpaceAnd(99)>> >>,
  << <<Plain(<<97>>), Copy(2, 3), SpaceAnd(98), Copy(2, 5)>>, <<Copy(1, 3), Plain(<<100, 0>>)>> >>,
  << <<Plain(<<97, 98, 99>>), Copy(3, 10)>> >>,
  << <<Run(<<97, 200, 3, 4, 5, 6, 7, 8>>)>>, <<>>, <<Plain(<<100, 35>>)>> >> >>

(* HUFF/CDIC: symbols, each a code and a phrase. *)
Codes == << <<1>>, <<0, 1>>, <<0, 0, 1>>, <<0, 0, 0>> >>
Phrases == << <<60, 112, 62>>, <<97, 98>>, <<1, 2, 1, 2>>, <<3, 1, 2>> >>   \* the last two in symbols
RECURSIVE Expand(_)
Expand(symbols) ==
  Concat([i \in DOMAIN symbols |-> IF symbols[i] <= 2 THEN Phrases[symbols[i]] ELSE Expand(Phrases[symbols[i]])])
Bytes(bits) ==
  LET n == (Len(bits) + 7) \div 8
      bit(k) == IF k > Len(bits) THEN 0 ELSE bits[k]
  IN [b \in 1..n |-> Sum([k \in 1..8 |-> bit(8 * (b - 1) + k) * 2 ^ (8 - k)])]
\* At most two bits of padding, fewer than any code of zeros has.
Huffed(symbols) == Bytes(Concat([i \in DOMAIN symbols |-> Codes[symbols[i]]]))
SymbolRecords == << << <<4, 3, 1>>, <<1, 4, 2, 1>> >>, << <<3, 4>>, <<3, 3>> >>, << <<2, 2, 2>> >> >>

Top(length, term, maxcode) == [length |-> length, term |-> term, maxcode |-> maxcode]
HuffTable ==
  [top |-> [t \in 0..3 |-> CASE t = 0 -> Top(2, FALSE, 0) [] t = 1 -> Top(2, TRUE, 2) [] OTHER -> Top(1, TRUE, 1)],
   mincode |-> [l \in 1..4 |-> IF l = 2 THEN 1 ELSE 0], maxcode |-> [l \in 1..4 |-> IF l = 3 THEN 3 ELSE 0]]
CdicTables ==
  LET phrase(i) == [slice |-> IF i <= 2 THEN Phrases[i] ELSE Huffed(Phrases[i]), flag |-> i <= 2] IN
    << [bits |-> 1, phrases |-> 4, entries |-> <<phrase(1), phrase(2)>>],
       [bits |-> 1, phrases |-> 4, entries |-> <<phrase(3), phrase(4)>>] >>

\* Trailing entries, and the bytes of a character that continues in the next record.
Trails == << [flags |-> 0, bytes |-> <<>>], [flags |-> 1, bytes |-> <<195, 1>>], [flags |-> 6, bytes |-> <<9, 130, 129>>],
             [flags |-> 7, bytes |-> <<4, 9, 9, 131, 7, 130>>], [flags |-> 2, bytes |-> <<9>> \o Zeros(127) \o <<129, 2>>] >>

-----------------------------------------------------------------------------
(* Records and files. *)
Rec(kind, bytes, info) == [kind |-> kind, bytes |-> bytes, info |-> info]
PlainRec(bytes) == Rec("plain", bytes, <<>>)
Jpeg(n) == PlainRec(<<255, 216, 255>> \o Zeros(n))
Png(n) == PlainRec(<<137, 80, 78, 71, 13, 10, 26, 10>> \o Zeros(n))
Junk == PlainRec(<<70, 76, 73, 83, 0, 0, 0, 0, 1>>)

InfoOf(records, kind) ==
  LET of == {i \in 0..Len(records) - 1 : records[i + 1].kind = kind} IN [i \in of |-> records[i + 1].info]

NoFields == [textCount |-> 0, compression |-> 0, imageFirst |-> 0, imageCount |-> 0, footnoteFirst |-> 0,
             footnoteCount |-> 0, sidebarFirst |-> 0, sidebarCount |-> 0, hasMetadata |-> FALSE, metadataIndex |-> 0]
\* Of a file with two halves: what is protected, and what remains of the metadata
\* without the new one.  Unlisted is a picture that is only found as the cover.
NoTruth == [texts |-> <<>>, kf8 |-> <<>>, sound |-> TRUE, order |-> <<>>, readable |-> TRUE, lost |-> {}, protected |-> {},
            pictures |-> <<>>, unlisted |-> {}, cover |-> 0, joint |-> FALSE, metadata |-> <<>>, remaining |-> <<>>]

FileOf(ident, records, truth) ==
  LET n == Len(records)
      body == Concat([i \in DOMAIN records |-> records[i].bytes])
      start(i) == 78 + 8 * n + Sum([j \in 1..i - 1 |-> Len(records[j].bytes)])
  IN [ident |-> ident, name |-> "name", bytes |-> Zeros(78 + 8 * n) \o body, offsets |-> [i \in 1..n |-> start(i)],
      headers |-> InfoOf(records, "header"), indx |-> InfoOf(records, "indx"), fdst |-> InfoOf(records, "fdst"),
      huff |-> InfoOf(records, "huff"), cdic |-> InfoOf(records, "cdic"), ereader |-> NoFields, ereaderFields |-> <<>>,
      oebTitle |-> "", lost |-> {}, maxRecord |-> 0, maxResource |-> 0, maxExth |-> 0, fallback |-> TRUE,
      claims |-> {}, truth |-> truth]

\* Some bytes of a record are unreadable.
Lost(f, i) == [f EXCEPT !.lost = {f.offsets[i + 1] + 1}, !.truth.readable = FALSE, !.truth.lost = {i}]

-----------------------------------------------------------------------------
(* Headers. *)
E(type, text) == [type |-> type, length |-> 12, text |-> text, number |-> 0, parts |-> <<>>, scheme |-> ""]
EN(type, number) == [E(type, "n") EXCEPT !.number = number]
EScheme(type, scheme, text) == [E(type, text) EXCEPT !.scheme = scheme]
EParts(parts) == [E(105, "s") EXCEPT !.parts = parts]

HeaderLength == 232
Header(exth) ==
  [length |-> 0, compression |-> 1, textRecordCount |-> 0, encryption |-> 0, identifier |-> "MOBI",
   headerLength |-> HeaderLength, encoding |-> "utf-8", version |-> 6, locale |-> 0, firstImage |-> 0, huffOffset |-> 0,
   huffCount |-> 0, exthFlag |-> exth # <<>>, exth |-> exth, exthCount |-> Len(exth), drmOffset |-> Word - 1,
   lastContent |-> 0, extraFlags |-> 0, div |-> Word - 1, skel |-> Word - 1, fdst |-> Word - 1, fdstCount |-> 0,
   title |-> "full name", nameEnd |-> 264]
HeaderRec(h) ==
  LET exth == IF h.exthFlag THEN HeaderLength + 28 + Sum([i \in DOMAIN h.exth |-> h.exth[i].length]) ELSE 0 IN
    Rec("header", Zeros(Max({exth, 264})), h)

Language(h) == LocaleCode[h.locale]
BasicMetadata(h) ==
  [title |-> h.title, authors |-> <<>>, description |-> "", subjects |-> <<>>, language |-> Language(h),
   identifiers |-> <<>>, publisher |-> "", date |-> "", version |-> <<h.version>>]

Drop0(s) == SelectSeq(s, LAMBDA c : c # 0)
\* A '#' at the end is padding.
Unpadded(s) == Drop0(IF s # <<>> /\ s[Len(s)] = 35 THEN SubSeq(s, 1, Len(s) - 1) ELSE s)
TextOf(raw) == [raw |-> raw, text |-> Unpadded(raw), stored |-> 0]

\* Text records of one of several encodings: what goes into the header, the
\* records, and the text.
Encoded(compression, k, trail) ==
  LET pieces == Nth(PieceRecords, k)
      symbols == Nth(SymbolRecords, k)
      said == IF compression = 17480 THEN [i \in DOMAIN symbols |-> Expand(symbols[i])]
              ELSE [i \in DOMAIN pieces |-> Said(pieces[i])]
      stored == CASE compression = 17480 -> [i \in DOMAIN symbols |-> Huffed(symbols[i])]
                  [] compression = 2     -> [i \in DOMAIN pieces |-> Stored(pieces[i])]
                  [] OTHER               -> said
  IN [records |-> [i \in DOMAIN stored |-> PlainRec(stored[i] \o trail.bytes)], raw |-> Concat(said)]
HuffRecords == <<Rec("huff", <<1>>, HuffTable), Rec("cdic", <<2>>, CdicTables[1]), Rec("cdic", <<3>>, CdicTables[2])>>

\* Limits that a text just meets, or exceeds by a byte, or none.
LimitOf(k, n) == CASE k % 3 = 0 -> 0 [] k % 3 = 1 -> n [] OTHER -> n - 1

-----------------------------------------------------------------------------
(* MOBI6 books. *)
Compressions == <<1, 2, 17480>>
Pictures == << <<>>, <<Jpeg(6), Png(3)>>, <<Png(2), Junk, PlainRec(<<>>), Jpeg(9), Junk>>, <<Junk, Jpeg(6)>> >>
PicturesAt(records, first) ==
  LET of == {i \in first..first + Len(records) - 1 :
               records[i - first + 1].bytes # <<>> /\ records[i - first + 1].bytes[1] \in {255, 137}}
  IN [i \in of |-> records[i - first + 1].bytes]

Mobi6Of(compression, text, trail, pictures, coverOffset, limit) ==
  LET huff == IF compression = 17480 THEN HuffRecords ELSE <<>>
      n == Len(text.records)
      first == 1 + n + Len(huff)
      cover == IF coverOffset >= 0 /\ pictures # <<>> THEN <<EN(201, coverOffset)>> ELSE <<>>
      h == [Header(cover) EXCEPT !.compression = compression, !.textRecordCount = n, !.extraFlags = trail.flags,
              !.huffOffset = 1 + n, !.huffCount = Len(huff), !.firstImage = IF pictures = <<>> THEN Word - 1 ELSE first]
      at == PicturesAt(pictures, first)
      coverAt == first + Max({coverOffset, 0})
      truth == [NoTruth EXCEPT !.texts = "index.html" :> TextOf(text.raw), !.order = <<"index.html">>, !.pictures = at,
                  !.cover = IF cover # <<>> /\ coverAt \in DOMAIN at THEN coverAt ELSE 0,
                  !.metadata = BasicMetadata(h)]
  IN [FileOf("mobi", <<HeaderRec(h)>> \o text.records \o huff \o pictures, truth)
        EXCEPT !.maxResource = LimitOf(limit, Len(text.raw))]

Mobi6(compression, k, trail, pictures, coverOffset, limit) ==
  Mobi6Of(compression, Encoded(compression, k, trail), trail, pictures, coverOffset, limit)

TextFile(k) == Mobi6(Nth(Compressions, k), k \div 3, Nth(Trails, k \div 12), <<>>, 0, k \div 60)
PictureVariant(k, f, last) ==
  CASE (k \div 16) % 4 = 0 -> f
    [] (k \div 16) % 4 = 1 -> [f EXCEPT !.maxResource = 10]
    [] (k \div 16) % 4 = 2 -> Lost(f, last)
    [] OTHER -> [f EXCEPT !.headers = 0 :> [f.headers[0] EXCEPT !.lastContent = last],
                          !.truth.unlisted = {f.truth.cover} \ 0..last,
                          !.truth.pictures = [i \in {i \in DOMAIN @ : i <= last \/ i = f.truth.cover} |-> @[i]]]
PictureOf(k, f) == PictureVariant(k, f, Len(f.offsets) - 2)
PictureFile(k) == PictureOf(k, Mobi6(1, 0, Trails[1], Nth(Pictures, k), ((k \div 4) % 4) - 1, 0))

-----------------------------------------------------------------------------
(* KF8 books: a flow of skeletons, each with the pieces that go into it, then
   other flows; and the indexes that put it together. *)
Varint(v) == IF v < 128 THEN <<v + 128>> ELSE <<v \div 128, (v % 128) + 128>>
Varints(values) == Concat([i \in DOMAIN values |-> Varint(values[i])])
Digits(n) == <<48 + (n \div 10), 48 + (n % 10)>>
T(tag, values, mask) == [tag |-> tag, values |-> values, mask |-> mask, eof |-> FALSE]
EndTag == [tag |-> 0, values |-> 0, mask |-> 0, eof |-> TRUE]
SkelTags == <<T(1, 1, 3), T(6, 2, 12), EndTag>>
DivTags == <<T(2, 1, 1), T(3, 1, 2), T(4, 1, 4), T(6, 2, 8), EndTag>>

\* The entries of an index, behind a name each.
Entry(name, rest) == <<Len(name)>> \o name \o rest
IndexRecords(tags, ordt, entries, ncncx) ==
  LET starts == [i \in DOMAIN entries |-> 4 + Sum([j \in 1..i - 1 |-> Len(entries[j])])]
      data == Zeros(4) \o Concat(entries)
      indx(fields) == fields @@ [count |-> 0, ncncx |-> 0, tagx |-> [ok |-> FALSE, controlBytes |-> 0, tags |-> <<>>],
                                 ordt |-> <<>>, data |-> <<>>, positions |-> <<>>, idxt |-> 0]
  IN << Rec("indx", <<0>>, indx([count |-> 1, ncncx |-> ncncx, ordt |-> ordt,
                                 tagx |-> [ok |-> TRUE, controlBytes |-> 1, tags |-> tags]])),
        Rec("indx", <<0>>, indx([data |-> data, positions |-> starts, idxt |-> Len(data)])) >>

\* A skeleton's numbers: twice each, one after the other or as so many bytes.
SkelEntry(name, count, start, length, inBytes) ==
  LET counts == Varints(<<count, count>>)  places == Varints(<<start, length, start, length>>) IN
    Entry(name, IF inBytes THEN <<15>> \o Varint(Len(counts)) \o Varint(Len(places)) \o counts \o places
                ELSE <<10>> \o counts \o places)
DivEntry(name, toc, fileNumber, seq, start, length) ==
  Entry(name, <<15>> \o Varints(<<toc, fileNumber, seq, start, length>>))

\* Digits stand for themselves, or through a map.
Ordt == [i \in 1..10 |-> 47 + i]
Named(digits, mapped) == IF mapped THEN [i \in DOMAIN digits |-> digits[i] - 48] ELSE <<0>> \o digits

Skeleton(bytes, divs) == [bytes |-> bytes, divs |-> divs]
Piece(at, bytes, toc, startPos) == [at |-> at, bytes |-> bytes, toc |-> toc, startPos |-> startPos, into |-> at]
\* One that is given a place inside a tag, and goes by the aid of another.
ByAid(at, bytes, toc, startPos, into) == [Piece(at, bytes, toc, startPos) EXCEPT !.into = into]
Para == <<60, 112, 62, 60, 47, 62>>
AidPara == <<60, 64, 118, 62, 120, 60, 47, 62>>
LongToc(aid) == Zeros(12) \o aid \o Zeros(2)
Structures == <<
  <<Skeleton(Para, <<Piece(3, <<97>>, 0, 0), Piece(4, <<98, 99>>, 0, 0)>>),
    Skeleton(AidPara, <<ByAid(1, <<100, 35>>, 1, 0, 4)>>)>>,
  <<Skeleton(Para, <<>>), Skeleton(Para, <<Piece(3, <<60, 98, 62>>, 2, 0), Piece(6, <<97>>, 1, 0)>>), Skeleton(<<97>>, <<>>)>>,
  <<Skeleton(AidPara \o Para, <<ByAid(10, <<99, 97>>, 2, 1, 5)>>)>> >>
\* The strings pieces name, as aids, in two records.
TocStrings == << LongToc(<<118>>), <<118>> >>
TocRecords == << PlainRec(Varint(15) \o LongToc(<<118>>)), PlainRec(<<128>> \o Varint(1) \o <<118>>) >>
TocAt(n) == CASE n = 0 -> 7 [] n = 1 -> 0 [] OTHER -> Half + 1

InsertAll(skeleton) ==
  FoldLeft(LAMBDA out, d : SubSeq(out, 1, d.into) \o d.bytes \o SubSeq(out, d.into + 1, Len(out)),
           skeleton.bytes, skeleton.divs)
SkelBytes(s) == s.bytes \o Concat([i \in DOMAIN s.divs |-> s.divs[i].bytes])
FlowOf(structure) == Concat([i \in DOMAIN structure |-> SkelBytes(structure[i])])
StartOf(structure, i) == Sum([j \in 1..i - 1 |-> Len(SkelBytes(structure[j]))])

PartNames(structure) ==
  [i \in DOMAIN structure |-> IF structure[i].divs = <<>> THEN "empty-" \o ToString(i - 1) \o ".html" ELSE PartName(i - 1)]

Style == <<60, 115, 62>>

\* The records of a KF8 part, and what it was made from.  damage: which of its
\* tables cannot be used.
Kf8Part(structure, compression, mapped, inBytes, damage) ==
  LET flow == FlowOf(structure)
      raw == flow \o Style
      half == Len(raw) \div 2
      pieces == <<SubSeq(raw, 1, half), SubSeq(raw, half + 1, Len(raw))>>
      stored(p) == IF compression = 2 THEN Concat([i \in DOMAIN p |-> IF p[i] \in 1..8 THEN <<1, p[i]>> ELSE <<p[i]>>]) ELSE p
      skels == [i \in DOMAIN structure |->
                  SkelEntry(Named(Digits(i), mapped), Len(structure[i].divs), StartOf(structure, i),
                            Len(structure[i].bytes), inBytes)]
      div(i, j) == LET d == structure[i].divs[j] IN
                     DivEntry(Named(Digits(StartOf(structure, i) + d.at), mapped), TocAt(d.toc), i - 1, j - 1,
                              d.startPos, Len(d.bytes))
      divs == Concat([i \in DOMAIN structure |-> [j \in DOMAIN structure[i].divs |-> div(i, j)]])
      ordt == IF mapped THEN Ordt ELSE <<>>
      skelRecords == IF damage = "skel" THEN <<PlainRec(<<0>>), PlainRec(<<0>>)>> ELSE IndexRecords(SkelTags, ordt, skels, 0)
      header == [Header(<<>>) EXCEPT !.version = 8, !.compression = IF damage = "text" THEN 99 ELSE compression,
                   !.textRecordCount = 2, !.extraFlags = 2, !.skel = IF damage = "noskel" THEN Word - 1 ELSE 3, !.div = 5,
                   !.fdst = 9, !.fdstCount = IF damage = "nofdst" THEN 1 ELSE 2]
      fdst == [start |-> 0, count |-> 2, flows |-> <<<<0, Len(flow)>>, <<Len(flow), Len(raw)>>>>]
      parts == [i \in DOMAIN structure |-> InsertAll(structure[i])]
      names == IF damage \in {"skel", "noskel", "text"} THEN <<Part0>> ELSE PartNames(structure)
      text(i) == CASE damage = "skel"   -> raw
                   [] damage = "noskel" -> flow
                   [] OTHER             -> parts[i]
  IN [header |-> header, names |-> names,
      texts |-> IF damage = "text" THEN <<>>
                ELSE [name \in ToSet(names) |-> [raw |-> <<>>, stored |-> 0,
                        text |-> text(CHOOSE i \in DOMAIN names : names[i] = name)]],
      records |-> [i \in 1..2 |-> PlainRec(stored(pieces[i]) \o <<129>>)] \o skelRecords
                  \o IndexRecords(DivTags, ordt, divs, 2) \o TocRecords \o <<Rec("fdst", Zeros(16), fdst)>>]

Damages == <<"", "skel", "noskel", "nofdst", "text">>
Kf8Limit(k, texts) ==
  LimitOf(k, Max({Len(texts[name].text) : name \in DOMAIN texts} \cup {2}))

Kf8Of(k, b) ==
  LET at == 1 + Len(b.records)
      f == FileOf("mobi", <<HeaderRec([b.header EXCEPT !.firstImage = at])>> \o b.records \o <<Jpeg(5), Png(300)>>,
                  [NoTruth EXCEPT !.texts = b.texts, !.kf8 = b.names, !.sound = b.texts # <<>>,
                     !.pictures = (at :> Jpeg(5).bytes) @@ ((at + 1) :> Png(300).bytes), !.metadata = BasicMetadata(b.header)])
      limited == [f EXCEPT !.maxResource = Kf8Limit(k \div 120, b.texts)]
  IN CASE k \div 360 = 0 -> limited
       [] k \div 360 = 1 -> [limited EXCEPT !.maxRecord = 300, !.truth.readable = FALSE]
       [] OTHER -> Lost(limited, (k \div 3) % at)
Kf8File(k) ==
  Kf8Of(k, Kf8Part(Nth(Structures, k), 1 + ((k \div 3) % 2), (k \div 6) % 2 = 1, (k \div 12) % 2 = 1, Nth(Damages, k \div 24)))

-----------------------------------------------------------------------------
(* Files with both renderings. *)
JointMetadata(m, k) ==
  [BasicMetadata(m) EXCEPT !.version = <<6, 8>>, !.language = FirstOf(<<Language(k), Language(m)>>)]

JointOf(k, b, text) ==
  LET withText == (k \div 30) % 2 = 0
      pictures == <<Jpeg(5), Png(3)>>
      n == 1 + Len(text.records) + Len(pictures)
      m == [Header(<<EN(121, n + 1), EN(201, 1)>>) EXCEPT !.compression = 2, !.extraFlags = 6, !.firstImage = n - 2,
              !.textRecordCount = IF withText THEN Len(text.records) ELSE 0]
      h == [b.header EXCEPT !.firstImage = Word - 1, !.locale = (k \div 15) % 10]
      at == PicturesAt(pictures, n - 2)
      order == IF withText THEN <<"index.html">> ELSE <<>>
      truth == [NoTruth EXCEPT !.texts = b.texts @@ ("index.html" :> TextOf(text.raw)), !.kf8 = b.names,
                  !.sound = b.texts # <<>>, !.order = order, !.pictures = at, !.cover = n - 1, !.joint = TRUE,
                  !.metadata = JointMetadata(m, h), !.remaining = BasicMetadata(m)]
      f == [FileOf("mobi", <<HeaderRec(m)>> \o text.records \o pictures \o <<PlainRec(Boundary), HeaderRec(h)>> \o b.records,
                   truth) EXCEPT !.fallback = (k \div 60) % 2 = 0, !.maxResource = Kf8Limit(k \div 120, b.texts)]
      \* Without its BOUNDARY record a file has the old rendering only.
      halved == [Lost(f, n) EXCEPT !.truth.kf8 = <<>>, !.truth.joint = FALSE, !.truth.metadata = BasicMetadata(m)]
  IN IF k \div 360 = 0 THEN f ELSE Nth(<<Lost(f, n + 2), Lost(f, n + 1), halved, Lost(f, 1)>>, k \div 4)
JointFile(k) ==
  JointOf(k, Kf8Part(Nth(Structures, k), 2, FALSE, FALSE, Nth(Damages, k \div 3)), Encoded(2, k \div 15, Trails[3]))

-----------------------------------------------------------------------------
(* Metadata: each alternative with what a book of that header says. *)
Says(exth, title, metadata) == [exth |-> exth, title |-> title, says |-> metadata]
H(field, value) == field :> value
Alternatives == <<
  Says(<<>>, "full", <<>>),
  Says(<<E(503, "updated"), E(100, "A"), E(100, ""), E(100, "B")>>, "full",
       H("title", "updated") @@ H("authors", <<"A", "B">>)),
  Says(<<E(100, ""), E(503, ""), EParts(<<"s", "t">>), EParts(<<"u">>), E(101, ""), E(101, "P"), E(106, "1999")>>, "",
       H("authors", <<>>) @@ H("subjects", <<"s", "t", "u">>) @@ H("publisher", "P") @@ H("date", "1999")),
  Says(<<E(104, "978"), E(104, "978"), EScheme(112, "calibre", "c"), EScheme(112, "other", "x"), E(113, "B0")>>, "full",
       H("identifiers", <<[scheme |-> "ISBN", value |-> "978"], [scheme |-> "calibre", value |-> "c"],
                          [scheme |-> "ASIN", value |-> "B0"]>>)),
  Says(<<E(504, "B1"), E(103, "D"), E(524, "fr")>>, "full",
       H("identifiers", <<[scheme |-> "ASIN", value |-> "B1"]>>) @@ H("description", "D") @@ H("language", "fr")) >>

Field(says, field, default) == IF field \in DOMAIN says THEN says[field] ELSE default
OrElse(value, default) == IF value \in {"", <<>>} THEN default ELSE value

MetadataFile(k) ==
  LET a == Nth(Alternatives, k)
      b == Nth(Alternatives, k \div 5)
      joint == (k \div 25) % 2 = 1
      locale == IF (k \div 50) % 2 = 1 THEN 9 ELSE 0
      cut == k \div 100
      own(x) == [Header(x.exth) EXCEPT !.title = x.title, !.locale = locale]
      m == [own(a) EXCEPT !.exth = IF joint THEN <<EN(121, 3)>> \o @ ELSE @, !.exthFlag = TRUE,
              !.exthCount = IF joint THEN @ + 1 ELSE @, !.nameEnd = IF cut = 1 THEN 5000 ELSE 264,
              !.textRecordCount = 1]
      h == [own(b) EXCEPT !.version = 8, !.textRecordCount = 1]
      says(field, none) ==
        LET older == Field(a.says, field, none)  newer == Field(b.says, field, none) IN
          IF joint /\ newer # none THEN newer ELSE older
      title(x, name) == IF "title" \in DOMAIN x.says THEN x.says.title ELSE OrElse(x.title, name)
      \* Author records settle the authors, and be they empty.
      authors == Field(IF joint THEN b.says ELSE <<>>, "authors", Field(a.says, "authors", <<>>))
      \* The newer header has no name of its own but its full name.
      name == title(IF cut = 1 THEN [a EXCEPT !.title = ""] ELSE a, "name")
      metadata == [title |-> IF joint THEN title(b, name) ELSE name, authors |-> authors,
                   description |-> says("description", ""), subjects |-> says("subjects", <<>>),
                   language |-> OrElse(Field(IF joint THEN b.says ELSE a.says, "language", LocaleCode[locale]),
                                       Field(a.says, "language", "")),
                   identifiers |-> says("identifiers", <<>>), publisher |-> says("publisher", ""),
                   date |-> says("date", ""), version |-> IF joint THEN <<6, 8>> ELSE <<6>>]
      texts == "index.html" :> TextOf(<<97>>)
      older == [title |-> name, authors |-> Field(a.says, "authors", <<>>),
                description |-> Field(a.says, "description", ""), subjects |-> Field(a.says, "subjects", <<>>),
                language |-> Field(a.says, "language", LocaleCode[locale]),
                identifiers |-> Field(a.says, "identifiers", <<>>), publisher |-> Field(a.says, "publisher", ""),
                date |-> Field(a.says, "date", ""), version |-> <<6>>]
      truth == [NoTruth EXCEPT !.metadata = metadata, !.remaining = older, !.order = <<"index.html">>, !.joint = joint,
                  !.kf8 = IF joint THEN <<Part0>> ELSE <<>>,
                  !.texts = IF joint THEN texts @@ (Part0 :> TextOf(<<98>>)) ELSE texts]
  IN FileOf("mobi", <<HeaderRec(m), PlainRec(<<97>>)>> \o
              (IF joint THEN <<PlainRec(Boundary), HeaderRec(h), PlainRec(<<98>>)>> ELSE <<>>), truth)

\* What is protected, in one header or the other; and a table that cannot be right.
ProtectedVariant(k, f, n) ==
  CASE k % 5 = 0 -> [f EXCEPT !.headers = (0 :> [@[0] EXCEPT !.encryption = 2]) @@ @, !.truth.protected = {"old"}]
    [] k % 5 = 1 -> [f EXCEPT !.headers = (n :> [@[n] EXCEPT !.encryption = 1]) @@ @, !.truth.protected = {"new"}]
    [] k % 5 = 2 -> [f EXCEPT !.headers = (n :> [@[n] EXCEPT !.drmOffset = 5]) @@ @, !.truth.protected = {"new"}]
    [] k % 5 = 3 -> [f EXCEPT !.offsets = [@ EXCEPT ![2] = 0], !.truth.readable = FALSE]
    [] OTHER     -> [f EXCEPT !.bytes = Zeros(70), !.truth.readable = FALSE]
ProtectedOf(k, f) == ProtectedVariant(k, f, Max(DOMAIN f.headers))
ProtectedFile(k) == ProtectedOf(k, JointFile(k \div 5))

-----------------------------------------------------------------------------
(* PalmDOC: record 0 has text behind its header. *)
\* The metadata end in record 0, or in the next one.
Openings == << << <<97>> >>, << <<60, 72, 62>> >>, << <<60, 72, 62, 60, 47, 77, 62>> >>, << <<60, 72, 62>>, <<60, 47, 77, 62>> >> >>
PalmDocFile(k) ==
  LET html == k % 3 > 0
      opening == IF k % 6 = 5 THEN Openings[4] ELSE Nth(Openings, k % 3)
      pieces == [i \in DOMAIN opening |-> <<Plain(opening[i])>>] \o Nth(PieceRecords, k \div 3)
      compression == 1 + ((k \div 12) % 2)
      said == [i \in DOMAIN pieces |-> Said(pieces[i])]
      stored == [i \in DOMAIN pieces |-> IF compression = 2 THEN Stored(pieces[i]) ELSE said[i]]
      raw == Concat(said)
      titled == k \div 144 = 1
      lost == (k \div 72) % 2 = 1
      header == [Header(<<>>) EXCEPT !.compression = compression, !.encryption = IF k \div 144 = 2 THEN 1 ELSE 0]
      name == IF html THEN "index.html" ELSE "index.txt"
      text == SelectSeq(IF raw[Len(raw)] = 35 THEN SubSeq(raw, 1, Len(raw) - 1) ELSE raw, LAMBDA c : c \notin {0, 2, 30})
      f == FileOf("palmdoc", <<Rec("header", Zeros(16) \o stored[1], header)>> \o
                    [i \in 1..Len(stored) - 1 |-> PlainRec(stored[i + 1])],
                  [NoTruth EXCEPT
                     !.texts = [n \in {"index.html", "index.txt"} |-> [raw |-> raw, text |-> text, stored |-> 0]],
                     !.order = <<name>>, !.protected = IF k \div 144 = 2 THEN {"old"} ELSE {},
                     !.metadata = [title |-> IF titled /\ k % 3 = 2 /\ ~(lost /\ Len(opening) = 2) THEN "oeb" ELSE "name"],
                     !.remaining = [title |-> "name"]])
      g == [f EXCEPT !.maxResource = LimitOf(k \div 24, Len(raw)), !.oebTitle = IF titled THEN "oeb" ELSE ""]
  IN IF lost THEN Lost(g, 1) ELSE g

-----------------------------------------------------------------------------
(* eReader books. *)
MCImageNames == [b \in {65, 66, 67} |-> [name |-> CASE b = 65 -> "COVER.png" [] b = 66 -> "b.gif" [] OTHER -> "c",
                                         ext |-> IF b = 67 THEN "" ELSE "png", cover |-> b = 65]]
Picture(name, n) == PlainRec(<<80, name, 0, 137>> \o Zeros(n))
Unnamed(n) == PlainRec(<<80, 67, 0>> \o Zeros(n))

MCXor(c) == c ^^ 165
PageOf(kind, pieces) ==
  CASE kind = "zlib"     -> <<120>> \o Said(pieces)
    [] kind = "palmdoc"  -> Stored(pieces)
    [] kind = "makebook" -> [i \in DOMAIN Stored(pieces) |-> MCXor(Stored(pieces)[i])]

EreaderFile(k) ==
  LET kind == Nth(<<"zlib", "palmdoc", "makebook">>, k)
      dropbook == kind # "makebook"
      pages == Nth(PieceRecords, k \div 3)
      notes == IF dropbook THEN Nth(<<0, 1, 2>>, k \div 12) ELSE 0
      images == Nth(<< <<>>, <<Picture(65, 3)>>, <<Picture(66, 3), Junk, Unnamed(9), Picture(65, 4)>> >>, k \div 36)
      page == [i \in DOMAIN pages |-> PlainRec(PageOf(kind, pages[i]))]
      note == [i \in 1..notes |-> PlainRec(PageOf(kind, <<Plain(<<110, 96 + i>>)>>))]
      n == Len(page)
      first == 1 + n + (IF notes > 0 THEN notes + 1 ELSE 0)
      meta == (k \div 108) % 2 = 1
      fields == [NoFields EXCEPT !.compression = IF kind = "zlib" THEN 10 ELSE 2, !.textCount = n + 1,
                   !.imageFirst = first, !.imageCount = Len(images), !.footnoteFirst = n + 1,
                   !.footnoteCount = IF notes > 0 THEN notes + 1 ELSE 0,
                   !.hasMetadata = meta, !.metadataIndex = first + Len(images)]
      header == IF dropbook THEN 12 ELSE IF k \div 108 = 1 THEN 8 ELSE 4
      body == page \o (IF notes > 0 THEN <<Junk>> \o note ELSE <<>>) \o images \o <<PlainRec(<<1, 2>>)>>
      raw == Concat([i \in DOMAIN pages |-> Said(pages[i])])
      stored == Sum([i \in DOMAIN page |-> Len(page[i].bytes)])
      text(r, s) == [raw |-> r, text |-> r, stored |-> s]
      noted == Concat([i \in 1..notes |-> <<110, 96 + i>>])
      pictures == {i \in DOMAIN images : Len(images[i].bytes) >= ImageProbeSize /\ images[i].bytes[1] = 80
                                         /\ images[i].bytes[2] # 67}
      covers == {i \in pictures : images[i].bytes[2] = 65}
      bare == [title |-> "name", author |-> "", publisher |-> "", isbn |-> ""]
      truth == [NoTruth EXCEPT
        !.texts = ("index.pml" :> text(raw, stored)) @@
                  ("footnotes.pml" :> text(noted, Sum([i \in 1..notes |-> Len(note[i].bytes)]))),
        !.order = <<"index.pml">> \o (IF notes > 0 THEN <<"footnotes.pml">> ELSE <<>>),
        !.pictures = [i \in {first + i - 1 : i \in pictures} |-> SubSeq(images[i - first + 1].bytes, ImageHeaderSize + 1,
                                                                     Len(images[i - first + 1].bytes))],
        !.cover = IF covers = {} THEN 0 ELSE first + Min(covers) - 1,
        !.metadata = IF dropbook /\ meta THEN [title |-> "T", author |-> "A", publisher |-> "P", isbn |-> ""] ELSE bare,
        !.remaining = bare]
      f == [FileOf("ereader", <<PlainRec(Zeros(header))>> \o body, truth)
              EXCEPT !.ereader = fields, !.ereaderFields = <<"T", "A", "", "P">>,
                     !.maxResource = LimitOf(k \div 216, Max({Len(raw), stored}))]
  IN CASE k \div 648 = 0 -> f
       [] k \div 648 = 1 /\ dropbook ->
            [f EXCEPT !.ereader.compression = Nth(<<260, 272>>, k \div 3), !.truth.protected = {"old"}]
       [] k \div 648 = 1 -> Lost(f, 1)
       \* The record of the metadata is lost.
       [] OTHER -> [Lost(f, fields.metadataIndex) EXCEPT !.truth.metadata = bare]

\* What other readers are for, or nobody.
OtherFile(k) ==
  LET f == [FileOf(Nth(<<"none", "mobi", "ereader">>, k), <<>>, NoTruth) EXCEPT !.truth.protected = {"old"}] IN
    [f EXCEPT !.claims = Nth(<<{}, {"epub"}, {"epub", "fb3"}, {"fb2", "lrf"}>>, k \div 3)]

MCFiles == <<
  {TextFile(k) : k \in 0..179}, {PictureFile(k) : k \in 0..63}, {Kf8File(k) : k \in 0..440},
  {JointFile(4 * k) : k \in 0..120}, {MetadataFile(k) : k \in 0..149}, {ProtectedFile(k) : k \in 0..99},
  {PalmDocFile(k) : k \in 0..299}, {EreaderFile(k) : k \in 0..699 \cup 1404..1439}, {OtherFile(k) : k \in 0..11} >>

\* Files with both renderings, whose cover is among the pictures of the old one.
MCJointFiles == << {JointFile(k) : k \in 0..119} >>
=============================================================================
