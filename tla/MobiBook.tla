------------------------------ MODULE MobiBook ------------------------------
(***************************************************************************)
(* The resources of a MOBI, KF8 or PalmDOC book (mobi/mobi8.go, reader.go, *)
(* resources.go).  A resource has its name, and what its Open does: serve  *)
(* bytes made when the book was read, report an error found then, or read  *)
(* the Blob again.                                                         *)
(***************************************************************************)
EXTENDS MobiIndex

Res(name, open) == [name |-> name, open |-> open, record |-> 0, data |-> <<>>, err |-> ""]
HtmlResource(name, data) == [Res(name, "bytes") EXCEPT !.data = data]
FailingResource(name, err) == [Res(name, "fail") EXCEPT !.err = err]
Image(name, i) == [Res(name, "record") EXCEPT !.record = i]
None == Res("", "none")

Part0 == "part0.html"
PartName(n) == "part" \o ToString(n) \o ".html"

-----------------------------------------------------------------------------
(* readMobi8Indices: skeletons and the pieces that go into them. *)
Tag(tags, t) == IF t \in DOMAIN tags THEN tags[t] ELSE <<>>
Value(tags, t, k) == IF k <= Len(Tag(tags, t)) THEN Tag(tags, t)[k] ELSE 0

\* The digits a name begins with, as a number.
AtoiOrZero(name) ==
  LET digits == {n \in 0..Len(name) : \A i \in 1..n : name[i] \in 48..57} IN
    FoldLeft(LAMBDA v, c : v * 10 + c - 48, 0, SubSeq(name, 1, Max(digits)))

SkeletonFile(i, t) == [num |-> i - 1, divCount |-> Value(t, 1, 1), start |-> Value(t, 6, 1), length |-> Value(t, 6, 2)]
SkeletonFiles(index) == [i \in DOMAIN index.table |-> SkeletonFile(i, index.table[i].tags)]

Elem(name, t, cncx) ==
  [insertPos |-> AtoiOrZero(name),
   tocText |-> IF Tag(t, 2) # <<>> /\ Tag(t, 2)[1] \in DOMAIN cncx THEN cncx[Tag(t, 2)[1]] ELSE <<>>,
   fileNumber |-> Value(t, 3, 1),
   startPos |-> IF Len(Tag(t, 6)) >= 2 THEN Value(t, 6, 1) ELSE 0, length |-> Value(t, 6, 2)]
Elems(index) == [i \in DOMAIN index.table |-> Elem(index.table[i].name, index.table[i].tags, index.cncx)]

-----------------------------------------------------------------------------
(* buildMobi8Parts *)
Lt == 60
Gt == 62
\* A tag with an aid is written with this byte, then the aid, here.
AidAttribute == 64

First(s, c) == Min({i \in DOMAIN s : s[i] = c} \cup {Len(s) + 1}) % (Len(s) + 1)
LastOf(s, c) == Max({i \in DOMAIN s : s[i] = c} \cup {0})
Clamp(v, high) == Max({0, Min({v, high})})

\* A position between these two would be inside a tag.
InsideTag(head, tail) == First(tail, Gt) < First(tail, Lt) \/ LastOf(head, Gt) < LastOf(head, Lt)

\* "...[@aid='v']" or the aid alone.
AidText(toc) == IF Len(toc) > 14 THEN SubSeq(toc, 13, Len(toc) - 2) ELSE toc

\* Where the tags with that aid end.
EndsWithTag(ml, tag, i) == i >= Len(tag) /\ SubSeq(ml, i - Len(tag) + 1, i) = tag
AidTags(ml, aid) == {i \in DOMAIN ml : EndsWithTag(ml, <<Lt, AidAttribute>> \o aid \o <<Gt>>, i)}

PutIn(s, at, part) == SubSeq(s, 1, at) \o part \o SubSeq(s, at + 1, Len(s))

\* Where a piece goes: not inside a tag, if the tag with the aid can be found.
Place(skeleton, given, aid, e) ==
  IF /\ aid # <<>> /\ AidTags(skeleton, aid) # {}
     /\ InsideTag(SubSeq(skeleton, 1, given), SubSeq(skeleton, given + 1, Len(skeleton)))
  THEN Clamp(Min(AidTags(skeleton, aid)) + e.startPos, Len(skeleton)) ELSE given

\* One piece of the text, in its place in what the skeleton has become.
InsertDiv(text, skelPos, aid, acc, e) ==
  [skeleton |-> PutIn(acc.skeleton,
                         Place(acc.skeleton, Clamp(e.insertPos - skelPos, Len(acc.skeleton)), aid, e),
                         SubSeq(text, acc.base + 1, Min({acc.base + e.length, Len(text)}))),
   base |-> acc.base + e.length]

AidOf(divs) == IF divs = <<>> THEN <<>> ELSE AidText(divs[1].tocText)
Built(text, skelPos, base, divs) ==
  FoldLeft(LAMBDA acc, e : InsertDiv(text, skelPos, AidOf(divs), acc, e),
           [skeleton |-> SubSeq(text, skelPos + 1, base), base |-> base], divs).skeleton
NameOf(f, divs) ==
  IF f.divCount < 1 THEN "empty-" \o ToString(f.num) \o ".html"
  ELSE PartName(IF divs = <<>> THEN f.num ELSE divs[1].fileNumber)

\* One skeleton and the next divCount pieces.
AddPartOf(text, acc, f, divs) ==
  [divPtr |-> acc.divPtr + Len(divs),
   parts |-> Append(acc.parts, HtmlResource(NameOf(f, divs),
               Built(text, Min({f.start, Len(text)}), Min({f.start + f.length, Len(text)}), divs)))]
AddPart(text, elems, acc, f) ==
  AddPartOf(text, acc, f, SubSeq(elems, acc.divPtr + 1, Min({acc.divPtr + f.divCount, Len(elems)})))

FlowZero(raw, flows) ==
  IF flows = <<>> THEN raw
  ELSE SubSeq(raw, Min({flows[1][1], flows[1][2], Len(raw)}) + 1, Min({flows[1][2], Len(raw)}))

BuildMobi8Parts(text, files, elems) ==
  IF files = <<>> THEN <<HtmlResource(Part0, text)>>
  ELSE FoldLeft(LAMBDA acc, f : AddPart(text, elems, acc, f), [divPtr |-> 0, parts |-> <<>>], files).parts

-----------------------------------------------------------------------------
(* contentMobi8: all of it when the book is read, whatever its size. *)
IsMobi8(doc) == doc.joint \/ (doc.m.version = 8 /\ (doc.m.skel # NullIndex \/ doc.m.div # NullIndex))
Kf8(doc) == IF doc.joint THEN doc.kf8 ELSE doc.m
Kf8Base(doc) == IF doc.joint THEN KF8HeaderIndex(doc.m) ELSE 0

Mobi8Raw(doc) ==
  IF ~doc.joint /\ doc.m.version # 8 THEN Fail("parse") ELSE ExtractText(Kf8(doc), Kf8Base(doc) + 1, -1)

NoIndex == [err |-> "", table |-> <<>>, cncx |-> <<>>]
Content(err, resources) == [err |-> err, resources |-> resources]

IndexAt(base, i) == IF i = NullIndex \/ base + i >= NumRecords THEN NoIndex ELSE ReadIndex(base, i)

\* Broken indexes leave the text as it is, flows and all.
Parts(raw, flows, skel, div) ==
  IF flows.err # "" \/ skel.err # "" \/ div.err # "" THEN <<HtmlResource(Part0, raw)>>
  ELSE BuildMobi8Parts(FlowZero(raw, flows.data), SkeletonFiles(skel), Elems(div))
PartsIn(base, kf8, raw) == Parts(raw, Flows(base, kf8.fdst), IndexAt(base, kf8.skel), IndexAt(base, kf8.div))

WithinLimit(parts) ==
  IF \E i \in DOMAIN parts : Len(parts[i].data) > file.maxResource THEN Content("limit", <<>>) ELSE Content("", parts)
ContentFrom(doc, raw) ==
  IF raw.err # "" THEN Content(raw.err, <<>>)
  ELSE IF raw.data = <<>> THEN Content("empty", <<>>)
  ELSE IF \E i \in Records : Data(i).err # "" THEN Content("read", <<>>)
  ELSE WithinLimit(PartsIn(Kf8Base(doc), Kf8(doc), raw.data))
ContentMobi8(doc) == ContentFrom(doc, Mobi8Raw(doc))

NoMobi6Text(doc) == doc.m.textRecordCount = 0 \/ NumRecords <= 1
Mobi6Content(doc) == IF NoMobi6Text(doc) THEN <<>> ELSE <<Res("index.html", "text")>>

\* Seeded bug: a part that is too large sends the reader back to the old text.
FallsBackOnLimit(doc, e) == file.fallback /\ doc.joint /\ ~NoMobi6Text(doc)

\* A failure leads to the old text only where both are there.
FallsBack(doc, e) == file.fallback /\ doc.joint /\ ~NoMobi6Text(doc) /\ e # "limit"

\* content: the parts, or the text of the MOBI6 rendering.
Mobi8Content(doc, kf8) ==
  IF kf8.err = "" THEN kf8.resources
  ELSE IF FallsBack(doc, kf8.err) THEN Mobi6Content(doc) ELSE <<FailingResource(Part0, kf8.err)>>
BookContent(doc) == IF IsMobi8(doc) THEN Mobi8Content(doc, ContentMobi8(doc)) ELSE Mobi6Content(doc)

-----------------------------------------------------------------------------
Probe == 8
MagicAt(slice) == IF slice.err = "" THEN ImageExt(slice.data) ELSE ""

\* cover: its first bytes are read past the limits where the record exceeds them.
LargeCover(i, ext) ==
  IF Length(i) <= Min({file.maxResource, file.maxRecord}) THEN None
  ELSE Image("cover." \o (IF ext # "" THEN ext ELSE "bin"), i)
CoverAt(i, ext) == IF ext # "" THEN Image("cover." \o ext, i) ELSE LargeCover(i, MagicAt(ReadAt(Offset(i), Probe)))
CoverRecord(i) ==
  IF i = 0 \/ i >= NumRecords \/ Length(i) = 0 THEN None ELSE CoverAt(i, MagicAt(DataSlice(i, Probe)))
CoverImage(doc) == CoverRecord(CoverRecordIdx(doc))

\* imageResources: every image from the first image record on.
FirstImage(doc) ==
  IF doc.joint /\ doc.kf8.kf8FirstImage # 0 /\ ~NoImages(doc.kf8.firstImage) THEN doc.kf8.kf8FirstImage
  ELSE doc.m.firstImage

LastImage(declared) == IF declared = 0 \/ declared >= NumRecords THEN NumRecords - 1 ELSE declared

\* The records that are probed.  One that holds no picture gives nothing, whether
\* it can be read or not, and is passed over here.
HoldsPicture(i) == Length(i) > 0 /\ ImageExt(SubSeq(file.bytes, Offset(i) + 1, Offset(i) + 1)) # ""
ImageRecords(doc) ==
  IF NoImages(FirstImage(doc)) THEN <<>>
  ELSE SelectSeq(AllRecords, LAMBDA i : i \in FirstImage(doc)..LastImage(doc.m.lastContent) /\ HoldsPicture(i))

\* The picture of a record, none when the probe fails.
ImageOf(i, ext) == IF ext = "" THEN <<>> ELSE <<Image("images/" \o ToString(i) \o "." \o ext, i)>>
ImageIn(i) == ImageOf(i, MagicAt(DataSlice(i, Probe)))

\* Resources of a name that is already there are left out.
Merge(all, more) ==
  FoldLeft(LAMBDA s, r : IF \E i \in DOMAIN s : s[i].name = r.name THEN s ELSE Append(s, r), all, more)

\* The cover is the image of its record, if that is one.
SameImage(cover, images) ==
  IF cover # None /\ \E i \in DOMAIN images : images[i].record = cover.record
  THEN images[CHOOSE i \in DOMAIN images : images[i].record = cover.record] ELSE cover
Volume(doc, metadata, content, images, cover) ==
  [read |-> TRUE, doc |-> doc, metadata |-> metadata, order |-> content, cover |-> cover,
   all |-> Merge(Merge(<<>>, content \o images), IF cover = None THEN <<>> ELSE <<cover>>)]
Book(doc, metadata, content, images, cover) == Volume(doc, metadata, content, images, SameImage(cover, images))

Metadata(doc) ==
  [title |-> Declared(doc, "title"), authors |-> Authors(doc), description |-> Declared(doc, "description"),
   subjects |-> Subjects(doc), language |-> Declared(doc, "language"), identifiers |-> Identifiers(doc),
   publisher |-> Declared(doc, "publisher"), date |-> Declared(doc, "date"), version |-> Version(doc)]


\* readPalmDoc: the metadata are those of the markup the text begins with.
PalmDocTitle(prefix) ==
  IF IsPalmDocHtml(prefix) /\ Holds(prefix, MetadataEnd) /\ file.oebTitle # NoText THEN file.oebTitle ELSE file.name
PalmDocVolume(doc, prefix) ==
  Volume(doc, [title |-> PalmDocTitle(prefix)],
         <<Res(IF IsPalmDocHtml(prefix) THEN "index.html" ELSE "index.txt", "palmdoc")>>, <<>>, None)
PalmDocHeader ==
  IF NumRecords = 0 \/ Data(0).err # "" \/ Len(Data(0).data) < PalmDocHeaderSize THEN BadHeader("parse")
  ELSE [Mobi(file.headers[0], <<>>, NoExth) EXCEPT !.encoding = "cp1252", !.version = 1]
=============================================================================
