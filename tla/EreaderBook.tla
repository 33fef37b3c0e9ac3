---------------------------- MODULE EreaderBook ----------------------------
(***************************************************************************)
(* eReader books (ereader/content.go, reader.go): pages of PML text, the   *)
(* pages of footnotes and sidebars, images that carry their names.  Two    *)
(* kinds of file, dropbook and makebook, told apart by the length of       *)
(* record 0; file.ereader has the fields of that record.                   *)
(***************************************************************************)
EXTENDS MobiBook, Bitwise

CONSTANTS
  HeaderSizeDropbook,               \* 132 bytes in the code
  MakebookHeader, MakebookCounted,  \* what a makebook header has, 10 bytes, and with a count of images, 118
  ImageHeaderSize, ImageProbeSize,  \* 62 and 70 in the code
  ImageNames                        \* by their byte: a name, its extension and whether it is cover.png

IsDropbook == Length(0) = HeaderSizeDropbook
DRMCompressions == {260, 272}

\* parseHeader; a count includes a record of another kind, which is left out.
EreaderHeader ==
  LET h == file.ereader
      notes(first, count) == [first |-> Max({first + 1, 2}), count |-> Max({count - 1, 0})]
  IN IF IsDropbook
     THEN [dropbook |-> TRUE, compression |-> h.compression, textCount |-> Max({h.textCount - 1, 0}),
           imageFirst |-> h.imageFirst, imageCount |-> h.imageCount,
           footnotes |-> notes(h.footnoteFirst, h.footnoteCount), sidebars |-> notes(h.sidebarFirst, h.sidebarCount),
           metadata |-> IF h.hasMetadata THEN h.metadataIndex ELSE 0]
     ELSE [dropbook |-> FALSE, compression |-> 0, textCount |-> Max({h.textCount - 1, 0}), imageFirst |-> 0,
           imageCount |-> IF Length(0) >= MakebookCounted THEN h.imageCount ELSE -1,
           footnotes |-> notes(0, 0), sidebars |-> notes(0, 0), metadata |-> 0]

PageRange(first, count, total) == [k \in 1..Max({Min({first + count, total}) - first, 0}) |-> first + k - 1]

Pages(name, pages) == Res(name, "pages") @@ [pages |-> pages]

-----------------------------------------------------------------------------
\* A zlib stream is its payload behind this byte here.
ZlibStream == 120

DecompressPage(h, data, remain) ==
  CASE ~h.dropbook       -> DecompressPalmDoc([i \in DOMAIN data |-> data[i] ^^ 165], remain)
    [] h.dropbook /\ h.compression = 2  -> DecompressPalmDoc(data, remain)
    [] h.dropbook /\ h.compression = 10 -> IF data = <<>> \/ data[1] # ZlibStream THEN Fail("zlib")
                          ELSE IF Exceeds(Len(data) - 1, remain) THEN Fail("limit") ELSE Ok(Tail(data))
    [] OTHER             -> Fail("parse")

\* The records are weighed before any is read, and their text as it comes.
ExtractPages(pages) ==
  LET h == EreaderHeader
      add(acc, i) ==
        LET page == DecompressPage(h, Data(i).data, RemainingBudget(file.maxResource, Len(acc.data))) IN
          IF acc.err # "" THEN acc ELSE IF Data(i).err # "" THEN Data(i)
          ELSE IF page.err # "" THEN page
          ELSE IF Len(acc.data) + Len(page.data) > file.maxResource THEN Fail("limit")
          ELSE Ok(acc.data \o page.data)
  IN IF MapThenSumSet(LAMBDA k : Length(pages[k]), DOMAIN pages) > file.maxResource THEN Fail("limit")
     ELSE FoldLeft(add, Ok(<<>>), pages)

-----------------------------------------------------------------------------
\* An image: its mark, its name, and after the header the picture.
ImageMark == 80

EreaderImage(i) ==
  LET raw == ReadAt(Offset(i), ImageProbeSize)
      name == ImageNames[raw.data[2]]
  IN IF i = 0 \/ Length(i) < ImageProbeSize \/ raw.err # "" \/ Len(raw.data) < ImageProbeSize THEN None
     ELSE IF raw.data[1] # ImageMark \/ raw.data[2] \notin DOMAIN ImageNames THEN None
     ELSE IF ImageExt(SubSeq(raw.data, ImageHeaderSize + 1, ImageProbeSize)) = "" /\ name.ext = "" THEN None
     ELSE [Image("images/" \o name.name, i) EXCEPT !.open = "picture"]

\* The records that are probed: in a dropbook those its header names, else what
\* there is behind the text.  Records without the mark are passed over here.
EreaderImageRecords ==
  LET h == EreaderHeader
      range == IF h.dropbook THEN PageRange(h.imageFirst, h.imageCount, NumRecords)
               ELSE PageRange(h.textCount + 1, NumRecords, NumRecords)
  IN SelectSeq(range, LAMBDA i : Offset(i) < Size /\ file.bytes[Offset(i) + 1] = ImageMark)

\* What is left of them: none, once there are as many images as the header says.
Unprobed(images, records) ==
  LET h == EreaderHeader IN
    IF ~h.dropbook /\ h.imageCount \in 0..Len(images) THEN <<>> ELSE records

\* readMetadata: fields between NULs.
EreaderMetadata ==
  LET h == EreaderHeader
      fields == file.ereaderFields
      field(k) == IF k \in DOMAIN fields THEN fields[k] ELSE NoText
      present == h.metadata > 0 /\ h.metadata < NumRecords
  IN IF ~present \/ Data(h.metadata).err # ""
     THEN [title |-> file.name, author |-> NoText, publisher |-> NoText, isbn |-> NoText]
     ELSE [title |-> FirstOf(<<field(1), file.name>>), author |-> field(2), publisher |-> field(4), isbn |-> field(5)]

CoverNames == {"images/" \o ImageNames[b].name : b \in {b \in DOMAIN ImageNames : ImageNames[b].cover}}

\* parseHeader's own errors.
EreaderHeaderError ==
  IF NumRecords = 0 THEN "corrupt"
  ELSE IF Data(0).err # "" \/ (IsDropbook /\ Len(Data(0).data) < HeaderSizeDropbook) \/ Len(Data(0).data) < MakebookHeader
       THEN "corrupt"
  ELSE IF IsDropbook /\ EreaderHeader.compression \in DRMCompressions THEN "drm" ELSE ""

EreaderVolume(metadata, images) ==
  LET h == EreaderHeader
      text == Pages("index.pml", PageRange(1, h.textCount, NumRecords))
      notes(name, range) ==
        LET pages == PageRange(range.first, range.count, NumRecords) IN
          IF ~h.dropbook \/ pages = <<>> THEN <<>> ELSE <<Pages(name, pages)>>
      order == <<text>> \o notes("footnotes.pml", h.footnotes) \o notes("sidebars.pml", h.sidebars)
      covers == SelectSeq(images, LAMBDA r : r.name \in CoverNames)
  IN [read |-> TRUE, doc |-> <<>>, metadata |-> metadata, order |-> order, all |-> order \o images,
      cover |-> IF covers = <<>> THEN None ELSE covers[1]]
=============================================================================
