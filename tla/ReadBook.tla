------------------------------ MODULE ReadBook ------------------------------
(***************************************************************************)
(* A client of the library: ReadFromBlob picks a reader by the contents of *)
(* the Blob (api.go, registry.go), the reader reads the book, and the      *)
(* client opens its resources, in any order and as often as it likes.  The *)
(* Blob may go away and come back at any moment, also between two records  *)
(* that the reader reads; what it does without one is in missed.           *)
(*                                                                         *)
(* Books are made here by an encoder, so a file has with it what it was    *)
(* made from: file.truth.                                                  *)
(***************************************************************************)
EXTENDS EreaderBook

CONSTANTS
  Files,            \* a sequence of families of files
  DefaultResource, DefaultRecord, DefaultExth   \* DefaultConfig

VARIABLES
  reader,   \* the reader chosen for the Blob
  reading,  \* how far Read has come, and what it has so far
  missed,   \* history: what Read looked for while the Blob was away, as pairs of a purpose and a record
  result,   \* what ReadFromBlob returned, an error or "", and whether the Blob was away then
  book,     \* the book it returned
  opened    \* the resource opened last, what opening and reading it gave, and
            \* whether the Blob was away then

vars == <<file, gone, reader, reading, missed, result, book, opened>>

Idle == [stage |-> "idle"]
NoBook == [read |-> FALSE, doc |-> <<>>, metadata |-> <<>>, order |-> <<>>, all |-> <<>>, cover |-> None]
Returned(e) == [err |-> e, away |-> gone]
NotOpened == [resource |-> None, err |-> "", data |-> <<>>, away |-> FALSE]

\* Config.Normalize, of the limits the client set.
Limit(given, default) == IF given <= 0 THEN default ELSE given
Normalize(f) ==
  [f EXCEPT !.maxResource = Limit(@, DefaultResource), !.maxRecord = Limit(@, DefaultRecord),
            !.maxExth = Limit(@, DefaultExth)]

Init ==
  /\ \E i \in DOMAIN Files : \E f \in Files[i] : file = Normalize(f)
  /\ gone = FALSE
  /\ reader = "" /\ reading = Idle /\ missed = {}
  /\ result = Returned("") /\ book = NoBook /\ opened = NotOpened

-----------------------------------------------------------------------------
Readers == <<"mobi", "ereader", "epub", "fb3", "fb2", "lit", "chm", "lrf">>

IdentEnd == 68

\* By the type and the creator, or by what other readers look for; a Blob that
\* cannot be read has no format.
Supports(r) ==
  /\ ~gone
  /\ r \in file.claims \/ (r = "mobi" /\ file.ident \in {"mobi", "palmdoc"} /\ Size >= IdentEnd)
                       \/ (r = "ereader" /\ file.ident = "ereader" /\ Size >= IdentEnd)

ReaderForBlob ==
  /\ reader = "" /\ ~book.read
  /\ \/ \E k \in DOMAIN Readers :
          /\ Supports(Readers[k]) /\ \A j \in 1..k - 1 : ~Supports(Readers[j])
          /\ reader' = Readers[k] /\ result' = Returned("")
     \/ /\ \A k \in DOMAIN Readers : ~Supports(Readers[k])
        /\ reader' = "" /\ result' = Returned("unsupported")
  /\ UNCHANGED <<file, gone, reading, missed, book, opened>>

-----------------------------------------------------------------------------
(* Read, one look at the Blob a step: it goes on, fails, or returns the book. *)
At(stage) == reading.stage = stage
GoOn(to) == reading' = to /\ UNCHANGED <<file, gone, reader, result, book, opened>>
GoOnWith(stage, found) == GoOn(found @@ [reading EXCEPT !.stage = stage])
FailRead(e) ==
  reading' = Idle /\ reader' = "" /\ result' = Returned(e) /\ UNCHANGED <<file, gone, book, opened>>
ReturnBook(b) ==
  reading' = Idle /\ book' = b /\ UNCHANGED <<file, gone, reader, result, opened>>

Miss(looks) == missed' = IF gone THEN missed \cup looks ELSE missed

ReadPdbDb ==
  /\ reader \in {"mobi", "ereader"} /\ ~book.read /\ At("idle")
  /\ missed' = {}
  /\ IF PdbError # "" THEN FailRead("corrupt") ELSE GoOnWith("header", <<>>)

(* MobiReader.Read, and ReadMobi in it. *)
CheckDRM(doc) == IF IsDRMProtected(doc) THEN FailRead("drm") ELSE GoOnWith("cover", [doc |-> doc])

ReadRecord0 ==
  /\ At("header") /\ reader = "mobi" /\ file.ident # "palmdoc" /\ UNCHANGED missed
  /\ LET m == MobiHeader0 IN
       IF m.err # "" THEN FailRead("parse")
       ELSE IF MayBeJoint(m) THEN GoOnWith("boundary", [m |-> m]) ELSE CheckDRM(Single(m))

ReadBoundary ==
  /\ At("boundary") /\ Miss({<<"boundary", KF8HeaderIndex(reading.m) - 1>>})
  /\ IF HasBoundary(reading.m) THEN GoOnWith("kf8", <<>>) ELSE CheckDRM(Single(reading.m))

ReadKf8Header ==
  /\ At("kf8") /\ UNCHANGED missed
  /\ LET idx == KF8HeaderIndex(reading.m)
         kf8 == HeaderIn(idx)
     IN IF kf8.err # "" THEN FailRead("parse") ELSE CheckDRM(Joint(reading.m, idx, kf8))

ReadCover ==
  /\ At("cover") /\ Miss({<<"cover", CoverRecordIdx(reading.doc)>>} \ {<<"cover", 0>>})
  /\ GoOnWith("content", [cover |-> CoverImage(reading.doc)])

\* KF8 content is read now, and a text of MOBI6 when it is opened.  Wherever its
\* reading is cut off, it fails alike.
ReadContent ==
  /\ At("content") /\ Miss(IF IsMobi8(reading.doc) THEN {<<"content", Kf8Base(reading.doc)>>} ELSE {})
  /\ GoOnWith("images", [content |-> BookContent(reading.doc), images |-> <<>>, left |-> ImageRecords(reading.doc)])

\* Seeded bug: a picture whose probe fails is the last.
ReadImageOrStop ==
  /\ At("images") /\ reader = "mobi" /\ reading.left # <<>>
  /\ LET i == Head(reading.left) IN
       /\ Miss({<<"image", i>>})
       /\ GoOn([reading EXCEPT !.images = @ \o ImageIn(i), !.left = IF ImageIn(i) = <<>> THEN <<>> ELSE Tail(@)])

ReadImage ==
  /\ At("images") /\ reader = "mobi" /\ reading.left # <<>>
  /\ LET i == Head(reading.left) IN
       Miss({<<"image", i>>}) /\ GoOn([reading EXCEPT !.images = @ \o ImageIn(i), !.left = Tail(@)])

ReturnMobi ==
  /\ At("images") /\ reader = "mobi" /\ reading.left = <<>> /\ UNCHANGED missed
  /\ ReturnBook(Book(reading.doc, Metadata(reading.doc), reading.content, reading.images, reading.cover))

(* readPalmDoc. *)
ReadPalmDocHeader ==
  /\ At("header") /\ reader = "mobi" /\ file.ident = "palmdoc" /\ UNCHANGED missed
  /\ LET m == PalmDocHeader IN
       IF m.err # "" THEN FailRead("parse")
       ELSE IF m.encryption # 0 THEN FailRead("drm")
       ELSE GoOnWith("prefix", [doc |-> Single(m), prefix |-> NoPrefix, left |-> PrefixRecords(m)])

ReadPrefix ==
  /\ At("prefix") /\ reading.left # <<>>
  /\ LET i == Head(reading.left)
         prefix == AddToPrefix(reading.doc.m, reading.prefix, i)
     IN /\ Miss({<<"prefix", i>>})
        /\ GoOn([reading EXCEPT !.prefix = prefix, !.left = IF PrefixEnds(prefix) THEN <<>> ELSE Tail(@)])

ReturnPalmDoc ==
  /\ At("prefix") /\ reading.left = <<>> /\ UNCHANGED missed
  /\ ReturnBook(PalmDocVolume(reading.doc, Capped(reading.prefix.data)))

(* EreaderReader.Read. *)
ReadEreaderHeader ==
  /\ At("header") /\ reader = "ereader" /\ UNCHANGED missed
  /\ IF EreaderHeaderError # "" THEN FailRead(EreaderHeaderError)
     ELSE GoOnWith("images", [images |-> <<>>, left |-> Unprobed(<<>>, EreaderImageRecords)])

ReadEreaderImage ==
  /\ At("images") /\ reader = "ereader" /\ reading.left # <<>>
  /\ LET i == Head(reading.left)
         images == reading.images \o SelectSeq(<<EreaderImage(i)>>, LAMBDA r : r # None)
     IN /\ Miss({<<"image", i>>})
        /\ GoOn([reading EXCEPT !.images = images, !.left = Unprobed(images, Tail(@))])

ReadEreaderMetadata ==
  /\ At("images") /\ reader = "ereader" /\ reading.left = <<>>
  /\ Miss({<<"metadata", EreaderHeader.metadata>>} \ {<<"metadata", 0>>})
  /\ ReturnBook(EreaderVolume(EreaderMetadata, reading.images))

-----------------------------------------------------------------------------
Served(r) ==
  CASE r.open = "bytes"   -> Ok(r.data)
    [] r.open = "fail"    -> Fail(r.err)
    [] r.open = "text"    -> ExtractText(book.doc.m, 1, file.maxResource)
    [] r.open = "palmdoc" -> PalmDocText(book.doc.m, file.maxResource)
    [] r.open = "pages"   -> ExtractPages(r.pages)
    [] r.open = "record"  -> OpenSection(Offset(r.record), Length(r.record))
    [] r.open = "picture" -> OpenSection(Offset(r.record) + ImageHeaderSize, Length(r.record) - ImageHeaderSize)

Open(r) ==
  /\ opened' = [resource |-> r, away |-> gone] @@ Served(r)
  /\ UNCHANGED <<file, gone, reader, reading, missed, result, book>>

Lose == ~gone /\ gone' = TRUE /\ UNCHANGED <<file, reader, reading, missed, result, book, opened>>
Restore == gone /\ gone' = FALSE /\ UNCHANGED <<file, reader, reading, missed, result, book, opened>>

ReadMobi == ReadRecord0 \/ ReadBoundary \/ ReadKf8Header \/ ReadCover \/ ReadContent \/ ReadImage \/ ReturnMobi
ReadPalmDoc == ReadPalmDocHeader \/ ReadPrefix \/ ReturnPalmDoc
ReadEreader == ReadEreaderHeader \/ ReadEreaderImage \/ ReadEreaderMetadata

Next ==
  \/ ReaderForBlob \/ ReadPdbDb \/ ReadMobi \/ ReadPalmDoc \/ ReadEreader
  \/ Lose \/ Restore
  \/ \E k \in DOMAIN book.all : Open(book.all[k])

Spec == Init /\ [][Next]_vars

-----------------------------------------------------------------------------
OpenedText == opened.resource \in ToSet(book.order)
TrueTexts == file.truth.texts

\* Too large: of a KF8 book any part, else the text before its padding is cut
\* off, or in an eReader book what is stored of it.
OverLimit(r) ==
  IF r.open \in {"bytes", "fail"}
  THEN \E p \in ToSet(file.truth.kf8) \cap DOMAIN TrueTexts : Len(TrueTexts[p].text) > file.maxResource
  ELSE Len(TrueTexts[r.name].raw) > file.maxResource \/ TrueTexts[r.name].stored > file.maxResource

\* The records Read looked for to that purpose while the Blob was away.
MissedFor(what) == {look[2] : look \in {look \in missed : look[1] = what}}

(* Whatever encodes a text and however it is cut into records, Open gives it back
   byte for byte, or fails: with the limit exactly when the text exceeds it, and
   otherwise only when the Blob, or the place of a record in it, cannot be read.
   A failed Open takes nothing from later ones.  KF8 content is read by Read, so
   what fails then, and only that, fails each Open, with the Blob back too
   (reader.go:324-336). *)
TextFaithful ==
  OpenedText =>
    LET r == opened.resource IN
      CASE r.open = "fail" /\ MissedFor("content") # {} -> opened.err = "read" \/ ~file.truth.sound
        [] opened.err \in {"read", "long"} -> (opened.away /\ r.open \notin {"bytes", "fail"}) \/ ~file.truth.readable
        [] OTHER -> IF OverLimit(r) THEN opened.err = "limit"
                    ELSE IF r.name \notin DOMAIN TrueTexts THEN opened.err \notin {"", "limit"}
                    ELSE opened.err = "" /\ opened.data = TrueTexts[r.name].text

\* The one half of a file with two is read, for the other could not be found.
Halved == MissedFor("boundary") # {}

(* A book that can be read is read, one that is protected never.  The reading
   order is that of the newest rendering the file has; of a file with two, the
   old one is served only if the client permits it and the new one cannot be
   read, never because it is too large (reader.go:306-308, 325).
   With one exception: a BOUNDARY record that cannot be read is taken for none,
   and the file for one with the old rendering only, which is then served without
   the client's leave (mobi.go:133-134).  What a PalmDOC text is called is settled
   by its beginning, if that can be read. *)
RenderingRight ==
  /\ result.err # "" => result.away \/ ~file.truth.readable \/ file.truth.protected # {}
  /\ book.read =>
    LET names == [k \in DOMAIN book.order |-> book.order[k].name]
        t == file.truth
        large == t.kf8 # <<>> /\ \E p \in ToSet(t.kf8) : p \in DOMAIN t.texts /\ Len(t.texts[p].text) > file.maxResource
    IN /\ IF Halved THEN "old" \notin t.protected ELSE t.protected = {}
       /\ names = IF 0 \in MissedFor("prefix") THEN <<"index.txt">>
                  ELSE IF t.kf8 = <<>> \/ Halved THEN t.order
                  ELSE IF t.sound /\ t.readable /\ MissedFor("content") = {} THEN IF large THEN <<Part0>> ELSE t.kf8
                  ELSE IF file.fallback /\ t.order # <<>> THEN t.order ELSE <<Part0>>

(* Every picture is one resource, the cover too, though it is found on its own;
   nothing else is a picture, and it opens as the bytes of its record.  One is
   left out only if the Blob was away when that record was probed, or its
   beginning cannot be read at all. *)
ImagesOnce ==
  /\ book.read =>
       LET of(i) == {k \in DOMAIN book.all : book.all[k].record = i}
           t == file.truth
           probed(i, what) == i \notin t.lost \cup MissedFor(what)
       IN /\ \A i \in Records : Cardinality(of(i)) <= 1 \/ i = 0
          /\ \A k \in DOMAIN book.all : \/ book.all[k].record \in {0} \cup DOMAIN t.pictures
                                         \/ (t.joint /\ book.all[k] = book.cover)
          /\ ~t.joint \/ Halved =>
               /\ \A i \in DOMAIN t.pictures : probed(i, IF i \in t.unlisted THEN "cover" ELSE "image") => of(i) # {}
               /\ (IF reader = "mobi" THEN probed(t.cover, "cover") ELSE probed(t.cover, "image"))
                    => book.cover.record = t.cover
  /\ opened.resource.record \in DOMAIN file.truth.pictures /\ ~opened.away /\ file.truth.readable =>
       LET picture == file.truth.pictures[opened.resource.record] IN
         IF Len(picture) > Min({file.maxResource, file.maxRecord}) THEN opened.err = "limit"
         ELSE opened.err = "" /\ opened.data = picture

(* The metadata are what the file says, in the KF8 header where that says it; and
   what remains of them, the old header's or the name of the database, only if the
   Blob was away when the record that says more was read. *)
MetadataFaithful ==
  book.read =>
    book.metadata = IF Halved \/ MissedFor("prefix") \cup MissedFor("metadata") # {} THEN file.truth.remaining
                    ELSE file.truth.metadata

(* CoverRecordIdx, whose comment is "the record index of the cover image, or 0 if
   none" (mobi.go:456), in a file with both renderings that could be read. *)
JointCoverRight == book.read /\ missed = {} => book.cover.record = file.truth.cover
=============================================================================
