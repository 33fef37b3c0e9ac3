------------------------------ MODULE MCEpubBook ------------------------------
(***************************************************************************)
(* Archives around one package: its manifests and spines, its DRM files,   *)
(* its metadata; and direct calls of NewResourceSet with shared, nil and   *)
(* foreign pointers.                                                       *)
(***************************************************************************)
EXTENDS EpubBook

UpTo(S, n) == UNION {[1..k -> S] : k \in 0..n}
At(folder, file, tail) == [folder |-> folder, file |-> file, tail |-> tail, dotted |-> FALSE]
Dotted(h) == [h EXCEPT !.dotted = TRUE]
MCDup(id, n) == id \o "__dup" \o ToString(n)
MCLabels == {"", " ", "utf-8", "UTF8", "cp1251", "windows-1251", "binary"}
MCCanonical == [l \in MCLabels |-> CASE l = "UTF8" -> "utf-8" [] l = " " -> ""
                                     [] l = "cp1251" -> "windows-1251" [] OTHER -> l]
MCContainerXml == At("META-INF", "container.xml", "")
MCEncryptionXml == At("META-INF", "encryption.xml", "")
MCRightsXml == At("", "rights.xml", "")
Opf == At("OEBPS", "content.opf", "")

MCWords == {"", "aut", "AUT", "ill", "Ann", "Bob", "one", "two", "publication", "Publication", "creation",
  "belongs-to-collection", "collection-type", "group-position", "identifier-type", "series", "set",
  "calibre:series", "calibre:series_index", "c1", "c2", "ONIX:codelist5", "onix:codelist5",
  "15", "06", "99", "isbn", "ISBN-13", "ISBN", "doi", "DOI", "local", "URL"}
MCLower == [w \in MCWords |-> CASE w = "AUT" -> "aut" [] w = "Publication" -> "publication"
  [] w = "ONIX:codelist5" -> "onix:codelist5" [] w \in {"ISBN"} -> "isbn"
  [] w = "DOI" -> "doi" [] OTHER -> w]
MCSchemeLabel == [w \in MCWords |-> CASE w \in {"isbn", "ISBN-13", "ISBN"} -> "ISBN"
  [] w \in {"doi", "DOI"} -> "DOI" [] OTHER -> w]

W(v) == Text(v, FALSE)
Padded(v) == Text(v, TRUE)

NoGroup == [titles |-> <<>>, creators |-> <<>>, descriptions |-> <<>>, subjects |-> <<>>,
  languages |-> <<>>, identifiers |-> <<>>, sources |-> <<>>, publishers |-> <<>>, dates |-> <<>>]
NoMetadata == [direct |-> NoGroup, wrapped |-> NoGroup, capitals |-> <<>>,
               metas |-> <<>>, wrappedMetas |-> <<>>]
Meta == [id |-> W(""), refines |-> W(""), property |-> W(""), name |-> W(""),
         content |-> W(""), scheme |-> W(""), value |-> W("")]
NamedMeta(name, content) == [Meta EXCEPT !.name = name, !.content = content]
Collection(id, value) == [Meta EXCEPT !.id = W(id), !.property = W("belongs-to-collection"), !.value = value]
Refine(id, property, value) == [Meta EXCEPT !.refines = Padded(id), !.property = W(property), !.value = W(value)]

PackageOf(items, refs, m) == [path |-> NoHref, items |-> items, itemRefs |-> refs, metadata |-> m]
Item(id, href, media, properties) ==
  [id |-> id, href |-> href, media |-> media, properties |-> properties]
Ref(id, linear) == [idRef |-> id, linear |-> linear]

E0 == [name |-> NoHref, readable |-> TRUE, kind |-> "document", rootfiles |-> <<>>, package |-> NoPackage,
       blank |-> FALSE, algorithms |-> {}, empty |-> FALSE, markup |-> TRUE, declared |-> ""]
Doc(name) == [E0 EXCEPT !.name = name]
Rootfiles(rs) == [E0 EXCEPT !.name = MCContainerXml, !.kind = "container", !.rootfiles = rs]
Container == Rootfiles(<<[path |-> At("", "a", ""), oebps |-> FALSE], [path |-> Opf, oebps |-> TRUE]>>)
OpfFile(p) == [E0 EXCEPT !.name = Opf, !.kind = "package", !.package = p]
ArchiveOf(entries) == [zip |-> TRUE, entries |-> entries]

A == At("OEBPS", "a", "")
B == At("OEBPS", "b", "")
Chapters == <<Doc(A), [Doc(B) EXCEPT !.declared = "cp1251"]>>
HashFile == <<[Doc(At("OEBPS", "a", "#f")) EXCEPT !.readable = FALSE]>>

-----------------------------------------------------------------------------
(* Archives are numbered: the digits of a number, in mixed radix, choose among
   the options of each part, so that every combination of options occurs. *)
Nth(options, k) == options[(k % Len(options)) + 1]

(* Manifests of up to three items. *)
Href(file, tail) == At("", file, tail)
Items == << <<>>, <<Item("x", Href("a", ""), "xhtml", "")>>, <<Item("x", Href("b", ""), "xhtml", "nav")>>,
            <<Item("y", Dotted(Href("a", "")), "xhtml", "")>>,
            <<Item("x__dup1", Href("b", ""), "png", "cover-image")>>,
            <<Item("z", Href("a", "#f"), "xhtml", "x-cover-image")>>,
            <<Item("y", Href("c", ""), "png", "cover-image")>>, <<Item("", Dotted(Href("b", "")), "xhtml", "")>> >>
Spines == << <<Ref("x", "")>>, <<Ref("y", "no"), Ref("x", "yes"), Ref("z", "")>>,
             <<Ref("z", ""), Ref("x__dup1", "no"), Ref("lost", "")>> >>
Covers == << <<>>, <<NamedMeta(W("cover"), W("x")), NamedMeta(W("cover"), W("z"))>>,
             <<NamedMeta(Padded("cover"), W("x")), NamedMeta(W("cover"), Padded("x"))>> >>
ManifestArchive(k) ==
  LET items == Nth(Items, k) \o Nth(Items, k \div 8) \o Nth(Items, k \div 64)
      meta == [NoMetadata EXCEPT !.metas = Nth(Covers, k \div 1536)]
  IN ArchiveOf(<<Container, OpfFile(PackageOf(items, Nth(Spines, k \div 512), meta))>>
               \o Chapters \o Nth(<< <<>>, HashFile >>, k \div 4608))

(* Protected archives, and archives that are not books. *)
TwoChapters(href) ==
  OpfFile(PackageOf(<<Item("x", href, "xhtml", ""), Item("y", Href("b", ""), "xhtml", "")>>,
                    <<Ref("x", ""), Ref("y", "")>>, NoMetadata))
Enc == [E0 EXCEPT !.name = MCEncryptionXml, !.kind = "encryption"]
Encryptions == << <<>>, <<Enc>>, <<[Enc EXCEPT !.readable = FALSE]>>, <<[Enc EXCEPT !.kind = "garbage"]>>,
  <<[Enc EXCEPT !.kind = "garbage", !.blank = TRUE]>>, <<[Enc EXCEPT !.algorithms = {"adobe", "idpf"}]>>,
  <<[Enc EXCEPT !.algorithms = {"idpf", "aes"}]>> >>
RightsFile(folder, tail, empty) == [Doc(At(folder, "rights.xml", tail)) EXCEPT !.empty = empty]
Rights == << <<>>, <<RightsFile("", "", FALSE)>>, <<RightsFile("", "", TRUE)>>, <<RightsFile("OEBPS", "", FALSE)>>,
  <<RightsFile("OEBPS", "/", FALSE)>>, <<RightsFile("OEBPS", "", TRUE), RightsFile("", "", FALSE)>> >>
Bodies == << Chapters, <<[Doc(A) EXCEPT !.markup = FALSE], Doc(B)>>, <<[Doc(A) EXCEPT !.readable = FALSE], Doc(B)>>,
             <<Doc(A), [Doc(B) EXCEPT !.markup = FALSE]>>, <<[Doc(B) EXCEPT !.markup = FALSE]>>, <<>> >>
DrmArchive(k) ==
  ArchiveOf(<<Container, TwoChapters(Nth(<<Href("a", ""), Dotted(Href("a", "")), Href("a", "#f")>>, k))>>
            \o Nth(Encryptions, k \div 3) \o Nth(Rights, k \div 21) \o Nth(Bodies, k \div 126))
\* A package in the root whose items point at nothing but a fragment.
RootOpf == At("", "content.opf", "")
Fragments == [OpfFile(PackageOf(<<Item("x", Href("", "#f"), "xhtml", ""), Item("x", Href("", ""), "xhtml", "")>>,
                                <<Ref("x", "")>>, NoMetadata)) EXCEPT !.name = RootOpf]
Broken == << NoArchive, ArchiveOf(<<>>), ArchiveOf(<<[Container EXCEPT !.readable = FALSE]>>),
  ArchiveOf(<<Container>>), ArchiveOf(<<Rootfiles(<<>>), TwoChapters(Href("a", ""))>>),
  ArchiveOf(<<[Container EXCEPT !.kind = "garbage"]>>), ArchiveOf(<<Container, Doc(Opf)>>),
  ArchiveOf(<<Rootfiles(<<[path |-> RootOpf, oebps |-> TRUE]>>), Fragments,
              Doc(At("", "", "#f")), Doc(Here)>>) >>

(* Metadata: ten options for each slot; the parts of a package that do not
   depend on one another share the digits. *)
C(value, role, fileAs) == <<[value |-> value, role |-> role, fileAs |-> fileAs]>>
Creators == << <<>>, C(W("Ann"), W(""), W("Bob")), C(Padded("Ann"), Padded("AUT"), W("")), C(W("Ann"), W("ill"), W("")),
  C(Padded(""), W("aut"), Padded("Bob")), C(W(""), W(""), W("")), C(W("Bob"), W(""), W("")),
  C(W(""), W("ill"), W("Bob")), <<>>, <<>> >>
Date(value, event) == <<[value |-> value, event |-> event]>>
DatesOf == << <<>>, Date(W("one"), W("")), Date(W("two"), Padded("Publication")), Date(Padded("two"), W("")),
  Date(W(""), W("publication")), Date(W("one"), W("creation")), Date(W("one"), W("publication")),
  Date(Padded(""), W("")), Date(W("06"), Padded("")), Date(W("two"), W("creation")) >>
M(meta) == <<meta>>
SeriesMetas == << <<>>, M(Collection("c1", W("one"))), M(Collection("c2", Padded("two"))),
  M(Refine("c1", "collection-type", "series")), M(Refine("c2", "collection-type", "series")),
  M(Refine("c2", "collection-type", "set")), M(Refine("c1", "group-position", "15")),
  M(Refine("c2", "group-position", "99")),
  <<NamedMeta(W("calibre:series"), Padded("")), NamedMeta(W("calibre:series"), W("Ann")),
    NamedMeta(Padded("calibre:series"), W("Bob"))>>,
  <<NamedMeta(W("calibre:series_index"), W("")), NamedMeta(Padded("calibre:series_index"), W("06")),
    NamedMeta(W("calibre:series_index"), W("99"))>> >>
IdType(id, scheme, value) ==
  [Meta EXCEPT !.refines = W(id), !.property = W("identifier-type"), !.scheme = W(scheme), !.value = W(value)]
IdMetas == << <<>>, <<IdType("c1", "ONIX:codelist5", "15"), IdType("c2", "", "doi")>>,
              <<IdType("c1", "onix:codelist5", "99"), IdType("c1", "", "doi"), IdType("c2", "local", "one")>> >>
Id(form, prefix, rest, id, scheme) ==
  <<[value |-> [form |-> form, prefix |-> prefix, rest |-> rest], id |-> id, scheme |-> W(scheme)]>>
IdsOf == << <<>>, Id("plain", "", "one", W("c1"), ""), Id("plain", "", "", W("c1"), "ISBN-13"),
  Id("url", "", "two", W("c2"), "ISBN-13"), Id("urn", "isbn", "15", W("c2"), "ISBN-13"),
  Id("urn", "isbn", "15", W(""), "doi"), Id("scheme", "doi", "06", Padded("c1"), ""),
  Id("scheme", "ISBN-13", "", W("c1"), ""), Id("scheme", "doi", "06", W("c2"), ""), Id("badurn", "", "99", W("c1"), "") >>
Texts == << <<>>, <<W("")>>, <<Padded("two")>>, <<W("Ann")>>, <<Padded(""), W("Ann")>>, <<>>, <<W("one"), W("two")>>,
            <<>>, <<Padded("")>>, <<W("one")>> >>
GroupOf(i, j) ==
  LET texts == Nth(Texts, i) IN
  [titles |-> texts, creators |-> Nth(Creators, i) \o Nth(Creators, j), descriptions |-> texts,
   subjects |-> <<texts, Nth(Texts, j)>>, languages |-> texts, identifiers |-> Nth(IdsOf, i),
   sources |-> Nth(IdsOf, j), publishers |-> texts, dates |-> Nth(DatesOf, i) \o Nth(DatesOf, j)]
MetadataArchive(k) ==
  LET a == k  b == k \div 10  c == k \div 100  d == k \div 1000
      m == [direct |-> GroupOf(a, b), wrapped |-> GroupOf(c, 0), capitals |-> <<W("one")>>,
            metas |-> Nth(SeriesMetas, a) \o Nth(SeriesMetas, b) \o Nth(SeriesMetas, d) \o Nth(IdMetas, c),
            wrappedMetas |-> Nth(SeriesMetas, c)]
  IN ArchiveOf(<<Container, OpfFile(PackageOf(<<>>, <<>>, m))>>)

Manifests == 9216
Protected == 756
MCArchives ==
  { IF k < Manifests THEN ManifestArchive(k)
    ELSE IF k < Manifests + Protected THEN DrmArchive(k - Manifests)
    ELSE IF k < Manifests + Protected + 8 THEN Broken[k - Manifests - Protected + 1]
    ELSE MetadataArchive(k - Manifests - Protected - 8) :
      k \in 0..Manifests + Protected + 8 + 9999 }

-----------------------------------------------------------------------------
(* Direct calls. *)
MCHeap == << Resource("x", A, "UTF8", TRUE, 0), Resource("x", B, "", FALSE, 0),
             Resource("x__dup1", At("OEBPS", "c", ""), " ", TRUE, 0),
             Resource("", NoHref, "", TRUE, 0), Resource("y", At("OEBPS", "a", "#f"), "cp1251", TRUE, 0),
             Resource("x", NoHref, "binary", FALSE, 0) >>
MCCalls == { [heap |-> MCHeap, all |-> s, order |-> o, cover |-> c] :
  s \in UpTo(0..6, 3), c \in 0..6,
  o \in { <<>>, <<[resource |-> 0, linear |-> TRUE], [resource |-> 5, linear |-> FALSE],
                  [resource |-> 2, linear |-> TRUE]>>, <<[resource |-> 6, linear |-> TRUE]>> } }
MCTextMedia == {"xhtml"}
MCOebDocs == {"xhtml"}
MCCoverProperties == {"cover-image", "x-cover-image"}
MCFontObfuscation == {"adobe", "idpf"}
===============================================================================
