------------------------------- MODULE EpubBook -------------------------------
(***************************************************************************)
(* EpubReader.Read (internal/epub/reader.go): the archive, its container   *)
(* and package file, the DRM checks, opf.BuildResources and, with the      *)
(* lists it hands over, book.NewResourceSet.                               *)
(*                                                                         *)
(* An archive is a sequence of entries, several of which may have one      *)
(* name; an entry may be unreadable, and what it holds may not parse.  Of  *)
(* a content document only its readability and its markup count, of        *)
(* encryption.xml the algorithms it names.                                 *)
(***************************************************************************)
EXTENDS ResourceSet, OpfMetadata

CONSTANTS
  Archives,         \* archives to read
  TextMedia,        \* charset.IsTextMedia
  OebDocs,          \* media types of content documents
  CoverProperties,  \* properties attributes that contain "cover-image"
  FontObfuscation,  \* the two algorithms that are not DRM
  ContainerXml, EncryptionXml, RightsXml   \* names of the entries of OCF, Adobe and Kobo

NoPackage == [path |-> NoHref, items |-> <<>>, itemRefs |-> <<>>, metadata |-> <<>>]

IsList(s) == s \in Seq({s[i] : i \in DOMAIN s})
IsHref(h) == h \in [folder : {h.folder}, file : {h.file}, tail : {h.tail}, dotted : {h.dotted}]
IsPackage(p) ==
  /\ p = [path |-> p.path, items |-> p.items, itemRefs |-> p.itemRefs, metadata |-> p.metadata]
  /\ IsList(p.items) /\ IsList(p.itemRefs)
  /\ \A i \in DOMAIN p.items : IsHref(p.items[i].href)

IsGroup(g) ==
  /\ IsList(g.titles) /\ IsList(g.creators) /\ IsList(g.descriptions)
  /\ IsList(g.subjects) /\ IsList(g.languages) /\ IsList(g.publishers)
  /\ IsList(g.identifiers) /\ IsList(g.sources) /\ IsList(g.dates)
  /\ \A i \in DOMAIN g.subjects : IsList(g.subjects[i])
  /\ \A i \in DOMAIN g.dates : Trim(g.dates[i].event) \in DOMAIN Lower
IsMetadata(m) ==
  /\ IsGroup(m.direct) /\ IsGroup(m.wrapped)
  /\ IsList(m.metas) /\ IsList(m.wrappedMetas) /\ IsList(m.capitals)

ASSUME LowerAssumption == \A w \in DOMAIN Lower : Lower[w] = "" <=> w = ""

ASSUME ArchivesAssumption == \A a \in Archives :
  /\ a.zip \in BOOLEAN /\ IsList(a.entries)
  /\ \A i \in DOMAIN a.entries :
       /\ a.entries[i].declared \in Labels
       /\ a.entries[i].kind = "package" =>
            IsPackage(a.entries[i].package) /\ IsMetadata(a.entries[i].package.metadata)

ASSUME NamesAssumption == RightsXml.tail = ""

VARIABLES
  archive,   \* the archive being read
  pkg,       \* the package once it is parsed
  resolved,  \* BuildResources' resolvedToResource
  metadata,  \* the book's metadata once it is read
  err        \* why Read failed, "" while it has not

epubvars == <<archive, pkg, resolved, metadata, err>>
vars == <<setvars, epubvars>>

NoArchive == [zip |-> FALSE, entries |-> <<>>]

InitRead ==
  /\ archive \in Archives
  /\ pkg = NoPackage /\ resolved = <<>> /\ metadata = <<>> /\ err = ""
  /\ heap = <<>> /\ all = <<>> /\ readingOrder = <<>> /\ cover = Nil
  /\ phase = "open" /\ EmptySet

\* Another format reader calls NewResourceSet with lists of its own.
InitCall ==
  /\ InitSet
  /\ archive = NoArchive /\ pkg = NoPackage /\ resolved = <<>> /\ metadata = <<>> /\ err = ""

Init == InitRead \/ InitCall

Fail(reason) ==
  /\ phase' = "failed" /\ err' = reason
  /\ UNCHANGED <<heap, arguments, index, indexes, roCopy, coverAliased,
                 archive, pkg, resolved, metadata>>

Proceed(to) ==
  /\ phase' = to
  /\ UNCHANGED <<heap, arguments, index, indexes, roCopy, coverAliased,
                 archive, resolved, metadata, err>>

\* compress.Find: the first entry of exactly that name, 0 when there is none.
Find(name) ==
  LET Named(e) == e.name = name IN SelectInSeq(archive.entries, Named)
Entry(name)  == archive.entries[Find(name)]
Parses(name, kind) ==
  Find(name) # 0 /\ Entry(name).readable /\ Entry(name).kind = kind

-----------------------------------------------------------------------------
(* Container and package file. *)
OpenArchive ==
  /\ phase = "open"
  /\ IF archive.zip THEN Proceed("ocf") /\ UNCHANGED pkg ELSE Fail("zip")

\* The first rootfile declared as an OPF package, NoHref when there is none.
PackagePath ==
  LET Oebps(r) == r.oebps
      found == Where(Entry(ContainerXml).rootfiles, Oebps)
  IN IF found = <<>> THEN NoHref ELSE found[1].path

ReadPackage ==
  /\ phase = "ocf"
  /\ IF ~Parses(ContainerXml, "container") THEN Fail("ocf")
     ELSE IF PackagePath = NoHref \/ ~Parses(PackagePath, "package") THEN Fail("opf")
     ELSE /\ pkg' = [Entry(PackagePath).package EXCEPT !.path = PackagePath]
          /\ Proceed("adobe")

-----------------------------------------------------------------------------
(* DRM.  An empty encryption.xml, one that names no algorithm and a rights.xml
   left behind in a readable book are not DRM. *)
\* Seeded bug: one harmless algorithm clears the others.
AdobeProtectedUnlessFonts ==
  LET e == Entry(EncryptionXml) IN
    /\ Find(EncryptionXml) # 0
    /\ ~e.readable \/ (~e.blank /\ (e.kind # "encryption" \/ e.algorithms \cap FontObfuscation = {}))

AdobeProtected ==
  LET e == Entry(EncryptionXml) IN
    /\ Find(EncryptionXml) # 0
    /\ \/ ~e.readable
       \/ ~e.blank /\ (e.kind # "encryption" \/ ~(e.algorithms \subseteq FontObfuscation))

CheckAdobeDRM ==
  /\ phase = "adobe"
  /\ IF AdobeProtected THEN Fail("drm") ELSE Proceed("kobo") /\ UNCHANGED pkg

FindRightsXml ==
  LET BaseName(e) == e.name.file = RightsXml.file /\ e.name.tail = "" IN
    IF Find(RightsXml) # 0 THEN Find(RightsXml) ELSE SelectInSeq(archive.entries, BaseName)

\* ItemById: the first item of that id, 0 when there is none.
ItemById(id) == LET HasId(item) == item.id = id IN SelectInSeq(pkg.items, HasId)
ItemRefItem(i) == ItemById(pkg.itemRefs[i].idRef)

\* What lookup finds for an item: its entry under the resolved href as it
\* stands, while resources are keyed by the canonical one.
Lookup(item) == Find(ResolvePath(pkg.path, item.href))
ItemKey(item) == CleanHref(ResolvePath(pkg.path, item.href))

FirstSpineContentFile ==
  LET IsContent(ref) == LET i == ItemById(ref.idRef) IN
        i # 0 /\ pkg.items[i].media \in OebDocs /\ Lookup(pkg.items[i]) # 0
      first == SelectInSeq(pkg.itemRefs, IsContent)
  IN IF first = 0 THEN 0 ELSE Lookup(pkg.items[ItemRefItem(first)])

KoboProtected ==
  LET rights == FindRightsXml  first == FirstSpineContentFile IN
    /\ rights # 0 /\ ~archive.entries[rights].empty /\ first # 0
    /\ ~(archive.entries[first].readable /\ archive.entries[first].markup)

CheckKoboDRM ==
  /\ phase = "kobo"
  /\ IF KoboProtected THEN Fail("drm") ELSE Proceed("manifest") /\ UNCHANGED pkg

-----------------------------------------------------------------------------
(* opf.BuildResources *)

\* A textual entry has the charset its head declares, if it can be read.
EntryCharset(item, e) ==
  IF item.media \notin TextMedia THEN ""
  ELSE IF archive.entries[e].readable /\ archive.entries[e].declared # ""
  THEN archive.entries[e].declared ELSE "utf-8"

NewResource(item) ==
  Resource(item.id, ItemKey(item), EntryCharset(item, Lookup(item)),
           item.media \in TextMedia, Lookup(item))

AtItem ==
  /\ phase = "manifest" /\ index \in DOMAIN pkg.items /\ index' = index + 1
  /\ UNCHANGED <<phase, readingOrder, cover, indexes, roCopy, coverAliased,
                 archive, pkg, metadata, err>>

\* Items without an entry are skipped; of two with one key the later is kept
\* in resolvedToResource and both in all.
AddItem ==
  /\ AtItem /\ Lookup(pkg.items[index]) # 0
  /\ heap' = Append(heap, NewResource(pkg.items[index]))
  /\ all' = Append(all, Len(heap) + 1)
  /\ resolved' = Extend(resolved, ItemKey(pkg.items[index]), Len(heap) + 1)

SkipItem ==
  /\ AtItem /\ Lookup(pkg.items[index]) = 0
  /\ UNCHANGED <<heap, all, resolved>>

ResolvedItem(i) == i # 0 /\ ItemKey(pkg.items[i]) \in DOMAIN resolved
ResourceOf(i) == resolved[ItemKey(pkg.items[i])]

\* Seeded bug: only linear="yes" counts as linear.
ReadSpineYesOnly ==
  /\ phase = "manifest" /\ index \notin DOMAIN pkg.items
  /\ LET Present(ref) == ResolvedItem(ItemById(ref.idRef))
         present == Where(pkg.itemRefs, Present)
     IN readingOrder' = [i \in DOMAIN present |->
                          [resource |-> ResourceOf(ItemById(present[i].idRef)),
                           linear |-> present[i].linear = "yes"]]
  /\ phase' = "coverItem"
  /\ UNCHANGED <<heap, all, cover, index, indexes, roCopy, coverAliased, epubvars>>

\* An entry of the spine whose item is known and resolved.  The code looks the
\* entry of an unresolved item up once more; an item whose lookup succeeds has
\* been resolved by the loop over the manifest, so that never adds one.
ReadSpine ==
  /\ phase = "manifest" /\ index \notin DOMAIN pkg.items
  /\ LET Present(ref) == ResolvedItem(ItemById(ref.idRef))
         present == Where(pkg.itemRefs, Present)
     IN readingOrder' = [i \in DOMAIN present |->
                          [resource |-> ResourceOf(ItemById(present[i].idRef)),
                           linear |-> present[i].linear # "no"]]
  /\ phase' = "coverItem"
  /\ UNCHANGED <<heap, all, cover, index, indexes, roCopy, coverAliased, epubvars>>

\* The first item with a cover-image property, or the one meta "cover" names.
CoverItem ==
  LET IsCover(item) == item.properties \in CoverProperties
      byProperty == SelectInSeq(pkg.items, IsCover)
      metas == MetasByName(pkg.metadata, "cover")
  IN IF byProperty # 0 THEN byProperty
     ELSE IF metas = <<>> \/ metas[1].content.pad THEN 0
     ELSE ItemById(metas[1].content.v)

ReadCover ==
  /\ phase = "coverItem"
  /\ cover' = IF ResolvedItem(CoverItem) THEN ResourceOf(CoverItem) ELSE Nil
  /\ metadata' = BookMetadata(pkg.metadata)
  /\ phase' = "normalize" /\ index' = 1
  /\ UNCHANGED <<heap, all, readingOrder, indexes, roCopy, coverAliased,
                 archive, pkg, resolved, err>>

Read == OpenArchive \/ ReadPackage \/ CheckAdobeDRM \/ CheckKoboDRM
        \/ AddItem \/ SkipItem \/ ReadSpine \/ ReadCover

Next == Read \/ (NewResourceSet /\ UNCHANGED epubvars)

Spec == Init /\ [][Next]_vars

-----------------------------------------------------------------------------
(* Properties. *)

TypeOK ==
  /\ SetTypeOK
  /\ phase \in {"open", "ocf", "adobe", "kobo", "manifest", "coverItem",
                "normalize", "index", "order", "done", "failed"}
  /\ (err # "") = (phase = "failed")
  /\ resolved \in [DOMAIN resolved -> Pointers]

BookRead == phase = "done" /\ archive.zip
InAll(p) == \E i \in DOMAIN allCopy : allCopy[i] = p
\* Some item of the manifest stands for the file of item i and is stored.
Stored(i) == i # 0 /\ \E j \in DOMAIN pkg.items :
               ItemKey(pkg.items[j]) = ItemKey(pkg.items[i]) /\ Lookup(pkg.items[j]) # 0
Served == {i \in DOMAIN pkg.itemRefs : Stored(ItemRefItem(i))}

\* The book says what its package says: ReadingOrder is the spine without the
\* entries that have no stored file, in order, each with its linear flag and
\* leading to the resource of All() for that file, however the manifest spells
\* or repeats it; the cover is found whenever it is stored, in All(); and every
\* resource opens an entry of its own name (internal/opf/resources.go).
SpineFaithful == BookRead =>
  /\ Len(roCopy) = Cardinality(Served)
  /\ \A i \in Served :
       LET item == roCopy[Cardinality({j \in Served : j <= i})] IN
         /\ item.linear = (pkg.itemRefs[i].linear # "no")
         /\ Key(item.resource) = ItemKey(pkg.items[ItemRefItem(i)])
         /\ InAll(item.resource)
  /\ IF Stored(CoverItem)
     THEN InAll(coverAliased) /\ Key(coverAliased) = ItemKey(pkg.items[CoverItem])
     ELSE coverAliased = Nil
  /\ \A i \in DOMAIN allCopy :
       CleanHref(archive.entries[heap[allCopy[i]].entry].name) = Key(allCopy[i])

\* A protected book is never returned and only a protected one is refused with
\* ErrDRM (internal/epub/drm.go:34-45); where no href carries a fragment, the
\* document probed is the first document a reader of the book is served.
ProtectedNeverRead ==
  LET Encryption == {i \in DOMAIN archive.entries : archive.entries[i].name = EncryptionXml}
      Rights == {i \in DOMAIN archive.entries :
                  archive.entries[i].name.file = RightsXml.file /\ archive.entries[i].name.tail = ""}
      Documents == {i \in Served : pkg.items[ItemRefItem(i)].media \in OebDocs}
      Clear(e) == archive.entries[e].readable /\ archive.entries[e].markup
  IN /\ BookRead => \A i \in Encryption : i = Find(EncryptionXml) =>
          LET e == archive.entries[i] IN
            e.readable /\ (e.blank \/ (e.kind = "encryption" /\ e.algorithms \subseteq FontObfuscation))
     /\ BookRead /\ Documents # {} /\ (\A i \in DOMAIN pkg.items : pkg.items[i].href.tail = "")
          /\ Rights # {} /\ (\A i \in Rights : ~archive.entries[i].empty) =>
        LET i == CHOOSE i \in Documents : \A j \in Documents : i <= j
        IN Clear(heap[roCopy[Cardinality({j \in Served : j <= i})].resource].entry)
     /\ err = "drm" => Encryption # {} \/ \E i \in Rights : ~archive.entries[i].empty

\* got are the elements of s at the positions kept: all of them, in order.
Keeps(got, s, kept) ==
  /\ Len(got) = Cardinality(kept)
  /\ \A i \in kept : got[Cardinality({j \in kept : j <= i})] = s[i]

Filled(texts) == {i \in DOMAIN texts : Trim(texts[i]) # ""}

\* Title: the first title element, blank or not (what the name of
\* firstNonEmptyTitle says is not what it does), a wrapped one only where no
\* element stands directly.  Description and publisher: the first that is not
\* blank, a direct one before any wrapped one.  Subjects: all that are not
\* blank.  Languages: those of the first of the three groups that has any.
TextsFaithful(m) ==
  LET titles == IF m.direct.titles # <<>> THEN m.direct.titles ELSE m.wrapped.titles
      first(s, t) == IF Filled(s) # {} THEN Trim(s[Min(Filled(s))])
                     ELSE IF Filled(t) # {} THEN Trim(t[Min(Filled(t))]) ELSE ""
      subjects == FlattenSeq(m.direct.subjects \o m.wrapped.subjects)
      languages == IF Filled(m.direct.languages) # {} THEN m.direct.languages
                   ELSE IF Filled(m.wrapped.languages) # {} THEN m.wrapped.languages ELSE m.capitals
  IN /\ metadata.title = IF titles = <<>> THEN "" ELSE Trim(titles[1])
     /\ metadata.description = first(m.direct.descriptions, m.wrapped.descriptions)
     /\ metadata.publisher = first(m.direct.publishers, m.wrapped.publishers)
     /\ Keeps(metadata.subjects, Words(subjects), Filled(subjects))
     /\ Keeps(metadata.languages, Words(languages), Filled(languages))

\* Authors: the creators of that role or of none that have a name, in order,
\* called by it rather than by what they are filed as; wrapped ones stand in
\* for direct ones only when there are none.
AuthorsFaithful(m) ==
  LET name(c) == IF Trim(c.value) # "" THEN Trim(c.value) ELSE Trim(c.fileAs)
      authors(s) == {i \in DOMAIN s : Lower[Trim(s[i].role)] \in {"aut", ""} /\ name(s[i]) # ""}
      group == IF authors(m.direct.creators) # {} THEN m.direct.creators ELSE m.wrapped.creators
  IN Keeps(metadata.authors, [i \in DOMAIN group |-> name(group[i])], authors(group))

\* A publication date declared as such wins wherever it stands, and a date of
\* another event is never taken for one.
DateFaithful(m) ==
  LET dates == {i \in DOMAIN Dates(m) : Trim(Dates(m)[i].value) # ""}
      event(i) == Lower[Trim(Dates(m)[i].event)]
      of(w) == {i \in dates : event(i) = w}
      best == IF of("publication") # {} THEN of("publication") ELSE of("")
  IN IF best = {} THEN metadata.publicationDate = ""
     ELSE \E i \in best : /\ metadata.publicationDate = Trim(Dates(m)[i].value)
                          /\ \A j \in best : i <= j

\* A collection refined as a series gives name and position, the position being
\* its own or none; without one calibre's first name that is not blank does,
\* with calibre's first position; there is no position without a name.
SeriesFaithful(m) ==
  LET metas == Metas(m)
      refines(r, i, p) == /\ Trim(metas[r].refines) = Trim(metas[i].id)
                          /\ Lower[Trim(metas[r].property)] = p /\ Trim(metas[r].value) # ""
      first(i, p) == {r \in DOMAIN metas : refines(r, i, p) /\ \A q \in 1..r - 1 : ~refines(q, i, p)}
      series == {i \in DOMAIN metas :
                  /\ Lower[Trim(metas[i].property)] = "belongs-to-collection"
                  /\ Trim(metas[i].id) # "" /\ Trim(metas[i].value) # ""
                  /\ \E r \in first(i, "collection-type") : Trim(metas[r].value) = "series"}
      calibre(n) == {i \in DOMAIN metas : Trim(metas[i].name) = n /\ Trim(metas[i].content) # ""}
      content(n) == IF calibre(n) = {} THEN "" ELSE Trim(metas[Min(calibre(n))].content)
      got == metadata.series
  IN /\ \A i \in series : (\A j \in series : i <= j) =>
          /\ got.name = Trim(metas[i].value)
          /\ first(i, "group-position") = {} => got.index = ""
          /\ \A r \in first(i, "group-position") : got.index = Trim(metas[r].value)
     /\ series = {} => got.name = content("calibre:series")
     /\ series = {} /\ got.name # "" => got.index = content("calibre:series_index")
     /\ got.name = "" => got.index = ""

\* Identifiers before sources, each in declared order.  The scheme is that of
\* the attribute, else that of the first identifier-type meta refining the
\* element, else what the value itself says; a value loses a prefix that
\* repeats its scheme, no other and never when it is a URL, and is left out
\* when nothing remains.
IdentifiersFaithful(m) ==
  LET ds == Declared(m)  metas == Metas(m)
      types(d) == {r \in DOMAIN metas : /\ Lower[Trim(metas[r].property)] = "identifier-type"
                                        /\ Exactly(d.id, Trim(metas[r].refines))}
      named(r) == IF Lower[Trim(r.scheme)] = "onix:codelist5" THEN OnixScheme(Trim(r.value))
                  ELSE IF Trim(r.scheme) # "" THEN Trim(r.scheme) ELSE Trim(r.value)
      refined(d) == IF Trim(d.id) = "" \/ types(d) = {} THEN "" ELSE named(metas[Min(types(d))])
      said(d) == IF Trim(d.scheme) # "" THEN Trim(d.scheme) ELSE refined(d)
      scheme(d) == IF d.value = Plain("") THEN ""
                   ELSE IF said(d) # "" THEN SchemeLabel[said(d)]
                   ELSE IF d.value.form = "url" THEN "URL"
                   ELSE IF Prefixed(d.value) THEN SchemeLabel[d.value.prefix] ELSE ""
      repeats(d) == Prefixed(d.value) /\ Lower[SchemeLabel[d.value.prefix]] = Lower[scheme(d)]
      shown(d) == [scheme |-> scheme(d), value |-> IF repeats(d) THEN Plain(d.value.rest) ELSE d.value]
  IN Keeps(metadata.identifiers, [i \in DOMAIN ds |-> shown(ds[i])],
           {i \in DOMAIN ds : shown(ds[i]).value # Plain("")})

\* The metadata of a book that was read is what its package declares, each field
\* as said above (the doc comments of internal/opf/opf.go and, where they say
\* nothing, its getters).
MetadataFaithful == BookRead =>
  /\ TextsFaithful(pkg.metadata) /\ AuthorsFaithful(pkg.metadata)
  /\ DateFaithful(pkg.metadata) /\ SeriesFaithful(pkg.metadata)
  /\ IdentifiersFaithful(pkg.metadata)

=============================================================================
