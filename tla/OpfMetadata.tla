----------------------------- MODULE OpfMetadata -----------------------------
(***************************************************************************)
(* What opf.Package says about a book (internal/opf/opf.go): pure          *)
(* functions from the parsed metadata elements to book.Metadata.  Elements *)
(* stand directly under metadata or in an OEB 1.x wrapper; a package       *)
(* without wrapper is one with an empty wrapper.                           *)
(*                                                                         *)
(* A text is a word with or without blanks around it, "" being a blank     *)
(* text.  A text with semicolons is the sequence of its parts.  Words that *)
(* differ in case only have one Lower.                                     *)
(***************************************************************************)
EXTENDS Integers, Sequences, SequencesExt, Selection

CONSTANTS Lower,       \* lower case, where the code folds it
          SchemeLabel  \* util.CanonicalScheme: "ISBN-13" to "ISBN", ...

Text(v, pad) == [v |-> v, pad |-> pad]
Trim(t) == t.v
\* A text compared without trimming it.
Exactly(t, w) == ~t.pad /\ t.v = w
Folds(t, w) == Lower[Trim(t)] = w

NotBlank(w) == w # ""
Words(texts) == [i \in DOMAIN texts |-> Trim(texts[i])]
NonEmpty(texts) == Where(Words(texts), NotBlank)
First(words) == IF words = <<>> THEN "" ELSE Head(words)
FirstNonEmpty(texts) == First(NonEmpty(texts))
OrElse(w, v) == IF w # "" THEN w ELSE v
FirstGroup(s, t) == IF s # <<>> THEN s ELSE t

\* The first title only: a blank one does not fall back.
Title(m) == First(Words(FirstGroup(m.direct.titles, m.wrapped.titles)))

AuthorsOf(creators) ==
  LET IsAuthor(c) == Lower[Trim(c.role)] \in {"aut", ""}
      authors == Where(creators, IsAuthor)
      names == [i \in DOMAIN authors |->
                 OrElse(Trim(authors[i].value), Trim(authors[i].fileAs))]
  IN Where(names, NotBlank)

Authors(m) == FirstGroup(AuthorsOf(m.direct.creators), AuthorsOf(m.wrapped.creators))
Description(m) ==
  OrElse(FirstNonEmpty(m.direct.descriptions), FirstNonEmpty(m.wrapped.descriptions))
Publisher(m) ==
  OrElse(FirstNonEmpty(m.direct.publishers), FirstNonEmpty(m.wrapped.publishers))
Subjects(m) == NonEmpty(FlattenSeq(m.direct.subjects \o m.wrapped.subjects))
Languages(m) ==
  FirstGroup(NonEmpty(m.direct.languages),
             FirstGroup(NonEmpty(m.wrapped.languages), NonEmpty(m.capitals)))

Dates(m) == m.direct.dates \o m.wrapped.dates
\* Seeded bug: the first date wins unless it has another event.
PublicationDateFirst(m) ==
  LET Usable(d) == Trim(d.value) # "" /\ Lower[Trim(d.event)] \in {"", "publication"}
      usable == Where(Dates(m), Usable)
  IN IF usable = <<>> THEN "" ELSE Trim(usable[1].value)

PublicationDate(m) ==
  LET Published(d)  == Trim(d.value) # "" /\ Folds(d.event, "publication")
      Undeclared(d) == Trim(d.value) # "" /\ Trim(d.event) = ""
      Values(ds) == [i \in DOMAIN ds |-> Trim(ds[i].value)]
  IN First(Values(Where(Dates(m), Published)) \o Values(Where(Dates(m), Undeclared)))

-----------------------------------------------------------------------------
(* Series: a refined collection, or calibre's own pair of metas. *)
Metas(m) == m.metas \o m.wrappedMetas

RefinementValue(metas, id, property) ==
  LET Refines(r) == Folds(r.property, property) /\ Trim(r.refines) = id /\ Trim(r.value) # ""
      found == Where(metas, Refines)
  IN IF found = <<>> THEN "" ELSE Trim(found[1].value)

NamedContents(metas, name) ==
  LET Named(c) == Trim(c.name) = name /\ Trim(c.content) # ""
      found == Where(metas, Named)
  IN [i \in DOMAIN found |-> Trim(found[i].content)]

Series(m) ==
  LET metas == Metas(m)
      IsSeries(c) == /\ Trim(c.id) # "" /\ Folds(c.property, "belongs-to-collection")
                     /\ Trim(c.value) # ""
                     /\ RefinementValue(metas, Trim(c.id), "collection-type") = "series"
      found == Where(metas, IsSeries)
      name == First(NamedContents(metas, "calibre:series"))
  IN IF found # <<>>
     THEN [name |-> Trim(found[1].value),
           index |-> RefinementValue(metas, Trim(found[1].id), "group-position")]
     ELSE [name |-> name,
           index |-> IF name = "" THEN "" ELSE First(NamedContents(metas, "calibre:series_index"))]

-----------------------------------------------------------------------------
(* Identifiers.  A value is plain, a URL, prefix:rest, urn:prefix:rest or a
   urn without a proper prefix. *)
OnixScheme(code) ==
  CASE code \in {"02", "15", "24"} -> "ISBN" [] code = "06" -> "DOI" [] OTHER -> ""

IdentifierTypeScheme(metas, id) ==
  LET Types(t) == /\ Folds(t.property, "identifier-type")
                  /\ ~id.pad /\ Trim(t.refines) = id.v
      found == Where(metas, Types)
  IN IF id.v = "" \/ found = <<>> THEN ""
     ELSE IF Folds(found[1].scheme, "onix:codelist5") THEN OnixScheme(Trim(found[1].value))
     ELSE OrElse(Trim(found[1].scheme), Trim(found[1].value))

Plain(w) == [form |-> "plain", prefix |-> "", rest |-> w]
Prefixed(value) == value.form \in {"urn", "scheme"}

\* An explicit scheme loses only a prefix that says the same.
SplitIdentifier(value, explicit) ==
  CASE value = Plain("") -> [scheme |-> "", value |-> value]
    [] explicit # "" /\ value # Plain("") ->
         [scheme |-> SchemeLabel[explicit],
          value |-> IF Prefixed(value) /\ Lower[SchemeLabel[value.prefix]] = Lower[SchemeLabel[explicit]]
                    THEN Plain(value.rest) ELSE value]
    [] explicit = "" /\ value.form = "url" -> [scheme |-> "URL", value |-> value]
    [] explicit = "" /\ Prefixed(value) ->
         [scheme |-> SchemeLabel[value.prefix], value |-> Plain(value.rest)]
    [] OTHER -> [scheme |-> "", value |-> value]

Declared(m) == m.direct.identifiers \o m.wrapped.identifiers
               \o m.direct.sources \o m.wrapped.sources

Identifiers(m) ==
  LET split == [i \in DOMAIN Declared(m) |->
                 LET d == Declared(m)[i] IN
                   SplitIdentifier(d.value,
                     OrElse(Trim(d.scheme), IdentifierTypeScheme(Metas(m), d.id)))]
      Filled(s) == s.value # Plain("")
  IN Where(split, Filled)

-----------------------------------------------------------------------------
\* book.Metadata as EpubReader.Read fills it.
BookMetadata(m) ==
  [title |-> Title(m), authors |-> Authors(m), description |-> Description(m),
   subjects |-> Subjects(m), languages |-> Languages(m), identifiers |-> Identifiers(m),
   publisher |-> Publisher(m), publicationDate |-> PublicationDate(m), series |-> Series(m)]

\* MetaByName compares the raw attribute, unlike Series.
MetasByName(m, name) == LET Named(c) == Exactly(c.name, name) IN Where(Metas(m), Named)
=============================================================================
