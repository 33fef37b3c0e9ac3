------------------------------ MODULE PlainText ------------------------------
(***************************************************************************)
(* A resource converted to plain text and what the tools make of the text: *)
(* every converter behind Read, the fingerprint hashers that are fed with  *)
(* whatever Read returns, and FindISBNs on the head of a text.             *)
(***************************************************************************)
EXTENDS MarkupText, HtmlText, PmlText, Fingerprints, IsbnText, Selection

VARIABLE found    \* the ISBNs of the text, once it has been searched

vars == <<textvars, hashvars, found>>

Init == InitText /\ InitHashers /\ found = <<>>

ReadText ==
  \/ \E n \in Rooms : doc.format # "isbn" /\ CallRead(n)
  \/ Copy \/ SeeCancel \/ ReadEnd
  \/ ReadFb2 \/ ReadFb3 \/ ReadHtml \/ ReadPml \/ ReadLrf

-----------------------------------------------------------------------------
(* The text of the source on its own: one scan after another, with neither
   buffers nor clients. Every scan goes on or is the last, so one for every
   symbol and one more are enough. *)
ScanNext(f) ==
  CASE doc.format = "fb2" -> IF f.depth > 0 THEN ScanSkipped(f) ELSE ScanMarkup(f)
    [] doc.format = "fb3" -> ScanMarkup(f)
    [] doc.format = "pml" -> ScanPml(f)
    [] doc.format = "lrf" -> ScanLrf(f)
    [] OTHER              -> ScanHtml(f)
Ended(f) == IF Html THEN f.pos > Len(src) ELSE f.done

Advance(pass) ==
  LET f == ScanNext(pass.scanner) IN
    IF Ended(pass.scanner) THEN pass
    ELSE [scanner |-> [f EXCEPT !.out = <<>>], text |-> pass.text \o f.out]
Pass[k \in 0..Len(src) + 1] ==
  IF k = 0 THEN [scanner |-> NewReader, text |-> <<>>] ELSE Advance(Pass[k - 1])
WholeText == Pass[Len(src) + 1].text

(* Whatever the sizes of the buffers Read is called with, what it returns is
   the one text of its source, from the start, and all of it at the end: scanning
   does not depend on where a buffer was full nor on when the client comes back
   (htmltotext.go:74-171, fb2totext.go:77-107, fb3totext.go:61-91,
   pmltotext.go:48-69, lrftotext.go:45-69). *)
OneText ==
  doc.format # "isbn" => IsPrefix(got, WholeText) /\ (err = "eof" => got = WholeText)

-----------------------------------------------------------------------------
\* What is returned goes to the hashers, if there are any.
Read == ReadText /\ IF doc.hashed THEN HashChunk ELSE UNCHANGED hashvars

\* FindISBNs, on a text already normalised.
SearchIsbns ==
  /\ doc.format = "isbn" /\ err = "" /\ found' = FindISBNs(doc.digits) /\ err' = "eof"
  /\ UNCHANGED <<doc, src, reader, room, filled, cancelled, got, hashvars>>

Next == \/ Read /\ UNCHANGED found
        \/ Cancel /\ UNCHANGED <<hashvars, found>>
        \/ Result /\ UNCHANGED found
        \/ SearchIsbns

\* A Read that was called runs to its end; nobody has to call it, to cancel it
\* or to take the fingerprint.
InRead == room > 0 /\ ReadText
Spec == Init /\ [][Next]_vars /\ WF_textvars(InRead)

-----------------------------------------------------------------------------
(* What a text should read like: its parts, each of which is text, the end of
   a block, an empty line, or nothing to see. *)
Parts == doc.parts
PartText(i) == IF Parts[i].kind = "text" THEN Parts[i].text ELSE <<>>
Breaks == {i \in DOMAIN Parts : Parts[i].kind \in {"break", "paragraph", "blank"}}

\* Space at the start of a line is formatting in markup, and structure in HTML
\* as far as it is all there is between two tags.
DropSpace(i, j) ==
  LET texts == [k \in 1..j - i + 1 |-> PartText(i + k - 1)]
      full == {k \in DOMAIN texts : ~HtmlBlank(texts[k])}
  IN IF doc.format \in {"fb2", "fb3"} THEN TrimLeft(FlattenSeq(texts))
     ELSE IF Html THEN IF full = {} THEN <<>> ELSE FlattenSeq(SubSeq(texts, Min(full), Len(texts)))
     ELSE FlattenSeq(texts)

Line(b) == DropSpace(b + 1, Min({i \in Breaks : i > b} \cup {Len(Parts) + 1}) - 1)
FullLines == {b \in Breaks \cup {0} : Line(b) # <<>>}

\* Newlines between two lines: one for every block end; never more than one in
\* HTML, nor than two in PML; two in FB2 where an empty line stands, which is
\* "exactly one blank line" (fb2totext.go:260-261).
Between(a, b) == {i \in Breaks : a < i /\ i <= b}
Blanks(a, b) == {i \in Between(a, b) : Parts[i].kind = "blank"}
Gap(a, b) ==
  LET between == Between(a, b)
      n == Cardinality(between) + Cardinality({i \in between : Parts[i].kind = "paragraph"})
  IN CASE Html                 -> 1
       [] doc.format = "pml"   -> IF n > 2 THEN 2 ELSE n
       [] OTHER                -> IF Blanks(a, b) # {} THEN 2 ELSE n

Expected ==
  LET order == Ascending(FullLines)
      line(k) == (IF k = 1 THEN <<>> ELSE Newlines(Gap(order[k - 1], order[k]))) \o Line(order[k])
  IN FlattenSeq([k \in DOMAIN order |-> line(k)])

\* An empty line that meets another break, other than the one block end before
\* it: what OneBlankLine is about.
Crowded ==
  LET order == Ascending(FullLines) IN
    \E k \in 2..Len(order) : \E i \in Blanks(order[k - 1], order[k]) :
      LET between == Between(order[k - 1], order[k]) IN
        Max(between) # i \/ Cardinality(between) > 2

ReadsAs(text) == /\ IsPrefix(got, text)
                 /\ err = "eof" => got = text

(* What Read returns, in pieces of whatever size, is the one text of its source,
   well-formed or not; of a well-formed document that is the document's text, each
   block on a line of its own and nothing before the first or after the last, and
   all of it when Read ends without an error (fb2totext.go:17-24,
   htmltotext.go:212-215 and their tests, pmltotext_test.go).  How many newlines
   the code writes where an empty line meets other breaks is OneBlankLine. *)
TextExact ==
  /\ OneText
  /\ doc.kind = "clean" /\ ~Crowded /\ (got # <<>> \/ err = "eof") => ReadsAs(Expected)

(* An empty line is "exactly one blank line: cap pending breaks so consecutive
   breaks (e.g. after </p>) don't accumulate" (fb2totext.go:260-261). *)
OneBlankLine ==
  doc.format = "fb2" /\ doc.kind = "clean" /\ (got # <<>> \/ err = "eof") => ReadsAs(Expected)

(* A conversion that ends without an error has read its source to the end: one
   that broke off, or exceeds its limit, "surfaces an error rather than a clean
   EOF" (limit.go:13-16). *)
TruncationSeen == err = "eof" /\ doc.format # "isbn" => SourceEnd = "eof"

\* Every Read returns, on any input (fb2totext.go:61).
ReadReturns == room > 0 ~> room = 0

-----------------------------------------------------------------------------
(* The fingerprint of what had been read is that of its words, however it was
   cut: every run of K words in the order they came, or all of them when they
   are fewer (README, "Content fingerprinting"). *)
Runes(s, decoded) ==
  Where(decoded.runes \o [i \in 1..Len(s) - decoded.rest + 1 |-> RuneError], LAMBDA r : r \notin Dropped)
InWord(runes, i) == i \in DOMAIN runes /\ runes[i] \notin Delimiter
FromWord(runes, i) == SubSeq(runes, i, Min({j \in i..Len(runes) : ~InWord(runes, j + 1)}))
WordsAt(runes, starts) ==
  [w \in DOMAIN starts |-> [i \in DOMAIN FromWord(runes, starts[w]) |-> Fold[runes[starts[w] + i - 1]]]]
WordsOf(runes) == WordsAt(runes, Ascending({i \in DOMAIN runes : InWord(runes, i) /\ ~InWord(runes, i - 1)}))
Words(s) == WordsOf(Runes(s, Decode(s)))

RunsOf(w) == IF Len(w) \in 1..K - 1 THEN <<w>> ELSE [i \in 1..Len(w) - K + 1 |-> SubSeq(w, i, i + K - 1)]

FingerprintOf(all) ==
  /\ sh.emitted = all
  /\ \A s \in Seeds : minHash[s] = IF all = <<>> THEN {} ELSE {Min({Hash(x, s) : x \in ToSet(all)})}
  /\ \A b \in HashBits :
       simHash[b] + Len(all) = 2 * Cardinality({i \in DOMAIN all : BitSet(all[i], b)})
FingerprintExact == finalized => FingerprintOf(RunsOf(Words(hashed)))

-----------------------------------------------------------------------------
\* One ISBN for each book, the first.
PartIsbns == SelectSeq([i \in DOMAIN Parts |-> Parts[i].isbn], LAMBDA isbn : isbn # None)
OneEach(isbns, places) == [k \in DOMAIN places |-> isbns[places[k]]]
Isbns ==
  OneEach(PartIsbns, Ascending({i \in DOMAIN PartIsbns :
                                  \A j \in 1..i - 1 : ToISBN13(PartIsbns[j]) # ToISBN13(PartIsbns[i])}))

\* No single wrong digit turns an ISBN into another, and its ISBN-10 and ISBN-13
\* are valid and convert to each other.
Checked(isbn) ==
  /\ \A i \in DOMAIN isbn : \A d \in Decimal \ {isbn[i]} : ~Valid([isbn EXCEPT ![i] = d])
  /\ Valid(ToISBN13(isbn)) /\ ToISBN10(ToISBN13(isbn)) = ToISBN10(isbn)
  /\ ToISBN10(isbn) # None => Valid(ToISBN10(isbn)) /\ ToISBN13(ToISBN10(isbn)) = ToISBN13(isbn)

\* Where a book first appears among the candidates of a text.
SameBook(c, isbn) == ToISBN13(c.isbn) = ToISBN13(isbn)
Appears(candidates, isbn) == Min({c.pos : c \in {x \in ToSet(candidates) : SameBook(x, isbn)}})

\* What FindISBNs makes of the candidates, whatever these are: every book of
\* theirs once, in order of first appearance, as a piece of the text spells it.
OncePerBookInOrder(t, isbns) ==
  LET candidates == AllCandidates(t) IN
    /\ \A i \in DOMAIN isbns :
         \E p \in DOMAIN t : \E q \in p..Len(t) : isbns[i] = ValidateBookISBN(SubSeq(t, p, q))
    /\ \A i \in DOMAIN isbns : \A j \in 1..i - 1 :
         /\ ToISBN13(isbns[j]) # ToISBN13(isbns[i])
         /\ Appears(candidates, isbns[j]) <= Appears(candidates, isbns[i])
    /\ \A c \in ToSet(candidates) : \E i \in DOMAIN isbns : SameBook(c, isbns[i])

(* Whatever the text holds, what is found are valid ISBNs and no placeholders,
   with check digits that no single wrong digit passes and that convert, each
   spelt in the text, one for each book and in order of first appearance
   ("returns book-valid ISBNs in order of first appearance, deduplicated by
   canonical ISBN-13", isbn_find.go:22-26). *)
IsbnsSound ==
  doc.format = "isbn" /\ err = "eof" =>
    /\ \A isbn \in ToSet(found) : Valid(isbn) /\ ~Placeholder(isbn) /\ Checked(isbn)
    /\ OncePerBookInOrder(doc.digits, found)

(* Where words stand between the numbers nothing is missed either: the ISBNs found
   are the book-valid ones the text holds, each the one NormalizeISBN makes of
   that part alone, label and all. *)
IsbnsExact ==
  /\ IsbnsSound
  /\ doc.format = "isbn" /\ err = "eof" =>
       found = Isbns /\ \A i \in DOMAIN Parts : ValidateBookISBN(Parts[i].digits) = Parts[i].isbn
=============================================================================
