----------------------------- MODULE MCPlainText -----------------------------
(***************************************************************************)
(* Documents put together from pieces: each piece is what the source has   *)
(* and the parts of the text it stands for.                                *)
(***************************************************************************)
EXTENDS PlainText

P(symbols, parts) == [symbols |-> symbols, parts |-> parts]
Part(kind, text, digits, isbn) == [kind |-> kind, text |-> text, digits |-> digits, isbn |-> isbn]
T(text) == <<Part("text", text, <<>>, <<>>)>>
B(kind) == <<Part(kind, <<>>, <<>>, <<>>)>>
Literal(text) == P(text, T(text))
Unseen(symbols) == P(symbols, <<>>)

Document(format, kind, pieces) ==
  LET text == FlattenSeq([i \in DOMAIN pieces |-> pieces[i].symbols]) IN
  [format |-> format, text |-> IF format \in {"html", "isbn"} THEN <<>> ELSE text,
   tokens |-> IF format = "html" THEN text ELSE <<>>, digits |-> IF format = "isbn" THEN text ELSE <<>>, kind |-> kind, limit |-> Len(text) + 1, broken |-> FALSE,
   cancellable |-> FALSE, hashed |-> FALSE,
   parts |-> FlattenSeq([i \in DOMAIN pieces |-> pieces[i].parts])]

\* Piece k, in mixed radix, for each place of a document of n pieces.
Mixed(pieces, k, n) == [i \in 1..n |-> pieces[((k \div (Len(pieces) ^ (i - 1))) % Len(pieces)) + 1]]
All(format, kind, pieces, n) == {Document(format, kind, Mixed(pieces, k, n)) : k \in 0..(Len(pieces) ^ n) - 1}

\* Pieces between text and text.
Within(format, pieces, a, b) ==
  {Document(format, "clean", <<a>> \o Mixed(pieces, k, 2) \o <<b>>) : k \in 0..(Len(pieces) ^ 2) - 1}

-----------------------------------------------------------------------------
MCNameSyms == {"p", "fb:p", "x", "empty-line", "binary", "br", "a", "b", "-", "title", "hellip", "bogus"}
MCLocalName == [n \in MCNameSyms |-> IF n = "fb:p" THEN "p" ELSE n]
MCFb2Blocks == {"p", "v", "title"}
MCFb2Skips == {"binary"}
MCFb3Blocks == {"p", "title"}
MCKnown == [n \in {"hellip"} |-> "..."]

Markup == <<
  Literal(<<"a">>), Literal(<<" ">>), Literal(<<NL, "a", " ", "b">>), Unseen(<<"<", "p", ">">>),
  P(<<"<", "/", "p", ">">>, B("break")), P(<<"<", "/", "fb:p", " ", ">">>, B("break")),
  Unseen(<<"<", "fb:p", " ", "x", "'", ">", "\"", "'", ">">>), Unseen(<<"<", "/", "x", ">">>),
  P(<<"&", "hellip", ";">>, T(<<"...">>)), P(<<"&", "bogus", ";">>, T(<<"&", "bogus", ";">>)),
  Unseen(<<"<", "!", "-", "-", "<", "p", "-", ">", "-", "-", "-", ">">>),
  P(<<"<", "![CDATA[", " ", "<", "]", "]", "]", ">">>, T(<<" ", "<", "]">>)),
  Unseen(<<"<", "?", "a", ">", "?", ">">>), P(<<"<", " ">>, T(<<"<", " ">>)) >>
Fb2Only == <<
  P(<<"<", "empty-line", "/", ">">>, B("blank")), Unseen(<<"<", "binary", "/", ">">>),
  Unseen(<<"<", "binary", ">", "a", "<", "p", ">", "<", "x", "/", ">", "<", "/", "p", ">",
           "<", "![CDATA[", "<", "/", "]", "]", ">", "&", "<", "/", "binary", ">">>) >>
Fb3Only == << P(<<"<", "br", "/", ">">>, B("break")), Unseen(<<"<", "empty-line", "/", ">">>) >>

\* Pieces that leave a construct open.
Open == << Literal(<<"a">>), P(<<"<", "/", "p", ">">>, B("break")), Unseen(<<"<">>), Unseen(<<"<", "p">>),
  Unseen(<<"<", "/">>), Unseen(<<"<", "p", "'">>), Unseen(<<"<", "!">>), Unseen(<<"<", "!", "-">>),
  Unseen(<<"<", "!", "-", "-", ">">>), Unseen(<<"<", "?">>), Unseen(<<"<", "![CDATA[">>),
  Unseen(<<"&">>), Unseen(<<"<", "binary", ">">>) >>

-----------------------------------------------------------------------------
Token(kind, name, text) == [kind |-> kind, name |-> name, text |-> text]
Start(name) == Token("start", name, <<>>)
End(name) == Token("end", name, <<>>)
Hidden(text) == Token("text", "", text)
MCHtmlBlocks == {"p", "br"}
MCHtmlSkips == {"script", "head"}
MCHeadElements == {"title", "script"}
Text1(text) == P(<<Token("text", "", text)>>, T(text))
HtmlPieces == <<
  Text1(<<"a">>), Text1(<<" ">>), Text1(<<" ", "a", "b">>),
  P(<<Start("p")>>, B("break")), P(<<End("p")>>, B("break")), P(<<Token("self", "br", <<>>)>>, B("break")),
  Unseen(<<Start("b"), Hidden(<<>>)>>), Unseen(<<Start("script"), Hidden(<<"a">>), Start("p"), End("p"), End("script")>>),
  Unseen(<<Start("head"), Start("title"), Hidden(<<"a">>), End("title"), End("head")>>),
  P(<<Start("head"), Hidden(<<"a">>), Start("p")>>, B("break")), Unseen(<<Start("head"), Hidden(<<"a">>), End("body")>>),
  Unseen(<<Token("self", "script", <<>>), End("head")>>) >>

MCDigit == [c \in {"0", "1", "2", "3", "6", "9", "e", "d"} |->
  CASE c = "0" -> 0 [] c = "1" -> 1 [] c = "2" -> 2 [] c = "3" -> 3 [] c = "6" -> 6 [] c = "9" -> 9
    [] c = "d" -> 13 [] OTHER -> 14]
Q == "\""
PmlPieces == <<
  Literal(<<"a">>), P(<<NL>>, B("break")), P(<<CR, NL>>, B("break")), P(<<CR, "b">>, B("break") \o T(<<"b">>)),
  P(<<"\\", "p">>, B("paragraph")), P(<<"\\", "X", "1", "a">>, B("paragraph") \o T(<<"a">>)),
  P(<<"\\", "C", "0", "=", Q, "a", NL, "b", Q>>, B("paragraph") \o T(<<"a">>) \o B("break") \o T(<<"b">>) \o B("paragraph")),
  P(<<"\\", "a", "1", "6", "9">>, T(<<"u169">>)), P(<<"\\", "U", "0", "0", "e", "9", "1">>, T(<<"u233", "1">>)),
  P(<<"\\", "a", "0", "1", "3", NL, "a">>, B("break") \o T(<<"a">>)), Literal(<<"\\", "a", "1", "e", "9">>),
  Literal(<<"\\", "U", "d", "9", "0", "0">>),
  P(<<"\\", "\\", "v">>, T(<<"\\", "v">>)), Unseen(<<"\\", "v", "a", "\\", "\\", "v">>), Unseen(<<"\\", "m", "=", Q, "a", Q>>),
  P(<<"\\", "S", "a">>, T(<<"a">>)), Unseen(<<"\\", "S", "p", "=", Q, "a", Q>>), Unseen(<<"\\", "F", "n">>) >>
PmlOpen == << Literal(<<"a">>), Unseen(<<"\\">>), Unseen(<<"\\", "v">>), Unseen(<<"\\", "a", "1">>),
  Unseen(<<"\\", "C", "=">>), Unseen(<<"\\", "w", "=", Q>>), Unseen(<<"\\", "b", "=">>), Unseen(<<CR>>) >>

\* A byte of a whole mark is not text.
LrfBytes == << "EF", "BF", "BC", "a" >>
LrfDocument(k) ==
  LET text == Mixed(LrfBytes, k, 5)
      marked == {i \in 1..5 : \E j \in 0..2 : i > j /\ i - j <= 3 /\ SubSeq(text, i - j, i - j + 2) = Mark}
  IN Document("lrf", "clean", [i \in 1..5 |-> IF i \in marked THEN Unseen(<<text[i]>>) ELSE Literal(<<text[i]>>)])

-----------------------------------------------------------------------------
MCEncoding == [e \in {<<"C3", "A9">>, <<"C3", "89">>, <<"C2", "AD">>, <<"E2", "80", "94">>} |->
  CASE e = <<"C3", "A9">> -> "e'" [] e = <<"C3", "89">> -> "E'" [] e = <<"C2", "AD">> -> "shy" [] OTHER -> "dash"]
MCDropped == {"shy"}
MCDelimiter == {" ", NL, "dash", RuneError}
MCRunes == {"a", "b", "e'", "E'"}
MCFold == [r \in MCRunes |-> IF r = "E'" THEN "e'" ELSE r]
Ord(r) == CASE r = "a" -> 1 [] r = "b" -> 2 [] OTHER -> 3
MCSeeds == {1, 2}
MCHash(x, s) == FoldLeft(LAMBDA h, w : FoldLeft(LAMBDA g, r : (g * (2 + s) + Ord(r)) % 31, h, w), s, x)
MCHashBits == {0, 1}
MCBitSet(x, b) == ((MCHash(x, 1) \div (b + 1)) % 2) = 1
HashPieces == << Literal(<<"a", " ", "b", "E2", "80", "94", "C3">>), Literal(<<"A9", " ", "a">>), Literal(<<"C3", "89", "b">>),
  Literal(<<" ", "E2", "80">>), Literal(<<"C3", "A9", NL, "b", "C2", "AD", "a">>), Literal(<<"b", " ", "a", "a", " ", "b">>) >>

-----------------------------------------------------------------------------
S == Space
D == Dash
I13 == <<9, 7, 8, 0, 3, 0, 6, 4, 0, 6, 1, 5, 7>>
I10 == <<0, 3, 0, 6, 4, 0, 6, 1, 5, 2>>
IX == <<0, 8, 0, 4, 4, 2, 9, 5, 7, 10>>
I979 == <<9, 7, 9, 1, 0, 3, 4, 3, 0, 4, 8, 3>>
MCTestCores == {<<1, 2, 3, 4, 5, 6, 7, 8, 9>>, <<3, 1, 4, 1, 5, 9, 2, 6, 5>>}
Isbn(symbols, isbn) == P(symbols, <<Part("number", <<>>, symbols, isbn)>>)
Other(s) == Isbn(s, None)
IsbnPieces == <<
  Isbn(<<9, 7, 8, D, 0, S, 3, 0, 6, D, D, 4, 0, 6, 1, 5, D, 7>>, I13), Isbn(I10, I10),
  Isbn(<<0, D, 8, 0, 4, 4, S, 2, 9, 5, 7, D, 10>>, IX), Isbn(Append(I979, CheckDigit13(I979)), Append(I979, CheckDigit13(I979))),
  Isbn(<<Label, D, 1, 0, Colon, S>> \o I10, I10), Isbn(<<Label, S, 1, 3, S>> \o I13, I13), Isbn(<<Urn>> \o I13, I13),
  Isbn(<<Label, S, 1, 0, 2, 0, 3, 0, 4, 0, 5, CheckDigit10(<<1, 0, 2, 0, 3, 0, 4, 0, 5>>)>>,
       <<1, 0, 2, 0, 3, 0, 4, 0, 5, CheckDigit10(<<1, 0, 2, 0, 3, 0, 4, 0, 5>>)>>),
  Other(<<0, 3, 0, 6, 4, 0, 6, 1, 5, 3>>), Other(I10 \o <<1>>), Other(<<9, 7, 8>> \o I13),
  Other(<<0, 3, 0, OtherDash, 6, 4, 0, 6, 1, 5, 2>>), Other(<<2, 0, 0, 3>>),
  Other(<<1, 2, 3, 4, 5, 6, 7, 8, 9, CheckDigit10(<<1, 2, 3, 4, 5, 6, 7, 8, 9>>)>>),
  Other(<<9, 7, 8, 1, 1, 1, 2, 1, 2, 1, 2, 1, CheckDigit13(<<9, 7, 8, 1, 1, 1, 2, 1, 2, 1, 2, 1>>)>>) >>
Word == Unseen(<<Letter>>)
IsbnDocument(kind, pieces, between) ==
  Document("isbn", kind, FlattenSeq([i \in DOMAIN pieces |-> <<pieces[i], between>>]))

-----------------------------------------------------------------------------
Hashed(d) == [d EXCEPT !.hashed = TRUE]
Cancellable(d) == [d EXCEPT !.cancellable = TRUE]
Limited(d, n, broken) == [d EXCEPT !.limit = n, !.broken = broken, !.kind = "cut"]

Cut(docs) == {Limited(d, n, broken) : d \in docs, n \in 1..4, broken \in BOOLEAN}

MCDocs == <<
  Within("fb2", Markup \o Fb2Only, Literal(<<"a">>), Literal(<<"b">>)),
  Within("fb3", Markup \o Fb3Only, Literal(<<"a">>), Literal(<<"b">>)),
  Within("html", HtmlPieces, Text1(<<"a">>), Text1(<<"b">>)), All("html", "clean", HtmlPieces, 2),
  Within("pml", PmlPieces, Literal(<<"a">>), Literal(<<"b">>)), All("pml", "clean", PmlPieces, 2),
  {LrfDocument(k) : k \in 0..1023}, {Hashed(d) : d \in All("fb3", "clean", HashPieces, 2)},
  {Cancellable(d) : d \in All("fb2", "clean", Markup, 1)}, {Cancellable(d) : d \in All("html", "clean", HtmlPieces, 2)},
  {Cancellable(d) : d \in All("pml", "clean", PmlPieces, 1)}, {Cancellable(LrfDocument(k)) : k \in 0..15},
  All("fb2", "open", Open, 2), All("fb3", "open", Open, 2), All("pml", "open", PmlOpen, 2),
  Cut(All("fb2", "clean", Markup, 1)), Cut(All("html", "clean", HtmlPieces, 1)), Cut(All("pml", "clean", PmlPieces, 1)),
  {IsbnDocument("words", Mixed(IsbnPieces, k, 2), Word) : k \in 0..(Len(IsbnPieces) ^ 2) - 1} >>

\* Bodies whose source breaks off or exceeds its limit.
MCCutDocs == <<Cut(All("fb3", "clean", <<Literal(<<"a">>), P(<<"<", "/", "p", ">">>, B("break"))>>, 3))>>

\* An empty line next to the end of a paragraph and next to another empty line.
MCBlankDocs ==
  <<Within("fb2", << P(<<"<", "/", "p", ">">>, B("break")), P(<<"<", "empty-line", "/", ">">>, B("blank")) >>,
           Literal(<<"a">>), Literal(<<"b">>))>>
==============================================================================
