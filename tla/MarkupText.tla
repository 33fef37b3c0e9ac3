------------------------------ MODULE MarkupText ------------------------------
(***************************************************************************)
(* The tolerant scanners of FB2 and FB3 bodies (converter/fb2totext.go and *)
(* fb3totext.go), one construct of the markup at a time.  The two are the  *)
(* same but for their blocks, FB2's empty-line and skipped subtrees, and   *)
(* FB3's br.                                                               *)
(***************************************************************************)
EXTENDS TextReaders

CONSTANTS
  NameSyms,    \* symbols made of name characters: names and words
  LocalName,   \* localName: a name without its prefix
  Fb2Blocks, Fb2Skips, Fb3Blocks,
  Known,       \* entities that stand for a character, and that character
  EntityMax,   \* bytes after '&' among which its ';' is looked for
  MaxLine      \* maxLineBuffer

ASSUME EntityAssumption == EntityMax \in Nat

Blank == {" ", NL}
Quotes == {"'", "\""}
Specials == {"!", "?", "![CDATA["}

ASSUME NamesAssumption == NameSyms \cap ({"EOF", "/"} \cup Specials) = {}

TrimLeft(s) == LET full == {i \in DOMAIN s : s[i] \notin Blank} IN
  IF full = {} THEN <<>> ELSE SubSeq(s, Min(full), Len(s))

-----------------------------------------------------------------------------
(* Lines. *)
\* Seeded bug: a line flushed for its length counts as a new line.
AppendTextNewLine(f, s) ==
  LET text == IF f.lineStart THEN TrimLeft(s) ELSE s
      line == f.cur \o text
      long == Len(line) > MaxLine
  IN IF text = <<>> THEN f
     ELSE [f EXCEPT !.out = @ \o (IF f.emitted THEN Newlines(f.breaks) ELSE <<>>)
                              \o (IF long THEN line ELSE <<>>),
                    !.cur = IF long THEN <<>> ELSE line,
                    !.emitted = @ \/ long, !.breaks = 0, !.lineStart = long]

AppendText(f, s) ==
  LET text == IF f.lineStart THEN TrimLeft(s) ELSE s
      line == f.cur \o text
      long == Len(line) > MaxLine
  IN IF text = <<>> THEN f
     ELSE [f EXCEPT !.out = @ \o (IF f.emitted THEN Newlines(f.breaks) ELSE <<>>)
                              \o (IF long THEN line ELSE <<>>),
                    !.cur = IF long THEN <<>> ELSE line,
                    !.emitted = @ \/ long, !.breaks = 0, !.lineStart = FALSE]

BreakLine(f) ==
  [f EXCEPT !.out = @ \o f.cur, !.emitted = @ \/ f.cur # <<>>, !.cur = <<>>,
            !.breaks = @ + 1, !.lineStart = TRUE]

\* Seeded bug: the end of the source is not remembered.
FinishOpen(f) == [f EXCEPT !.out = @ \o f.cur, !.cur = <<>>]

\* Pending breaks are dropped at the end.
Finish(f) == [f EXCEPT !.out = @ \o f.cur, !.cur = <<>>, !.done = TRUE]

At(f, i) == [f EXCEPT !.pos = i]

-----------------------------------------------------------------------------
(* Markup. *)

\* skipToTagEnd: the next '>' outside quotes.
TagEnd[i \in Nat] ==
  LET j == IndexFrom(i, {">"} \cup Quotes) IN
    IF Sym(j) \in Quotes THEN TagEnd[IndexFrom(j + 1, {src[j]}) + 1] ELSE j

\* readTagName: symbols that touch make up one name, unknown to both formats.
TagName(i) ==
  IF Sym(i) \in NameSyms /\ Sym(i + 1) \notin NameSyms THEN LocalName[Sym(i)] ELSE ""

\* parseStartTag: a tag cut off by the end of the text counts as closed.
SelfClosing(i) == TagEnd[i] = EndOfSource \/ src[TagEnd[i] - 1] = "/"

\* skipSpecial: the last symbol of a processing instruction, comment, CDATA
\* section or declaration, whose first symbols are consumed unseen.
SpecialEnd(i) ==
  CASE Sym(i) = "?"        -> MarkerFrom(i + 1, <<"?", ">">>)
    [] Sym(i) = "![CDATA[" -> MarkerFrom(i + 1, <<"]", "]", ">">>)
    [] OTHER -> IF Sym(i + 1) # "-" THEN TagEnd[i + 2]
                ELSE IF Sym(i + 2) # "-" THEN TagEnd[i + 3]
                ELSE MarkerFrom(i + 3, <<"-", "-", ">">>)

\* copyCdata: literally, up to "]]>"; all the rest when there is none.
CopyCdata(f, i) ==
  LET end == SpecialEnd(i) IN
    IF end = EndOfSource THEN Finish(AppendText(f, SubSeq(src, i + 1, Len(src))))
    ELSE AppendText(f, SubSeq(src, i + 1, end - 3))

SkipSpecial(f, i) ==
  At(IF Sym(i) = "![CDATA[" /\ f.depth = 0 THEN CopyCdata(f, i) ELSE f, SpecialEnd(i) + 1)

\* html.UnescapeString on "&", what was read, ";".
Unescape(s) ==
  LET n == Len(s) IN
    IF n > 0 /\ s[n] \in DOMAIN Known /\ (n = 1 \/ s[n - 1] = "&")
    THEN SubSeq(<<"&">> \o s, 1, n - 1) \o <<Known[s[n]]>>
    ELSE <<"&">> \o s \o <<";">>

\* The ';' is looked for among whatever follows, markup included.
ParseEntity(f, i) ==
  LET end == IndexFrom(i, {";"})  last == i + EntityMax - 1 IN
    IF end <= last /\ end # EndOfSource THEN At(AppendText(f, Unescape(SubSeq(src, i, end - 1))), end + 1)
    ELSE IF last <= Len(src) THEN At(AppendText(f, <<"&">> \o SubSeq(src, i, last)), last + 1)
    ELSE At(Finish(AppendText(f, <<"&">> \o SubSeq(src, i, Len(src)))), EndOfSource)

StartTag(f, name, closed) ==
  CASE doc.format = "fb3" /\ name = "br" -> BreakLine(f)
    [] doc.format = "fb2" /\ name = "empty-line" -> LET g == BreakLine(f) IN
         [g EXCEPT !.breaks = IF @ < 2 THEN 2 ELSE @]
    [] doc.format = "fb2" /\ name \in Fb2Skips /\ ~closed -> [f EXCEPT !.depth = 1]
    [] OTHER -> f

\* Block ends start a new line.
EndTag(f, name) ==
  IF name \in (IF doc.format = "fb2" THEN Fb2Blocks ELSE Fb3Blocks) THEN BreakLine(f) ELSE f

ParseTag(f, i) ==
  CASE Sym(i) = "EOF"     -> At(Finish(AppendText(f, <<"<">>)), i)
    [] Sym(i) = "/"       -> At(EndTag(f, TagName(i + 1)), TagEnd[i + 1] + 1)
    [] Sym(i) \in Specials -> SkipSpecial(f, i)
    [] Sym(i) \in NameSyms -> At(StartTag(f, TagName(i), SelfClosing(i)), TagEnd[i] + 1)
    [] OTHER              -> At(AppendText(f, <<"<">>), i)

\* scanSkipped: one tag within a skipped subtree.
ScanSkipped(f) ==
  LET i == IndexFrom(f.pos, {"<"}) + 1 IN
    CASE Sym(i) = "EOF"     -> At(Finish(f), i)
      [] Sym(i) = "/"       -> At([f EXCEPT !.depth = @ - 1], TagEnd[i + 1] + 1)
      [] Sym(i) \in Specials -> SkipSpecial(f, i)
      [] Sym(i) \in NameSyms ->
           At([f EXCEPT !.depth = IF SelfClosing(i) THEN @ ELSE @ + 1], TagEnd[i] + 1)
      [] OTHER              -> At(f, i + 1)

\* scan: the text up to the next construct, and that construct.
ScanMarkup(f) ==
  LET i == IndexFrom(f.pos, {"<", "&"})
      g == AppendText(f, SubSeq(src, f.pos, i - 1))
  IN CASE Sym(i) = "<" -> ParseTag(g, i + 1)
       [] Sym(i) = "&" -> ParseEntity(g, i + 1)
       [] OTHER        -> At(Finish(g), i)

ReadFb2 ==
  /\ doc.format = "fb2"
  /\ Scan(IF reader.depth > 0 THEN ScanSkipped(reader) ELSE ScanMarkup(reader))

ReadFb3 == doc.format = "fb3" /\ Scan(ScanMarkup(reader))
=============================================================================
