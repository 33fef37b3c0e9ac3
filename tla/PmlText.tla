------------------------------- MODULE PmlText -------------------------------
(***************************************************************************)
(* The PML reader (converter/pmltotext.go), one byte or tag at a time, and *)
(* the LRF reader (lrftotext.go), which drops the marks left for images.   *)
(***************************************************************************)
EXTENDS TextReaders

CONSTANT Digit    \* value of a digit's symbol, base 16

CR == "CR"

-----------------------------------------------------------------------------
(* Output. *)
PmlBreak(f) == [f EXCEPT !.breaks = IF @ < 2 THEN @ + 1 ELSE @]
Paragraph(f) == PmlBreak(PmlBreak(f))

\* A CR looks at the source for its LF, wherever the CR came from.
WriteByte(f, c) ==
  CASE c = CR -> PmlBreak([f EXCEPT !.pos = IF Sym(@) = NL THEN @ + 1 ELSE @])
    [] c = NL -> PmlBreak(f)
    [] OTHER -> [f EXCEPT !.out = @ \o (IF f.emitted THEN Newlines(f.breaks) ELSE <<>>) \o <<c>>,
                          !.breaks = 0, !.emitted = TRUE]

EmitRaw(f, s) ==
  LET after[k \in 0..Len(s)] == IF k = 0 THEN f ELSE WriteByte(after[k - 1], s[k])
  IN after[Len(s)]

-----------------------------------------------------------------------------
(* Tags. *)
Move(f, i) == [f EXCEPT !.pos = i]

\* readValue: ="...", to the end of the source when nothing closes it.  What
\* follows a '=' is consumed even when it is no quote.
HasValue(f) == Sym(f.pos) = "=" /\ Sym(f.pos + 1) = "\""
Value(f) == SubSeq(src, f.pos + 2, IndexFrom(f.pos + 2, {"\""}) - 1)
ReadValue(f) ==
  CASE HasValue(f)        -> Move(f, IndexFrom(f.pos + 2, {"\""}) + 1)
    [] Sym(f.pos) # "="   -> f
    [] OTHER              -> Move(f, f.pos + 2)

DecimalDigits == {c \in DOMAIN Digit : Digit[c] < 10}
SkipDigit(f) == IF Sym(f.pos) \in DecimalDigits THEN Move(f, f.pos + 1) ELSE f

Number(s, base) == FoldLeft(LAMBDA v, c : v * base + Digit[c], 0, s)
\* parseCodeValue: digits of the base, and no surrogate.
ValidCode(s, base) ==
  /\ \A i \in DOMAIN s : s[i] \in DOMAIN Digit /\ Digit[s[i]] < base
  /\ Number(s, base) \notin 55296..57343   \* four digits never exceed utf8.MaxRune
Rune(v) == CASE v = 10 -> NL [] v = 13 -> CR [] OTHER -> "u" \o ToString(v)

\* \a and three decimals, \U and four hexadecimals; anything else is literal.
ParseCode(f, lead, n, base) ==
  LET end == f.pos + n - 1
      digits == SubSeq(src, f.pos, Min({end, Len(src)}))
      g == Move(f, Min({end, Len(src)}) + 1)
  IN IF end <= Len(src) /\ ValidCode(digits, base) THEN EmitRaw(g, <<Rune(Number(digits, base))>>)
     ELSE EmitRaw(g, <<"\\", lead>> \o digits)

\* \C with a level: its title stands in a paragraph of its own.
Chapter(f) ==
  LET g == SkipDigit(f) IN
    IF g = f THEN f
    ELSE Paragraph(IF HasValue(g) THEN EmitRaw(Paragraph(ReadValue(g)), Value(g)) ELSE ReadValue(g))

\* \F and \S take a second letter, and a value only with it.
Second(f, letters) == IF Sym(f.pos) \in letters THEN ReadValue(Move(f, f.pos + 1)) ELSE f

ParsePmlTag(f) ==
  LET d == Sym(f.pos)  g == Move(f, f.pos + 1) IN
    CASE d = "EOF"  -> EmitRaw(f, <<"\\">>)
      [] d = "\\"   -> EmitRaw(g, <<"\\">>)
      [] d = "v"    -> Move(g, MarkerFrom(g.pos, <<"\\", "v">>) + 1)
      [] d = "a"    -> ParseCode(g, "a", 3, 10)
      [] d = "U"    -> ParseCode(g, "U", 4, 16)
      [] d = "x"    -> Paragraph(g)
      [] d = "X"    -> Paragraph(SkipDigit(g))
      [] d = "C"    -> Chapter(g)
      [] d \in {"p", "w"} -> Paragraph(ReadValue(g))
      [] d = "F"    -> Second(g, {"n"})
      [] d = "S"    -> Second(g, {"p", "b", "d"})
      [] OTHER      -> ReadValue(g)

ScanPml(f) ==
  LET c == Sym(f.pos)  g == Move(f, f.pos + 1) IN
    CASE c = "EOF" -> [f EXCEPT !.done = TRUE]
      [] c = "\\"  -> ParsePmlTag(g)
      [] OTHER     -> WriteByte(g, c)

-----------------------------------------------------------------------------
(* LRF: the mark is the byte sequence Mark; held bytes of it may yet turn out
   to be text. *)
Mark == <<"EF", "BF", "BC">>

AppendByte(f, c) == IF c = Mark[1] THEN [f EXCEPT !.held = 1] ELSE [f EXCEPT !.out = @ \o <<c>>, !.held = 0]
Release(f) == [f EXCEPT !.out = @ \o SubSeq(Mark, 1, f.held), !.held = 0]

ScanLrf(f) ==
  LET c == Sym(f.pos)  g == [f EXCEPT !.pos = @ + 1] IN
    IF c = "EOF" THEN [Release(f) EXCEPT !.done = TRUE]
    ELSE CASE f.held = 0                         -> AppendByte(g, c)
           [] f.held > 0 /\ c # Mark[f.held + 1] -> AppendByte(Release(g), c)
           [] OTHER                              -> [g EXCEPT !.held = (@ + 1) % 3]

ReadPml == doc.format = "pml" /\ ~cancelled /\ Scan(ScanPml(reader))
ReadLrf == doc.format = "lrf" /\ ~cancelled /\ Scan(ScanLrf(reader))
=============================================================================
