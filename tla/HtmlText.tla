------------------------------- MODULE HtmlText -------------------------------
(***************************************************************************)
(* The HTML reader (converter/htmltotext.go) over the tokens of            *)
(* golang.org/x/net/html: [kind |-> "start" | "self" | "end" | "text",     *)
(* name, text].  Unlike the others it fills the whole buffer of Read, from *)
(* as many tokens as that takes.                                           *)
(***************************************************************************)
EXTENDS TextReaders

CONSTANTS HtmlBlocks, HtmlSkips, HeadElements

HtmlBlank(s) == \A i \in DOMAIN s : s[i] \in {" ", NL}

HtmlBreak(f) == IF f.emitted THEN [f EXCEPT !.breaks = 1] ELSE f

\* Within a skipped element tags are ignored, except that any element that
\* does not belong in a head ends one.
HtmlStartTag(f, name, closed) ==
  LET ends == f.skipTag = "head" /\ name \notin HeadElements
      g == IF ends THEN [f EXCEPT !.skipTag = ""] ELSE f
  IN IF g.skipTag # "" THEN g
     ELSE IF name \in HtmlSkips THEN IF closed THEN g ELSE [g EXCEPT !.skipTag = name]
     ELSE IF name \in HtmlBlocks THEN HtmlBreak(g) ELSE g

HtmlEndTag(f, name) ==
  CASE f.skipTag # "" ->
         IF name = f.skipTag \/ (f.skipTag = "head" /\ name \in {"body", "html"})
         THEN [f EXCEPT !.skipTag = ""] ELSE f
    [] f.skipTag = "" /\ name \in HtmlBlocks -> HtmlBreak(f)
    [] OTHER -> f

\* Text out of sight, and the space between blocks.
Structural(f, s) ==
  f.skipTag # "" \/ s = <<>> \/ (HtmlBlank(s) /\ (f.breaks > 0 \/ ~f.emitted))

\* Seeded bug: the newline still owed is forgotten when it fills the buffer.
HtmlTextTokenOwed(f, s) ==
  [f EXCEPT !.out = Newlines(f.breaks) \o s, !.emitted = TRUE,
            !.breaks = IF Len(filled) + 1 = room THEN @ ELSE 0]

\* The newline owed and the text.
HtmlTextToken(f, s) == [f EXCEPT !.out = Newlines(f.breaks) \o s, !.emitted = TRUE, !.breaks = 0]

ScanHtml(f) ==
  LET t == src[f.pos]  g == [f EXCEPT !.pos = @ + 1] IN
    CASE t.kind = "text" -> IF Structural(f, t.text) THEN g ELSE HtmlTextToken(g, t.text)
      [] t.kind = "end"  -> HtmlEndTag(g, t.name)
      [] OTHER           -> HtmlStartTag(g, t.name, t.kind = "self")

Filling == Html /\ room > 0 /\ err = "" /\ reader.out = <<>> /\ Len(filled) < room

\* What a token yields goes to the buffer, what does not fit to buf.
HtmlToken ==
  /\ Filling /\ ~cancelled /\ reader.pos <= Len(src)
  /\ LET step == ScanHtml(reader)  all == filled \o step.out IN
       /\ filled' = SubSeq(all, 1, Min({room, Len(all)}))
       /\ reader' = [step EXCEPT !.out = SubSeq(all, room + 1, Len(all))]
  /\ UNCHANGED <<doc, src, room, err, cancelled, got>>

\* The error is kept for the next Read when this one has something to return.
HtmlStop ==
  /\ Filling /\ (cancelled \/ reader.pos > Len(src))
  /\ Return(filled, <<>>, IF cancelled THEN "cancelled" ELSE SourceEnd)

HtmlFull ==
  /\ Html /\ room > 0 /\ filled # <<>> /\ (Len(filled) = room \/ reader.out # <<>>)
  /\ Return(filled, reader.out, "")

ReadHtml == HtmlToken \/ HtmlStop \/ HtmlFull
=============================================================================
