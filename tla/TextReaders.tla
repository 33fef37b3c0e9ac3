----------------------------- MODULE TextReaders -----------------------------
(***************************************************************************)
(* What the five converters to plain text share (converter/*totext.go):    *)
(* the source they pull from, behind util.LimitReader, and the reader they *)
(* hand to the client, whose Read may be called with any buffer and whose  *)
(* context may be cancelled at any moment.                                 *)
(*                                                                         *)
(* A text is a sequence of symbols.  A symbol is a byte of markup, a whole *)
(* name or word, or a token of the HTML tokenizer.                         *)
(***************************************************************************)
EXTENDS Naturals, Sequences, SequencesExt, FiniteSetsExt, TLC

CONSTANTS
  Docs,     \* families of resources to convert: format, text (or tokens), the size limit,
            \* whether the source breaks off, whether its context is ever cancelled
  Rooms     \* sizes of the buffers Read is called with

IsList(s) == s \in Seq(ToSet(s))

\* Those of the five converters; "isbn" is a text to search.
Formats == {"fb2", "fb3", "html", "pml", "lrf"}

ASSUME DocsAssumption ==
  \A i \in DOMAIN Docs : \A d \in Docs[i] :
    /\ d.format \in Formats \cup {"isbn"}
    /\ d.limit \in Nat /\ IsList(d.text) /\ IsList(d.tokens) /\ IsList(d.digits)
    /\ \A k \in DOMAIN d.tokens : IsList(d.tokens[k].text)
ASSUME RoomsAssumption == Rooms \subseteq Nat \ {0}

VARIABLES
  doc,      \* the resource
  src,      \* the symbols its source yields
  reader,   \* the reader's own fields
  room,     \* size of the buffer of the Read in progress, 0 outside Read
  filled,   \* what the HTML reader has put in that buffer
  err,      \* the reader's sticky error, "" while there is none
  cancelled,
  got       \* all that Read has returned

textvars == <<doc, src, reader, room, filled, err, cancelled, got>>

NL == "NL"
Newlines(n) == [i \in 1..n |-> NL]

\* limitReader: at most limit symbols, then one probe of the source, whose
\* error is dropped.
Symbols(d) == IF d.format = "html" THEN d.tokens ELSE d.text
Served(d) == SubSeq(Symbols(d), 1, Min({d.limit, Len(Symbols(d))}))
SourceEnd == IF Len(Symbols(doc)) > doc.limit THEN "limit"
             ELSE IF doc.broken /\ Len(Symbols(doc)) < doc.limit THEN "broken" ELSE "eof"

Sym(i) == IF i <= Len(src) THEN src[i] ELSE "EOF"
EndOfSource == Len(src) + 1

\* The first symbol of S at i or later; that of a marker's last symbol.  Both
\* are EndOfSource when there is none.
IndexFrom(i, S) == Min({j \in i..Len(src) : src[j] \in S} \cup {EndOfSource})
MarkerFrom(i, marker) ==
  Min({j \in i + Len(marker) - 1..Len(src) : SubSeq(src, j - Len(marker) + 1, j) = marker}
      \cup {EndOfSource})

NewReader == [pos |-> 1, out |-> <<>>, cur |-> <<>>, breaks |-> 0, emitted |-> FALSE,
              lineStart |-> TRUE, depth |-> 0, skipTag |-> "", held |-> 0, done |-> FALSE]

InitText ==
  /\ \E i \in DOMAIN Docs : doc \in Docs[i]
  /\ src = Served(doc)
  /\ reader = NewReader /\ room = 0 /\ filled = <<>> /\ err = "" /\ cancelled = FALSE /\ got = <<>>

Html == doc.format = "html"
\* The markup and HTML readers look at the context before anything else, the
\* PML and LRF readers only when they have nothing ready.
ContextFirst == doc.format \in {"fb2", "fb3", "html"}

-----------------------------------------------------------------------------
(* Read. *)
Return(chunk, tail, e) ==
  /\ got' = got \o chunk /\ room' = 0 /\ filled' = <<>>
  /\ reader' = [reader EXCEPT !.out = tail] /\ err' = e
  /\ UNCHANGED <<doc, src, cancelled>>

CallRead(n) ==
  /\ room = 0 /\ err = ""
  /\ IF ContextFirst /\ cancelled THEN Return(<<>>, reader.out, "cancelled")
     ELSE room' = n /\ UNCHANGED <<doc, src, reader, filled, err, cancelled, got>>

\* What is ready is copied, as much as fits.
Copy ==
  /\ room > 0 /\ filled = <<>> /\ reader.out # <<>>
  /\ Return(SubSeq(reader.out, 1, Min({room, Len(reader.out)})), SubSeq(reader.out, room + 1, Len(reader.out)), "")

\* Nothing is ready: one construct of the source is consumed.
Scanning == room > 0 /\ reader.out = <<>> /\ ~reader.done
Scan(step) ==
  /\ Scanning /\ reader' = step
  /\ UNCHANGED <<doc, src, room, filled, err, cancelled, got>>

\* PML and LRF look at the context before every construct; a scan of the markup
\* readers is not interrupted.
SeeCancel ==
  /\ Scanning /\ cancelled /\ doc.format \in {"pml", "lrf"}
  /\ Return(<<>>, <<>>, "cancelled")

\* Any end of the source is the end of the text.
ReadEnd ==
  /\ room > 0 /\ ~Html /\ reader.out = <<>> /\ reader.done
  /\ Return(<<>>, <<>>, "eof")

Cancel ==
  /\ doc.cancellable /\ ~cancelled /\ err = "" /\ cancelled' = TRUE
  /\ UNCHANGED <<doc, src, reader, room, filled, err, got>>
=============================================================================
