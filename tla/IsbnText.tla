------------------------------- MODULE IsbnText -------------------------------
(***************************************************************************)
(* FindISBNs and the values it yields (tools/isbn.go, isbn_find.go,        *)
(* isbn_placeholder.go).  A text is a sequence of symbols after            *)
(* normalizeISBNText: the digits 0..9, and the classes of characters the   *)
(* patterns tell apart.                                                    *)
(***************************************************************************)
EXTENDS Integers, Sequences, SequencesExt, FiniteSetsExt, FiniteSets, Selection

CONSTANT TestCores    \* nine-digit cores that occur in examples

LetterX == 10    \* x and X
Space == 11
Dash == 12       \* a dash that NormalizeISBN accepts as well
OtherDash == 13  \* one that only the patterns accept
Colon == 14
Label == 15      \* "ISBN", in any of the forms isbnMarker accepts
Urn == 16        \* "urn:isbn:"
Letter == 17     \* anything else

Decimal == 0..9

\* A set of numbers as a sequence, the least first.
Ascending(S) == [k \in 1..Cardinality(S) |-> CHOOSE x \in S : Cardinality({y \in S : y < x}) = k - 1]
PatternSep == {Space, Dash, OtherDash}
Separator == {Space, Dash}

-----------------------------------------------------------------------------
(* Check digits. *)
Weights10 == [i \in 1..10 |-> 11 - i]
Weights13 == [i \in 1..13 |-> IF i % 2 = 1 THEN 1 ELSE 3]
Weighted(s, weights) ==
  LET sum[k \in 0..Len(s)] == IF k = 0 THEN 0 ELSE sum[k - 1] + weights[k] * s[k]
  IN sum[Len(s)]
Sum10(s) == Weighted(s, Weights10)
Sum13(s) == Weighted(s, Weights13)

ValidISBN10(s) == (Sum10(s) % 11) = 0
ValidISBN13(s) == SubSeq(s, 1, 3) \in {<<9, 7, 8>>, <<9, 7, 9>>} /\ (Sum13(s) % 10) = 0

CheckDigit10(body) == (11 - (Sum10(body) % 11)) % 11
CheckDigit13(body) == (10 - (Sum13(body) % 10)) % 10

None == <<>>

WithCheckDigit13(body) == Append(body, CheckDigit13(body))
WithCheckDigit10(body) == Append(body, CheckDigit10(body))

ToISBN13(isbn) == IF Len(isbn) = 13 THEN isbn ELSE WithCheckDigit13(<<9, 7, 8>> \o SubSeq(isbn, 1, 9))

\* None for a 979 one.
ToISBN10(isbn) ==
  CASE Len(isbn) = 10 -> isbn
    [] Len(isbn) = 13 /\ isbn[3] = 8 -> WithCheckDigit10(SubSeq(isbn, 4, 12))
    [] OTHER -> None

-----------------------------------------------------------------------------
(* NormalizeISBN. *)
From(s, full) == IF full = {} THEN <<>> ELSE SubSeq(s, Min(full), Len(s))
TrimWhile(s, C) == From(s, {i \in DOMAIN s : s[i] \notin C})
SkipSeps(s) == TrimWhile(s, Separator)

WithoutUrn(t) == IF t # <<>> /\ t[1] = Urn THEN TrimWhile(Tail(t), {Space}) ELSE t
TrimPrefix(s) == WithoutUrn(TrimWhile(s, {Space}))

\* trimISBNLabel: "ISBN", with 10 or 13 where these stand alone.
StandsAlone(rest) == Len(rest) = 2 \/ (Len(rest) > 2 /\ rest[3] \in Separator \cup {Colon})
WithoutNumber(rest) ==
  IF StandsAlone(rest) /\ SubSeq(rest, 1, 2) \in {<<1, 0>>, <<1, 3>>}
  THEN SkipSeps(SubSeq(rest, 3, Len(rest))) ELSE rest
WithoutColon(rest) == IF rest # <<>> /\ rest[1] = Colon THEN Tail(rest) ELSE rest
TrimLabel(s) ==
  IF s = <<>> \/ s[1] # Label THEN s ELSE SkipSeps(WithoutColon(WithoutNumber(SkipSeps(Tail(s)))))

Kept(s) == Where(s, LAMBDA c : c \notin Separator)

Digital(d) ==
  /\ Len(d) \in {10, 13}
  /\ \A i \in DOMAIN d : d[i] \in Decimal \/ (Len(d) = 10 /\ i = 10 /\ d[i] = LetterX)
Valid(d) == Digital(d) /\ IF Len(d) = 10 THEN ValidISBN10(d) ELSE ValidISBN13(d)

\* The digits of a candidate, None when it is not one.
ValidOnly(d) == IF Valid(d) THEN d ELSE None
NormalizeISBN(s) == ValidOnly(Kept(TrimLabel(TrimPrefix(s))))

-----------------------------------------------------------------------------
(* Placeholders. *)
Core(isbn) == IF Len(isbn) = 10 THEN SubSeq(isbn, 1, 9) ELSE SubSeq(isbn, 4, 12)

SequentialDigits(c) ==
  \E step \in {1, 9} : \A i \in 2..Len(c) : c[i] = (c[i - 1] + step) % 10
RepeatedPattern(c) ==
  \/ \E period \in {2, 3} : \A i \in period + 1..Len(c) : c[i] = c[i - period]
  \/ \A i \in {1, 4, 7} : c[i] = c[i + 1] /\ c[i] = c[i + 2]
HasDigitRun(c, n) ==
  \E i \in 1..Len(c) + 1 - n : \A j \in i..i + n - 1 : c[j] = c[i]

\* PlaceholderKind: all digits the same is a case of few distinct ones.
PlaceholderCore(c) ==
  \/ c \in TestCores \/ SequentialDigits(c) \/ RepeatedPattern(c)
  \/ HasDigitRun(c, 6) \/ Cardinality(ToSet(c)) <= 2
Placeholder(isbn) == PlaceholderCore(Core(isbn))

BookISBN(d) == IF d = None \/ Placeholder(d) THEN None ELSE d
ValidateBookISBN(s) == BookISBN(NormalizeISBN(s))

-----------------------------------------------------------------------------
(* The patterns.  A core starts with a digit and runs over digits and dashes or
   space; its end is where its last digit is, 0 when it does not match. *)
NotIn(t, i, C) == {j \in i..Len(t) : t[j] \notin C}
FirstOf(t, places) == Min(places \cup {Len(t) + 1})

Nth(places, n) == IF Len(places) < n THEN 0 ELSE places[n]
DigitsUpTo(t, i, stop) == Where([k \in 1..stop - i |-> i + k - 1], LAMBDA j : t[j] \in Decimal)
NthDigit(t, i, n) ==
  IF i > Len(t) \/ t[i] \notin Decimal THEN 0
  ELSE Nth(DigitsUpTo(t, i, FirstOf(t, NotIn(t, i, Decimal \cup PatternSep))), n)

Core13(t, i) == IF i + 2 <= Len(t) /\ SubSeq(t, i, i + 2) \in {<<9, 7, 8>>, <<9, 7, 9>>} THEN NthDigit(t, i, 13) ELSE 0

\* The tenth may be an X.
TenthAt(t, j) == IF j <= Len(t) /\ t[j] \in Decimal \cup {LetterX} THEN j ELSE 0
Tenth(t, ninth) == IF ninth = 0 THEN 0 ELSE TenthAt(t, FirstOf(t, NotIn(t, ninth + 1, PatternSep)))
Core10(t, i) == Tenth(t, NthDigit(t, i, 9))

CoreEnd(t, i, n) == IF n = 13 THEN Core13(t, i) ELSE Core10(t, i)

\* The next symbol that is not space, also after one of C.
PastSpace(t, i) == FirstOf(t, NotIn(t, i, {Space}))
PastOneOf(t, j, C) == PastSpace(t, IF j <= Len(t) /\ t[j] \in C THEN j + 1 ELSE j)
PastColon(t, i) == PastOneOf(t, PastSpace(t, i), {Colon})
PastDash(t, i) == PastOneOf(t, PastSpace(t, i), {Dash, OtherDash})

\* isbnMarker: where the core may start after a label, preferably after 10 or
\* 13 as well.
AfterNumber(t, k) == IF SubSeq(t, k, k + 1) \in {<<1, 0>>, <<1, 3>>} THEN <<PastColon(t, k + 2)>> ELSE <<>>
AfterMarker(t, i) == Append(AfterNumber(t, PastDash(t, i + 1)), PastColon(t, i + 1))
Starts(t, i, marked) == IF ~marked THEN <<i>> ELSE IF t[i] = Label THEN AfterMarker(t, i) ELSE <<>>

\* FindAllStringSubmatchIndex: the matches from left to right, none within an
\* earlier one.
Cores(t, starts, n) ==
  Where([k \in DOMAIN starts |-> [start |-> starts[k], end |-> CoreEnd(t, starts[k], n)]], LAMBDA m : m.end # 0)
NextMatch(before, i, cores) ==
  IF i <= before.end \/ cores = <<>> THEN before
  ELSE [end |-> cores[1].end, matches |-> Append(before.matches, cores[1])]
Matches(t, n, marked) ==
  LET upTo[i \in 0..Len(t)] ==
        IF i = 0 THEN [end |-> 0, matches |-> <<>>]
        ELSE NextMatch(upTo[i - 1], i, Cores(t, Starts(t, i, marked), n))
  IN upTo[Len(t)].matches

\* A bare number must not continue a longer one on either side.
Bounded(t, m, marked) ==
  /\ marked \/ m.start = 1 \/ t[m.start - 1] \notin Decimal
  /\ m.end = Len(t) \/ t[m.end + 1] \notin Decimal

Candidate(t, m, marked) ==
  [pos |-> m.start, isbn |-> IF Bounded(t, m, marked) THEN ValidateBookISBN(SubSeq(t, m.start, m.end)) ELSE None]
ValidCandidates(t, matches, marked) ==
  Where([k \in DOMAIN matches |-> Candidate(t, matches[k], marked)], LAMBDA c : c.isbn # None)
Candidates(t, n, marked) == ValidCandidates(t, Matches(t, n, marked), marked)

AllCandidates(t) ==
  Candidates(t, 13, TRUE) \o Candidates(t, 10, TRUE) \o Candidates(t, 13, FALSE) \o Candidates(t, 10, FALSE)

\* A stable sort.
ByPosition(t, all) == FlattenSeq([p \in 1..Len(t) |-> Where(all, LAMBDA c : c.pos = p)])

\* Seeded bug: repeats are recognised by their digits.
FirstsForms(sorted) == {i \in DOMAIN sorted : \A j \in 1..i - 1 : sorted[j].isbn # sorted[i].isbn}

Firsts(sorted) == {i \in DOMAIN sorted : \A j \in 1..i - 1 : ToISBN13(sorted[j].isbn) # ToISBN13(sorted[i].isbn)}

IsbnsAt(sorted, places) == [i \in DOMAIN places |-> sorted[places[i]].isbn]
OncePerBook(sorted) == IsbnsAt(sorted, Ascending(Firsts(sorted)))

\* In order of first appearance, one for each ISBN-13.
FindISBNs(t) == OncePerBook(ByPosition(t, AllCandidates(t)))
=============================================================================
