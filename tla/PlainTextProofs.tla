--------------------------- MODULE PlainTextProofs ---------------------------
(***************************************************************************)
(* Proofs about PlainText, for every document, every size of buffer, every *)
(* length of shingle and every encoding of characters: what the five       *)
(* converters return is one text of the source, whatever the buffers, the  *)
(* fingerprint of what was returned is that of its words, wherever the     *)
(* reads cut characters and words apart, and the ISBNs found in a text are *)
(* sound.                                                                  *)
(***************************************************************************)
EXTENDS PlainText, ListLemmas

-----------------------------------------------------------------------------
(* Lists of anything *)

\* A list over some set is a list.
LEMMA ListIsList ==
  ASSUME NEW A, NEW s \in Seq(A)
  PROVE  IsList(s) /\ ToSet(s) \subseteq A /\ ToSet(s) = Of(s)
<1>1. ToSet(s) = Of(s) /\ Of(s) \subseteq A /\ Len(s) \in Nat
  BY OfIsToSet, OfList
<1>2. \A i \in 1..Len(s) : s[i] \in ToSet(s)
  BY <1>1, OfList
<1>3. s \in Seq(ToSet(s))
  BY <1>1, <1>2, LenProperties
<1> QED
  BY <1>1, <1>3 DEF IsList

LEMMA JoinList ==
  ASSUME NEW s, NEW t, IsList(s), IsList(t)
  PROVE  IsList(s \o t)
<1> DEFINE A == ToSet(s) \cup ToSet(t)
<1>1. s \in Seq(A) /\ t \in Seq(A)
  BY SeqMonotonic DEF IsList
<1> HIDE DEF A
<1> QED
  BY <1>1, ConcatProperties, ListIsList

\* Whatever s is.
LEMMA PieceList ==
  ASSUME NEW s, NEW m \in Int, NEW n \in Int
  PROVE  IsList(SubSeq(s, m, n)) /\ Len(SubSeq(s, m, n)) = IF m <= n THEN n - m + 1 ELSE 0
<1> DEFINE A == {s[i] : i \in m..n}
<1>1. \A i \in m..n : s[i] \in A
  OBVIOUS
<1> HIDE DEF A
<1>2. SubSeq(s, m, n) \in Seq(A) /\ Len(SubSeq(s, m, n)) = IF m <= n THEN n - m + 1 ELSE 0
  BY <1>1, SubSeqProperties
<1> QED
  BY <1>2, ListIsList

LEMMA EmptyIsList == IsList(<<>>)
BY EmptyList DEF IsList

LEMMA AppendIsList ==
  ASSUME NEW s, NEW x, IsList(s)
  PROVE  IsList(Append(s, x))
<1> DEFINE A == ToSet(s) \cup {x}
<1>1. s \in Seq(A) /\ x \in A
  BY SeqMonotonic DEF IsList
<1> HIDE DEF A
<1> QED
  BY <1>1, AppendProperties, ListIsList

LEMMA FunctionIsList ==
  ASSUME NEW n \in Nat, NEW f, f = [i \in 1..n |-> f[i]]
  PROVE  IsList(f) /\ Len(f) = n
<1> DEFINE A == {f[i] : i \in 1..n}
<1>1. f \in [1..n -> A]
  OBVIOUS
<1> HIDE DEF A
<1>2. f \in Seq(A) /\ Len(f) = n
  BY <1>1, LenProperties
<1> QED
  BY <1>2, ListIsList

LEMMA ListFacts ==
  ASSUME NEW s, IsList(s)
  PROVE  Len(s) \in Nat /\ DOMAIN s = 1..Len(s) /\ s = [i \in 1..Len(s) |-> s[i]]
<1> DEFINE A == ToSet(s)
<1>1. s \in Seq(A)
  BY DEF IsList
<1> HIDE DEF A
<1>2. Len(s) \in Nat /\ s \in [1..Len(s) -> A]
  BY <1>1, LenProperties
<1> QED
  BY <1>2

LEMMA ListsEqual ==
  ASSUME NEW s, NEW t, IsList(s), IsList(t), Len(s) = Len(t), \A i \in 1..Len(s) : s[i] = t[i]
  PROVE  s = t
<1>1. s = [i \in 1..Len(s) |-> s[i]] /\ t = [i \in 1..Len(t) |-> t[i]]
  BY ListFacts
<1> QED
  BY <1>1

LEMMA SingleIsList ==
  ASSUME NEW x
  PROVE  IsList(<<x>>) /\ Len(<<x>>) = 1 /\ <<x>>[1] = x
<1>1. <<x>> \in Seq({x}) /\ Len(<<x>>) = 1 /\ <<x>>[1] = x
  OBVIOUS
<1> DEFINE s == <<x>>
<1>2. s \in Seq({x}) /\ s = <<x>>
  BY <1>1
<1> HIDE DEF s
<1>3. IsList(s)
  BY <1>2, ListIsList
<1> QED
  BY <1>1, <1>3 DEF s

LEMMA AppendPoints ==
  ASSUME NEW s, NEW x, IsList(s)
  PROVE  /\ IsList(Append(s, x)) /\ Len(Append(s, x)) = Len(s) + 1
         /\ \A i \in 1..Len(s) : Append(s, x)[i] = s[i]
         /\ Append(s, x)[Len(s) + 1] = x
<1> DEFINE A == ToSet(s) \cup {x}
<1>1. s \in Seq(A) /\ x \in A
  BY SeqMonotonic DEF IsList
<1> HIDE DEF A
<1> QED
  BY <1>1, AppendProperties, AppendIsList

LEMMA JoinPoints ==
  ASSUME NEW s, NEW t, IsList(s), IsList(t)
  PROVE  /\ IsList(s \o t) /\ Len(s \o t) = Len(s) + Len(t)
         /\ \A i \in 1..Len(s) : (s \o t)[i] = s[i]
         /\ \A i \in 1..Len(t) : (s \o t)[Len(s) + i] = t[i]
<1> DEFINE A == ToSet(s) \cup ToSet(t)
           u == s \o t
           m == Len(s)
           n == Len(t)
<1>1. s \in Seq(A) /\ t \in Seq(A)
  BY SeqMonotonic DEF IsList
<1> HIDE DEF A
<1>2. /\ m \in Nat /\ n \in Nat /\ u \in Seq(A) /\ Len(u) = m + n
      /\ \A i \in 1..m + n : u[i] = IF i <= m THEN s[i] ELSE t[i - m]
  BY <1>1, ConcatProperties, LenProperties
<1>3. IsList(u)
  BY JoinList
<1> HIDE DEF u, m, n
<1>4. \A i \in 1..m : i \in 1..m + n /\ u[i] = s[i]
  BY <1>2
<1>5. \A i \in 1..n : m + i \in 1..m + n /\ ~(m + i <= m) /\ (m + i) - m = i
  BY <1>2
<1>6. \A i \in 1..n : u[m + i] = t[i]
  BY <1>2, <1>5
<1> QED
  BY <1>2, <1>3, <1>4, <1>6 DEF u, m, n

LEMMA PiecePoints ==
  ASSUME NEW s, NEW m \in Int, NEW n \in Int
  PROVE  \A i \in 1..Len(SubSeq(s, m, n)) : SubSeq(s, m, n)[i] = s[m + i - 1] /\ m + i - 1 \in m..n
<1> DEFINE A == {s[i] : i \in m..n}
<1>1. \A i \in m..n : s[i] \in A
  OBVIOUS
<1> HIDE DEF A
<1>2. /\ Len(SubSeq(s, m, n)) = IF m <= n THEN n - m + 1 ELSE 0
      /\ \A i \in 1..n - m + 1 : SubSeq(s, m, n)[i] = s[m + i - 1]
  BY <1>1, SubSeqProperties
<1> QED
  BY <1>2

\* A prefix agrees with the longer list as far as it goes.
LEMMA PrefixPoints ==
  ASSUME NEW s, NEW t, IsList(s), IsList(t)
  PROVE  IsPrefix(s, t) <=> Len(s) <= Len(t) /\ \A i \in 1..Len(s) : s[i] = t[i]
<1> DEFINE A == ToSet(s) \cup ToSet(t)
           n == Len(s)
<1>1. s \in Seq(A) /\ t \in Seq(A)
  BY SeqMonotonic DEF IsList
<1> HIDE DEF A
<1>2. n \in Nat /\ Len(t) \in Nat /\ SubSeq(s, 1, n) = s
  BY <1>1, LenProperties, SubSeqFull
<1>3. ASSUME n <= Len(t) PROVE SubSeq(t, 1, n) = s <=> \A i \in 1..n : s[i] = t[i]
  <2>1. \A i \in 1..n : t[i] \in A
    BY <1>1, <1>2, <1>3, ElementOfSeq
  <2>2. /\ SubSeq(t, 1, n) \in Seq(A) /\ Len(SubSeq(t, 1, n)) = n
        /\ \A i \in 1..n : SubSeq(t, 1, n)[i] = t[i]
    BY <1>2, <2>1, SubSeqProperties
  <2>3. (\A i \in 1..n : s[i] = t[i]) => SubSeq(t, 1, n) = s
    BY <1>1, <2>2, SeqEqual
  <2> QED
    BY <2>2, <2>3
<1> QED
  BY <1>2, <1>3 DEF IsPrefix

-----------------------------------------------------------------------------
(* Characters *)

AnyRune(A) == A \cup {RuneError} \cup {Encoding[e] : e \in DOMAIN Encoding}

\* The rest of a list from i on.
Rest(s, i) == SubSeq(s, i, Len(s))

LEMMA RestFacts ==
  ASSUME NEW A, NEW s \in Seq(A), NEW i \in Nat \ {0}
  PROVE  /\ Rest(s, i) \in Seq(A)
         /\ Len(Rest(s, i)) = IF i <= Len(s) THEN Len(s) - i + 1 ELSE 0
         /\ \A j \in 1..Len(Rest(s, i)) : Rest(s, i)[j] = s[i + j - 1] /\ i + j - 1 \in i..Len(s)
<1>1. Len(s) \in Nat /\ i \in Int /\ Len(s) \in Int /\ \A j \in i..Len(s) : s[j] \in A
  BY LenProperties, ElementOfSeq
<1>2. /\ Rest(s, i) \in Seq(A) /\ Len(Rest(s, i)) = IF i <= Len(s) THEN Len(s) - i + 1 ELSE 0
      /\ \A j \in 1..Len(s) - i + 1 : Rest(s, i)[j] = s[i + j - 1]
  BY <1>1, SubSeqProperties DEF Rest
<1> QED
  BY <1>1, <1>2

\* What is left of a list after more of it is left after both.
LEMMA RestOfRest ==
  ASSUME NEW A, NEW s \in Seq(A), NEW i \in Nat \ {0}, NEW j \in Nat \ {0}
  PROVE  Rest(Rest(s, i), j) = Rest(s, i + j - 1)
<1> DEFINE u == Rest(s, i)
           v == Rest(u, j)
           w == Rest(s, i + j - 1)
<1>1. /\ u \in Seq(A) /\ Len(u) = IF i <= Len(s) THEN Len(s) - i + 1 ELSE 0
      /\ \A k \in 1..Len(u) : u[k] = s[i + k - 1]
  BY RestFacts
<1> HIDE DEF u
<1>2. /\ v \in Seq(A) /\ Len(v) = IF j <= Len(u) THEN Len(u) - j + 1 ELSE 0
      /\ \A k \in 1..Len(v) : v[k] = u[j + k - 1] /\ j + k - 1 \in j..Len(u)
  BY <1>1, RestFacts
<1> HIDE DEF v
<1>3. i + j - 1 \in Nat \ {0}
  OBVIOUS
<1>4. /\ w \in Seq(A) /\ Len(w) = IF i + j - 1 <= Len(s) THEN Len(s) - (i + j - 1) + 1 ELSE 0
      /\ \A k \in 1..Len(w) : w[k] = s[(i + j - 1) + k - 1]
  BY <1>3, RestFacts
<1> HIDE DEF w
<1>5. Len(s) \in Nat
  BY LenProperties
<1>6. Len(v) = Len(w)
  BY <1>1, <1>2, <1>4, <1>5
<1>7. ASSUME NEW k \in 1..Len(v) PROVE v[k] = w[k]
  <2>1. v[k] = u[j + k - 1] /\ j + k - 1 \in 1..Len(u)
    BY <1>2
  <2>2. u[j + k - 1] = s[i + (j + k - 1) - 1]
    BY <1>1, <2>1
  <2>3. i + (j + k - 1) - 1 = (i + j - 1) + k - 1
    BY <1>7, <1>2, <1>5, LenProperties
  <2> QED
    BY <1>4, <1>6, <2>1, <2>2, <2>3
<1>8. v = w
  BY <1>2, <1>4, <1>6, <1>7, SeqEqual
<1> QED
  BY <1>8 DEF u, v, w

LEMMA RestOfJoin ==
  ASSUME NEW A, NEW s \in Seq(A), NEW t \in Seq(A), NEW i \in 1..Len(s) + 1
  PROVE  Rest(s \o t, i) = Rest(s, i) \o t
<1> DEFINE u == Rest(s, i)
           w == s \o t
           x == Rest(w, i)
           y == u \o t
<1>1. Len(s) \in Nat /\ Len(t) \in Nat /\ i \in Nat \ {0}
  BY LenProperties
<1>2. /\ u \in Seq(A) /\ Len(u) = Len(s) - i + 1
      /\ \A j \in 1..Len(u) : u[j] = s[i + j - 1]
  BY <1>1, RestFacts
<1>3. /\ w \in Seq(A) /\ Len(w) = Len(s) + Len(t)
      /\ \A j \in 1..Len(s) + Len(t) : w[j] = IF j <= Len(s) THEN s[j] ELSE t[j - Len(s)]
  BY ConcatProperties
<1> HIDE DEF u, w
<1>4. /\ x \in Seq(A) /\ Len(x) = IF i <= Len(w) THEN Len(w) - i + 1 ELSE 0
      /\ \A j \in 1..Len(x) : x[j] = w[i + j - 1] /\ i + j - 1 \in i..Len(w)
  BY <1>1, <1>3, RestFacts
<1>5. /\ y \in Seq(A) /\ Len(y) = Len(u) + Len(t)
      /\ \A j \in 1..Len(u) + Len(t) : y[j] = IF j <= Len(u) THEN u[j] ELSE t[j - Len(u)]
  BY <1>2, ConcatProperties
<1> HIDE DEF x, y
<1>6. Len(x) = Len(y)
  BY <1>1, <1>2, <1>3, <1>4, <1>5
<1>7. ASSUME NEW j \in 1..Len(x) PROVE x[j] = y[j]
  <2>1. x[j] = w[i + j - 1] /\ i + j - 1 \in 1..Len(s) + Len(t)
    BY <1>1, <1>3, <1>4
  <2>2. CASE j <= Len(u)
    <3>1. i + j - 1 <= Len(s) /\ y[j] = u[j] /\ u[j] = s[i + j - 1]
      BY <1>1, <1>2, <1>5, <1>6, <2>2
    <3> QED
      BY <1>3, <2>1, <3>1
  <2>3. CASE ~(j <= Len(u))
    <3>1. ~(i + j - 1 <= Len(s)) /\ y[j] = t[j - Len(u)] /\ (i + j - 1) - Len(s) = j - Len(u)
      BY <1>1, <1>2, <1>5, <1>6, <2>3
    <3> QED
      BY <1>3, <2>1, <3>1
  <2> QED
    BY <2>2, <2>3
<1>8. x = y
  BY <1>4, <1>5, <1>6, <1>7, SeqEqual
<1> QED
  BY <1>8 DEF x, y, u, w

\* What looks whole does not change when more comes.
LEMMA PartialJoin ==
  ASSUME NEW A, NEW s \in Seq(A), NEW t \in Seq(A), s # <<>>, ~Partial(s)
  PROVE  /\ ~Partial(s \o t)
         /\ \A e \in DOMAIN Encoding : IsPrefix(e, s \o t) <=> IsPrefix(e, s)
<1> DEFINE w == s \o t
<1>0. Len(s) \in Nat /\ Len(t) \in Nat /\ IsList(s)
  BY LenProperties, ListIsList
<1>1. /\ Len(s) \in Nat /\ Len(t) \in Nat /\ IsList(s) /\ IsList(w) /\ Len(w) = Len(s) + Len(t)
      /\ \A i \in 1..Len(s) : w[i] = s[i]
  <2>1. /\ w \in Seq(A) /\ Len(w) = Len(s) + Len(t)
        /\ \A i \in 1..Len(s) + Len(t) : w[i] = IF i <= Len(s) THEN s[i] ELSE t[i - Len(s)]
    BY ConcatProperties
  <2> HIDE DEF w
  <2>2. IsList(w)
    BY <2>1, ListIsList
  <2> QED
    BY <1>0, <2>1, <2>2
<1> HIDE DEF w
<1>2. ASSUME NEW e \in DOMAIN Encoding
      PROVE  ~IsStrictPrefix(w, e) /\ (IsPrefix(e, w) <=> IsPrefix(e, s))
  <2>1. IsList(e) /\ Len(e) \in Nat
    BY EncodingAssumption, LenProperties DEF IsList
  <2>2. ~(IsPrefix(s, e) /\ s # e)
    BY DEF Partial, IsStrictPrefix
  <2>3. /\ IsPrefix(s, e) <=> Len(s) <= Len(e) /\ \A i \in 1..Len(s) : s[i] = e[i]
        /\ IsPrefix(w, e) <=> Len(w) <= Len(e) /\ \A i \in 1..Len(w) : w[i] = e[i]
        /\ IsPrefix(e, s) <=> Len(e) <= Len(s) /\ \A i \in 1..Len(e) : e[i] = s[i]
        /\ IsPrefix(e, w) <=> Len(e) <= Len(w) /\ \A i \in 1..Len(e) : e[i] = w[i]
    BY <1>1, <2>1, PrefixPoints
  <2>4. IsPrefix(w, e) => IsPrefix(s, e)
    BY <1>1, <2>1, <2>3
  <2>5. IsPrefix(e, s) => IsPrefix(e, w)
    BY <1>1, <2>1, <2>3
  <2>6. IsPrefix(e, w) /\ Len(e) <= Len(s) => IsPrefix(e, s)
    BY <1>1, <2>1, <2>3
  <2>7. IsPrefix(e, w) /\ Len(s) < Len(e) => IsPrefix(s, e)
    BY <1>1, <2>1, <2>3
  <2>8. IsPrefix(s, e) => IsPrefix(e, s) /\ Len(e) = Len(s)
    BY <1>1, <2>1, <2>2, <2>3
  <2>9. IsPrefix(e, w) => IsPrefix(e, s)
    BY <1>1, <2>1, <2>6, <2>7, <2>8
  <2>10. IsStrictPrefix(w, e) => FALSE
    <3> SUFFICES ASSUME IsPrefix(w, e), w # e PROVE FALSE
      BY DEF IsStrictPrefix
    <3>1. s = e
      BY <2>2, <2>4
    <3>2. Len(w) = Len(e) /\ \A i \in 1..Len(w) : w[i] = e[i]
      BY <1>1, <2>3, <3>1
    <3>3. w = e
      <4> DEFINE B == ToSet(w) \cup ToSet(e)
      <4>1. w \in Seq(B) /\ e \in Seq(B)
        BY <1>1, <2>1, SeqMonotonic DEF IsList
      <4> HIDE DEF B
      <4> QED
        BY <3>2, <4>1, SeqEqual
    <3> QED
      BY <3>3
  <2> QED
    BY <2>5, <2>9, <2>10
<1>3. ~Partial(w)
  BY <1>2 DEF Partial
<1> QED
  BY <1>2, <1>3 DEF w

Fits(p) == {e \in DOMAIN Encoding : IsPrefix(e, p)}

\* RuneAt sees nothing of s but its rest.
LEMMA RuneOfRest ==
  ASSUME NEW A, NEW s \in Seq(A), NEW i \in 1..Len(s), NEW r, r = Rest(s, i)
  PROVE  RuneAt(s, i) = IF Fits(r) # {}
                        THEN [rune |-> Encoding[CHOOSE e \in Fits(r) : TRUE], size |-> Len(CHOOSE e \in Fits(r) : TRUE)]
                        ELSE [rune |-> IF r[1] \in Leads THEN RuneError ELSE r[1], size |-> 1]
<1>1. Len(s) \in Nat /\ i \in Nat \ {0} /\ 1 \in 1..Len(r) /\ r[1] = s[i]
  BY LenProperties, RestFacts
<1> QED
  BY <1>1 DEF RuneAt, Fits, Rest

LEMMA RuneType ==
  ASSUME NEW A, NEW s \in Seq(A), NEW i \in 1..Len(s)
  PROVE  /\ RuneAt(s, i).rune \in AnyRune(A)
         /\ RuneAt(s, i).size \in Nat \ {0}
         /\ i + RuneAt(s, i).size <= Len(s) + 1
<1> DEFINE r == Rest(s, i)
           c == CHOOSE e \in Fits(r) : TRUE
<1>1. Len(s) \in Nat /\ i \in Nat \ {0} /\ r \in Seq(A) /\ Len(r) = Len(s) - i + 1 /\ r[1] = s[i] /\ s[i] \in A
  BY LenProperties, RestFacts, ElementOfSeq
<1>2. RuneAt(s, i) = IF Fits(r) # {} THEN [rune |-> Encoding[c], size |-> Len(c)]
                     ELSE [rune |-> IF r[1] \in Leads THEN RuneError ELSE r[1], size |-> 1]
  BY RuneOfRest
<1> HIDE DEF r
<1>3. CASE Fits(r) = {}
  BY <1>1, <1>2, <1>3 DEF AnyRune
<1>4. CASE Fits(r) # {}
  <2>1. c \in Fits(r)
    BY <1>4
  <2> HIDE DEF c
  <2>2. c \in DOMAIN Encoding /\ IsPrefix(c, r) /\ IsList(c) /\ c # <<>>
    BY <2>1, EncodingAssumption DEF Fits
  <2>3. Len(c) \in Nat \ {0} /\ Len(c) <= Len(r)
    BY <2>2, EmptySeq DEF IsList, IsPrefix
  <2> QED
    BY <1>1, <1>2, <1>4, <2>2, <2>3 DEF AnyRune
<1> QED
  BY <1>3, <1>4

-----------------------------------------------------------------------------
(* Decoding *)

LEMMA UpTo ==
  ASSUME NEW n \in Nat, NEW S, 0 \in S, \A k \in 1..n : k - 1 \in S => k \in S
  PROVE  0..n \subseteq S
<1> DEFINE T == {k \in Nat : k <= n => k \in S}
<1>1. 0 \in T
  OBVIOUS
<1>2. \A k \in Nat : k \in T => k + 1 \in T
  <2> SUFFICES ASSUME NEW k \in Nat, k + 1 <= n, k \in S PROVE k + 1 \in S
    OBVIOUS
  <2>1. k + 1 \in 1..n /\ (k + 1) - 1 = k
    OBVIOUS
  <2> QED
    BY <2>1
<1> HIDE DEF T
<1>3. Nat \subseteq T
  BY <1>1, <1>2, AllNaturals
<1> QED
  BY <1>3 DEF T

DecodeStart == [runes |-> <<>>, rest |-> 1]

\* How far the decoding of s may be.
Decoded(s, A) == {d \in [runes : Seq(AnyRune(A)), rest : Nat \ {0}] : d.rest <= Len(s) + 1}
Stuck(s, d) == d.rest > Len(s) \/ Partial(Rest(s, d.rest))

LEMMA DecodeNextFacts ==
  ASSUME NEW A, NEW s \in Seq(A), NEW d \in Decoded(s, A)
  PROVE  /\ Stuck(s, d) => DecodeNext(s, d) = d
         /\ ~Stuck(s, d) =>
              /\ d.rest \in 1..Len(s)
              /\ DecodeNext(s, d) = [runes |-> Append(d.runes, RuneAt(s, d.rest).rune),
                                     rest |-> d.rest + RuneAt(s, d.rest).size]
              /\ DecodeNext(s, d).rest \in Nat /\ DecodeNext(s, d).rest > d.rest
         /\ DecodeNext(s, d) \in Decoded(s, A)
<1>1. Len(s) \in Nat /\ d.rest \in Nat \ {0} /\ d.runes \in Seq(AnyRune(A)) /\ d.rest <= Len(s) + 1
  BY LenProperties DEF Decoded
<1>2. CASE Stuck(s, d)
  BY <1>2 DEF Stuck, DecodeNext, Rest
<1>3. CASE ~Stuck(s, d)
  <2> DEFINE r == RuneAt(s, d.rest)
             e == Append(d.runes, r.rune)
  <2>1. d.rest \in 1..Len(s)
    BY <1>1, <1>3 DEF Stuck
  <2>2. DecodeNext(s, d) = [runes |-> e, rest |-> d.rest + r.size]
    BY <1>3 DEF Stuck, DecodeNext, Rest
  <2>3. r.rune \in AnyRune(A) /\ r.size \in Nat \ {0} /\ d.rest + r.size <= Len(s) + 1
    BY <2>1, RuneType
  <2> HIDE DEF r
  <2>4. e \in Seq(AnyRune(A))
    BY <1>1, <2>3, AppendProperties
  <2> HIDE DEF e
  <2>5. d.rest + r.size \in Nat \ {0} /\ d.rest + r.size > d.rest
    BY <1>1, <2>3
  <2>6. DecodeNext(s, d) \in Decoded(s, A)
    BY <2>2, <2>3, <2>4, <2>5 DEF Decoded
  <2> QED
    BY <1>3, <2>1, <2>2, <2>5, <2>6 DEF r, e
<1> QED
  BY <1>2, <1>3

LEMMA StartDecoded ==
  ASSUME NEW A, NEW s \in Seq(A)
  PROVE  DecodeStart \in Decoded(s, A)
BY LenProperties, EmptySeq DEF DecodeStart, Decoded

\* m rounds of the loop.
Decoding(u, s, m) == u = [k \in 0..m |-> IF k = 0 THEN DecodeStart ELSE DecodeNext(s, u[k - 1])]

LEMMA DecodingSteps ==
  ASSUME NEW u, NEW s, NEW m \in Nat, Decoding(u, s, m)
  PROVE  u[0] = DecodeStart /\ \A k \in 1..m : u[k] = DecodeNext(s, u[k - 1])
<1>1. \A k \in 0..m : u[k] = IF k = 0 THEN DecodeStart ELSE DecodeNext(s, u[k - 1])
  BY DEF Decoding
<1>2. 0 \in 0..m /\ \A k \in 1..m : k \in 0..m /\ k # 0
  OBVIOUS
<1> QED
  BY <1>1, <1>2

LEMMA DecodingOnce ==
  ASSUME NEW s, NEW m \in Nat, NEW u, Decoding(u, s, m), NEW v, Decoding(v, s, m)
  PROVE  u = v
<1>1. u = [k \in 0..m |-> u[k]] /\ v = [k \in 0..m |-> v[k]]
  BY DEF Decoding
<1>2. u[0] = v[0]
  BY DecodingSteps
<1>3. \A k \in 1..m : u[k - 1] = v[k - 1] => u[k] = v[k]
  BY DecodingSteps
<1>4. \A k \in 0..m : u[k] = v[k]
  BY <1>2, <1>3, RunsAgree
<1> QED
  BY <1>1, <1>4

LEMMA DecodingExists ==
  ASSUME NEW A, NEW s \in Seq(A), NEW m \in Nat
  PROVE  \E u \in [0..m -> Decoded(s, A)] : Decoding(u, s, m)
<1> DEFINE D == Decoded(s, A)
           F == [q \in Nat \X D |-> DecodeNext(s, q[2])]
           a == DecodeStart
<1>1. a \in D
  BY StartDecoded
<1>2. \A d \in D : DecodeNext(s, d) \in D
  BY DecodeNextFacts
<1> HIDE DEF D, a
<1>3. F \in [Nat \X D -> D]
  BY <1>2
<1>4. \A k \in Nat, d \in D : F[<<k, d>>] = DecodeNext(s, d)
  OBVIOUS
<1> HIDE DEF F
<1>5. HasRun(D, a, F, m)
  BY <1>1, <1>3, Iterates
<1>6. PICK f \in [0..m -> D] : f[0] = a /\ \A k \in 1..m : f[k] = F[<<k, f[k - 1]>>]
  BY <1>5 DEF HasRun, Repeats
<1>7. ASSUME NEW k \in 0..m PROVE f[k] = IF k = 0 THEN a ELSE DecodeNext(s, f[k - 1])
  <2>1. CASE k = 0
    BY <1>6, <2>1
  <2>2. CASE k # 0
    <3>1. k \in 1..m /\ k \in Nat /\ f[k - 1] \in D
      BY <1>6, <2>2
    <3> QED
      BY <1>4, <1>6, <2>2, <3>1
  <2> QED
    BY <2>1, <2>2
<1>8. f = [k \in 0..m |-> f[k]]
  BY <1>6
<1>9. Decoding(f, s, m)
  BY <1>7, <1>8 DEF Decoding, a
<1> QED
  BY <1>6, <1>9 DEF D

LEMMA DecodeRecurs ==
  ASSUME NEW A, NEW s \in Seq(A)
  PROVE  \E u \in [0..Len(s) -> Decoded(s, A)] : Decoding(u, s, Len(s)) /\ Decode(s) = u[Len(s)]
<1>1. Len(s) \in Nat
  BY LenProperties
<1>2. PICK u \in [0..Len(s) -> Decoded(s, A)] : Decoding(u, s, Len(s))
  BY <1>1, DecodingExists
<1>3. Decode(s) = (CHOOSE v : Decoding(v, s, Len(s)))[Len(s)]
  BY DEF Decode, Decoding, DecodeStart
<1>4. \A v : Decoding(v, s, Len(s)) => v = u
  BY <1>1, <1>2, DecodingOnce
<1> QED
  BY <1>2, <1>3, <1>4

\* A round that finds nothing to do is the last one that matters.
LEMMA DecodingStays ==
  ASSUME NEW A, NEW s \in Seq(A), NEW m \in Nat, NEW u \in [0..m -> Decoded(s, A)], Decoding(u, s, m),
         NEW k \in 0..m, Stuck(s, u[k]), NEW j \in k..m
  PROVE  u[j] = u[k]
<1> DEFINE S == {i \in Nat : k + i <= m => u[k + i] = u[k]}
<1>1. 0 \in S
  OBVIOUS
<1>2. ASSUME NEW i \in Nat, i \in S PROVE i + 1 \in S
  <2> SUFFICES ASSUME k + (i + 1) <= m PROVE u[k + (i + 1)] = u[k]
    OBVIOUS
  <2>1. u[k + i] = u[k] /\ k + (i + 1) \in 1..m /\ (k + (i + 1)) - 1 = k + i
    BY <1>2
  <2>2. u[k + (i + 1)] = DecodeNext(s, u[k + i])
    BY <2>1, DecodingSteps
  <2> QED
    BY <2>1, <2>2, DecodeNextFacts
<1> HIDE DEF S
<1>3. Nat \subseteq S
  BY <1>1, <1>2, AllNaturals
<1>4. j - k \in Nat /\ k + (j - k) = j /\ j <= m
  OBVIOUS
<1> QED
  BY <1>3, <1>4 DEF S

\* There are enough rounds.
LEMMA DecodingEnds ==
  ASSUME NEW A, NEW s \in Seq(A), NEW m \in Nat, NEW u \in [0..m -> Decoded(s, A)], Decoding(u, s, m),
         Len(s) <= m
  PROVE  Stuck(s, u[Len(s)])
<1> DEFINE n == Len(s)
           S == {k \in 0..n : Stuck(s, u[k]) \/ u[k].rest > k}
<1>1. n \in Nat /\ n <= m
  BY LenProperties
<1>2. 0 \in S
  <2>1. u[0].rest = 1
    BY DecodingSteps DEF DecodeStart
  <2> QED
    BY <1>1, <2>1
<1>3. ASSUME NEW k \in 1..n, k - 1 \in S PROVE k \in S
  <2>1. k \in 1..m /\ k - 1 \in 0..m /\ u[k - 1] \in Decoded(s, A)
    BY <1>1
  <2>2. u[k] = DecodeNext(s, u[k - 1])
    BY <2>1, DecodingSteps
  <2>3. CASE Stuck(s, u[k - 1])
    BY <1>1, <2>1, <2>2, <2>3, DecodeNextFacts
  <2>4. CASE ~Stuck(s, u[k - 1])
    <3>1. u[k].rest > u[k - 1].rest /\ u[k].rest \in Nat /\ u[k - 1].rest \in Nat
      BY <2>1, <2>2, <2>4, DecodeNextFacts DEF Decoded
    <3>2. u[k - 1].rest > k - 1
      BY <1>3, <2>4
    <3> QED
      BY <1>1, <3>1, <3>2
  <2> QED
    BY <2>3, <2>4
<1> HIDE DEF S
<1>4. 0..n \subseteq S
  BY <1>1, <1>2, <1>3, UpTo
<1>5. n \in S
  BY <1>1, <1>4
<1> QED
  BY <1>5 DEF S, Stuck

\* A longer decoding goes on from a shorter one.
LEMMA DecodingAgree ==
  ASSUME NEW s, NEW m \in Nat, NEW n \in Nat, n <= m,
         NEW u, Decoding(u, s, m), NEW v, Decoding(v, s, n)
  PROVE  \A k \in 0..n : u[k] = v[k]
<1>1. u[0] = v[0]
  BY DecodingSteps
<1>2. \A k \in 1..n : u[k - 1] = v[k - 1] => u[k] = v[k]
  <2> TAKE k \in 1..n
  <2>1. k \in 1..m
    OBVIOUS
  <2>2. u[k] = DecodeNext(s, u[k - 1])
    BY <2>1, DecodingSteps
  <2>3. v[k] = DecodeNext(s, v[k - 1])
    BY DecodingSteps
  <2> QED
    BY <2>2, <2>3
<1> QED
  BY <1>1, <1>2, RunsAgree

\* Any decoding that is long enough ends where Decode does, at a point where
\* nothing more can be decoded.
LEMMA DecodingSettles ==
  ASSUME NEW A, NEW s \in Seq(A), NEW m \in Nat, NEW u \in [0..m -> Decoded(s, A)], Decoding(u, s, m),
         Len(s) <= m
  PROVE  u[m] = Decode(s) /\ Decode(s) \in Decoded(s, A) /\ Stuck(s, Decode(s))
<1> DEFINE n == Len(s)
<1>1. n \in Nat /\ n \in 0..m /\ m \in n..m
  BY LenProperties
<1>2. PICK v \in [0..n -> Decoded(s, A)] : Decoding(v, s, n) /\ Decode(s) = v[n]
  BY DecodeRecurs
<1>3. Stuck(s, u[n])
  BY DecodingEnds
<1> HIDE DEF n
<1>4. u[m] = u[n]
  BY <1>1, <1>3, DecodingStays
<1>7. \A k \in 0..n : u[k] = v[k]
  <2>1. n \in Nat /\ n <= m
    BY <1>1
  <2> QED
    BY <1>2, <2>1, DecodingAgree
<1>8. u[n] = v[n] /\ u[n] \in Decoded(s, A)
  BY <1>1, <1>7
<1> QED
  BY <1>2, <1>3, <1>4, <1>8

Stops(u, s, m) == \A k \in 0..m : Stuck(s, u[k]) => u[k] = Decode(s)

LEMMA DecodingStops ==
  ASSUME NEW A, NEW s \in Seq(A), NEW m \in Nat, NEW u \in [0..m -> Decoded(s, A)], Decoding(u, s, m),
         Len(s) <= m
  PROVE  Stops(u, s, m)
<1> SUFFICES ASSUME NEW k \in 0..m, Stuck(s, u[k]) PROVE u[k] = Decode(s)
  BY DEF Stops
<1>1. m \in k..m
  OBVIOUS
<1>2. u[m] = u[k]
  BY <1>1, DecodingStays
<1> QED
  BY <1>2, DecodingSettles

\* What was decoded stays decoded when more comes.
LEMMA DecodeNextJoin ==
  ASSUME NEW A, NEW s \in Seq(A), NEW t \in Seq(A), NEW d \in Decoded(s, A), ~Stuck(s, d)
  PROVE  DecodeNext(s \o t, d) = DecodeNext(s, d) /\ d \in Decoded(s \o t, A)
<1> DEFINE w == s \o t
           i == d.rest
           r == Rest(s, i)
           q == Rest(w, i)
<1>1. Len(s) \in Nat /\ i \in 1..Len(s) /\ ~Partial(r)
  BY LenProperties, DecodeNextFacts DEF Stuck
<1>2. w \in Seq(A) /\ Len(w) = Len(s) + Len(t) /\ Len(t) \in Nat
  BY LenProperties, ConcatProperties
<1>3. q = r \o t
  <2>1. i \in 1..Len(s) + 1
    BY <1>1
  <2> HIDE DEF i
  <2> QED
    BY <2>1, RestOfJoin
<1>4. r \in Seq(A) /\ r # <<>> /\ 1 \in 1..Len(r)
  <2>1. r \in Seq(A) /\ Len(r) = Len(s) - i + 1
    BY <1>1, RestFacts
  <2> HIDE DEF r, i
  <2> QED
    BY <1>1, <2>1, EmptySeq
<1>5. d \in Decoded(w, A)
  BY <1>1, <1>2 DEF Decoded
<1>6. i \in 1..Len(w)
  BY <1>1, <1>2
<1> HIDE DEF w, i, r, q
<1>7. ~Partial(q) /\ Fits(q) = Fits(r)
  BY <1>1, <1>3, <1>4, PartialJoin DEF Fits
<1>8. q[1] = r[1]
  <2>1. \A k \in 1..Len(r) + Len(t) : (r \o t)[k] = IF k <= Len(r) THEN r[k] ELSE t[k - Len(r)]
    BY <1>4, ConcatProperties
  <2> QED
    BY <1>2, <1>3, <1>4, <2>1
<1>9. RuneAt(w, i) = RuneAt(s, i)
  <2>1. RuneAt(w, i) = IF Fits(q) # {}
                       THEN [rune |-> Encoding[CHOOSE e \in Fits(q) : TRUE], size |-> Len(CHOOSE e \in Fits(q) : TRUE)]
                       ELSE [rune |-> IF q[1] \in Leads THEN RuneError ELSE q[1], size |-> 1]
    BY <1>2, <1>6, RuneOfRest DEF q
  <2>2. RuneAt(s, i) = IF Fits(r) # {}
                       THEN [rune |-> Encoding[CHOOSE e \in Fits(r) : TRUE], size |-> Len(CHOOSE e \in Fits(r) : TRUE)]
                       ELSE [rune |-> IF r[1] \in Leads THEN RuneError ELSE r[1], size |-> 1]
    BY <1>1, RuneOfRest DEF r
  <2> QED
    BY <1>7, <1>8, <2>1, <2>2
<1>10. ~Stuck(w, d)
  <2>1. ~(i > Len(w))
    BY <1>2, <1>6
  <2> QED
    BY <1>7, <2>1 DEF Stuck, q, i
<1>11. DecodeNext(w, d) = [runes |-> Append(d.runes, RuneAt(w, i).rune), rest |-> i + RuneAt(w, i).size]
  BY <1>2, <1>5, <1>10, DecodeNextFacts DEF i
<1>12. DecodeNext(s, d) = [runes |-> Append(d.runes, RuneAt(s, i).rune), rest |-> i + RuneAt(s, i).size]
  BY DecodeNextFacts DEF i
<1> QED
  BY <1>5, <1>9, <1>11, <1>12 DEF w

LEMMA JoinAppend ==
  ASSUME NEW A, NEW s \in Seq(A), NEW t \in Seq(A), NEW x \in A
  PROVE  s \o Append(t, x) = Append(s \o t, x)
BY ConcatAppend

\* The decoding of what is left of a list, as a decoding of the list.
Shifted(d, y) == [runes |-> d.runes \o y.runes, rest |-> d.rest + y.rest - 1]

LEMMA DecodeNextShifted ==
  ASSUME NEW A, NEW w \in Seq(A), NEW d \in Decoded(w, A), NEW p, p = Rest(w, d.rest),
         NEW y \in Decoded(p, A)
  PROVE  /\ Shifted(d, y) \in Decoded(w, A)
         /\ Stuck(w, Shifted(d, y)) <=> Stuck(p, y)
         /\ DecodeNext(w, Shifted(d, y)) = Shifted(d, DecodeNext(p, y))
<1> DEFINE R == AnyRune(A)
           z == Shifted(d, y)
           i == d.rest
           j == y.rest
<1>1. Len(w) \in Nat /\ i \in Nat \ {0} /\ i <= Len(w) + 1 /\ d.runes \in Seq(R)
  BY LenProperties DEF Decoded
<1>2. p \in Seq(A) /\ Len(p) = Len(w) - i + 1
  BY <1>1, RestFacts
<1>3. j \in Nat \ {0} /\ j <= Len(p) + 1 /\ y.runes \in Seq(R)
  BY DEF Decoded
<1>4. d.runes \o y.runes \in Seq(R)
  BY <1>1, <1>3, ConcatProperties
<1>5. z = [runes |-> d.runes \o y.runes, rest |-> i + j - 1]
  BY DEF Shifted
<1> HIDE DEF z, i, j
<1>6. i + j - 1 \in Nat \ {0} /\ i + j - 1 <= Len(w) + 1 /\ (i + j - 1 > Len(w) <=> j > Len(p))
  BY <1>1, <1>2, <1>3
<1>7. z \in Decoded(w, A)
  BY <1>4, <1>5, <1>6 DEF Decoded, R
<1>8. Rest(p, j) = Rest(w, i + j - 1)
  BY <1>1, <1>3, RestOfRest DEF i
<1>9. Stuck(w, z) <=> Stuck(p, y)
  BY <1>5, <1>6, <1>8 DEF Stuck, j
<1>10. CASE Stuck(p, y)
  <2>1. DecodeNext(w, z) = z /\ DecodeNext(p, y) = y
    BY <1>2, <1>7, <1>9, <1>10, DecodeNextFacts
  <2> QED
    BY <1>7, <1>9, <2>1 DEF z
<1>11. CASE ~Stuck(p, y)
  <2> DEFINE a == RuneAt(p, j)
             b == RuneAt(w, i + j - 1)
  <2> HIDE DEF a, b
  <2>1. /\ j \in 1..Len(p)
        /\ DecodeNext(p, y) = [runes |-> Append(y.runes, a.rune), rest |-> j + a.size]
    BY <1>2, <1>11, DecodeNextFacts DEF j, a
  <2>2. /\ i + j - 1 \in 1..Len(w)
        /\ DecodeNext(w, z) = [runes |-> Append(d.runes \o y.runes, b.rune), rest |-> (i + j - 1) + b.size]
    <3>1. ~Stuck(w, z)
      BY <1>9, <1>11
    <3>2. z.rest = i + j - 1 /\ z.runes = d.runes \o y.runes
      BY <1>5
    <3>3. /\ z.rest \in 1..Len(w)
          /\ DecodeNext(w, z) = [runes |-> Append(z.runes, RuneAt(w, z.rest).rune),
                                 rest |-> z.rest + RuneAt(w, z.rest).size]
      BY <1>7, <3>1, DecodeNextFacts
    <3> QED
      BY <3>2, <3>3 DEF b
  <2>3. a = b
    <3> DEFINE q == Rest(p, j)
               Rune1 == IF Fits(q) # {}
                        THEN [rune |-> Encoding[CHOOSE e \in Fits(q) : TRUE], size |-> Len(CHOOSE e \in Fits(q) : TRUE)]
                        ELSE [rune |-> IF q[1] \in Leads THEN RuneError ELSE q[1], size |-> 1]
    <3>1. a = Rune1
      BY <1>2, <2>1, RuneOfRest DEF a
    <3>2. q = Rest(w, i + j - 1)
      BY <1>8
    <3> HIDE DEF q
    <3>3. b = Rune1
      BY <2>2, <3>2, RuneOfRest DEF b
    <3> QED
      BY <3>1, <3>3
  <2>4. a.rune \in R /\ a.size \in Nat
    BY <1>2, <2>1, RuneType DEF a
  <2> HIDE DEF R
  <2>5. d.runes \o Append(y.runes, a.rune) = Append(d.runes \o y.runes, a.rune)
    <3> DEFINE f == d.runes
               g == y.runes
               x == a.rune
    <3>1. f \in Seq(R) /\ g \in Seq(R) /\ x \in R
      BY <1>1, <1>3, <2>4
    <3> HIDE DEF f, g, x
    <3>2. f \o Append(g, x) = Append(f \o g, x)
      BY <3>1, JoinAppend
    <3> QED
      BY <3>2 DEF f, g, x
  <2>6. i + (j + a.size) - 1 = (i + j - 1) + b.size
    BY <1>1, <1>3, <2>3, <2>4
  <2>7. Shifted(d, DecodeNext(p, y)) = [runes |-> d.runes \o Append(y.runes, a.rune), rest |-> i + (j + a.size) - 1]
    BY <2>1 DEF Shifted, i
  <2>8. DecodeNext(w, z) = Shifted(d, DecodeNext(p, y))
    BY <2>2, <2>3, <2>5, <2>6, <2>7
  <2> QED
    BY <1>7, <1>9, <2>8 DEF z
<1> QED
  BY <1>7, <1>9, <1>10, <1>11 DEF z

\* However a list is cut in two, the second part decodes after what was left of
\* the first as it would have with the first.
LEMMA DecodeJoin ==
  ASSUME NEW A, NEW s \in Seq(A), NEW t \in Seq(A), NEW d, d = Decode(s)
  PROVE  /\ d \in Decoded(s, A)
         /\ Decode(s \o t) = Shifted(d, Decode(Rest(s, d.rest) \o t))
<1> DEFINE w == s \o t
           p == Rest(s, d.rest) \o t
           n == Len(s)
           l == Len(p)
           M == n + l + Len(w)
<1>1. n \in Nat /\ w \in Seq(A) /\ Len(w) = n + Len(t) /\ Len(t) \in Nat
  BY LenProperties, ConcatProperties
<1>2. d \in Decoded(s, A) /\ d.rest \in 1..n + 1 /\ d.rest \in Nat \ {0}
  <2>1. PICK v \in [0..n -> Decoded(s, A)] : Decoding(v, s, n)
    BY <1>1, DecodingExists
  <2>2. d \in Decoded(s, A)
    BY <1>1, <2>1, DecodingSettles
  <2> QED
    BY <1>1, <2>2 DEF Decoded
<1>3. p = Rest(w, d.rest) /\ p \in Seq(A) /\ l \in Nat
  <2>1. p = Rest(w, d.rest)
    BY <1>2, RestOfJoin
  <2> HIDE DEF p
  <2>2. p \in Seq(A)
    BY <1>1, <1>2, <2>1, RestFacts
  <2> QED
    BY <2>1, <2>2, LenProperties
<1>4. d \in Decoded(w, A)
  BY <1>1, <1>2 DEF Decoded
<1>5. M \in Nat /\ n <= M /\ Len(w) <= M
  BY <1>1, <1>3
<1> HIDE DEF w, p, n, l, M
<1>6. PICK v \in [0..n -> Decoded(s, A)] : Decoding(v, s, n)
  BY <1>1, DecodingExists
<1>7. PICK x \in [0..l -> Decoded(p, A)] : Decoding(x, p, l)
  BY <1>3, DecodingExists
<1>8. PICK u \in [0..M -> Decoded(w, A)] : Decoding(u, w, M)
  BY <1>1, <1>5, DecodingExists
<1>9. \E k \in 0..n : u[k] = d
  <2> DEFINE S == {j \in 0..n : \E k \in 0..j : u[k] = v[j]}
  <2>1. 0 \in S
    <3>1. u[0] = DecodeStart /\ v[0] = DecodeStart
      BY <1>1, <1>5, <1>6, <1>8, DecodingSteps
    <3> QED
      BY <1>1, <3>1
  <2>2. ASSUME NEW j \in 1..n, j - 1 \in S PROVE j \in S
    <3>1. PICK k \in 0..j - 1 : u[k] = v[j - 1]
      BY <2>2
    <3>2. v[j] = DecodeNext(s, v[j - 1]) /\ v[j - 1] \in Decoded(s, A)
      <4>1. \A i \in 1..n : v[i] = DecodeNext(s, v[i - 1])
        BY <1>1, <1>6, DecodingSteps
      <4>2. j - 1 \in 0..n
        BY <1>1
      <4> QED
        BY <1>6, <4>1, <4>2
    <3>3. CASE Stuck(s, v[j - 1])
      <4>1. v[j] = v[j - 1]
        BY <3>2, <3>3, DecodeNextFacts
      <4> QED
        BY <1>1, <3>1, <4>1
    <3>4. CASE ~Stuck(s, v[j - 1])
      <4>1. k + 1 \in 1..M /\ (k + 1) - 1 = k /\ k + 1 \in 0..j
        BY <1>1, <1>5, <3>1
      <4>2. u[k + 1] = DecodeNext(w, v[j - 1])
        BY <1>5, <1>8, <3>1, <4>1, DecodingSteps
      <4>3. DecodeNext(w, v[j - 1]) = DecodeNext(s, v[j - 1])
        BY <3>2, <3>4, DecodeNextJoin DEF w
      <4> QED
        BY <3>2, <4>1, <4>2, <4>3
    <3> QED
      BY <3>3, <3>4
  <2> HIDE DEF S
  <2>3. 0..n \subseteq S
    BY <1>1, <2>1, <2>2, UpTo
  <2>4. PICK k \in 0..n : u[k] = v[n]
    BY <1>1, <2>3 DEF S
  <2>5. v[n] = d
    <3>1. n \in Nat /\ Len(s) <= n
      BY <1>1 DEF n
    <3> QED
      BY <1>6, <3>1, DecodingSettles
  <2> QED
    BY <2>4, <2>5
<1>10. PICK a \in 0..n : u[a] = d
  BY <1>9
<1>11. u[a + l] = Shifted(d, x[l])
  <2> DEFINE S == {j \in 0..l : u[a + j] = Shifted(d, x[j])}
  <2>1. 0 \in S
    <3>1. x[0] = DecodeStart /\ d.runes \in Seq(AnyRune(A))
      BY <1>3, <1>4, <1>7, DecodingSteps DEF Decoded
    <3>2. d.runes \o <<>> = d.runes
      BY <3>1, ConcatEmptySeq
    <3>3. d = [runes |-> d.runes, rest |-> d.rest] /\ d.rest + 1 - 1 = d.rest
      BY <1>4 DEF Decoded
    <3>4. Shifted(d, x[0]) = d
      BY <3>1, <3>2, <3>3 DEF Shifted, DecodeStart
    <3> QED
      BY <1>3, <1>10, <3>4
  <2>2. ASSUME NEW j \in 1..l, j - 1 \in S PROVE j \in S
    <3>1. a + j \in 1..M /\ (a + j) - 1 = a + (j - 1) /\ j - 1 \in 0..l
      BY <1>1, <1>3, <1>5 DEF M
    <3>2. u[a + j] = DecodeNext(w, Shifted(d, x[j - 1]))
      BY <1>5, <1>8, <2>2, <3>1, DecodingSteps
    <3>3. x[j] = DecodeNext(p, x[j - 1]) /\ x[j - 1] \in Decoded(p, A)
      BY <1>3, <1>7, <3>1, DecodingSteps
    <3>4. u[a + j] = Shifted(d, x[j])
      BY <1>1, <1>3, <1>4, <3>2, <3>3, DecodeNextShifted
    <3> QED
      BY <3>4
  <2> HIDE DEF S
  <2>3. 0..l \subseteq S
    BY <1>3, <2>1, <2>2, UpTo
  <2> QED
    BY <1>3, <2>3 DEF S
<1>12. x[l] = Decode(p) /\ Stuck(p, Decode(p)) /\ Decode(p) \in Decoded(p, A)
  <2>1. l \in Nat /\ Len(p) <= l
    BY <1>3 DEF l
  <2> QED
    BY <1>3, <1>7, <2>1, DecodingSettles
<1>13. Stuck(w, u[a + l])
  <2>1. Stuck(w, Shifted(d, x[l])) <=> Stuck(p, x[l])
    BY <1>1, <1>3, <1>4, <1>12, DecodeNextShifted
  <2> QED
    BY <1>11, <1>12, <2>1
<1>14. a + l \in 0..M /\ M \in (a + l)..M
  BY <1>1, <1>3, <1>5 DEF M
<1>15. Stops(u, w, M)
  BY <1>1, <1>5, <1>8, DecodingStops
<1>16. u[a + l] = Decode(w)
  BY <1>13, <1>14, <1>15 DEF Stops
<1> QED
  BY <1>2, <1>11, <1>12, <1>16 DEF w, p



-----------------------------------------------------------------------------
(* The characters of a list, one after the other *)

Consuming(u, w, r) == u = [k \in 0..Len(r) |-> IF k = 0 THEN w ELSE Consume(u[k - 1], r[k])]

LEMMA ConsumingSteps ==
  ASSUME NEW u, NEW w, NEW r, IsList(r), Consuming(u, w, r)
  PROVE  u[0] = w /\ \A k \in 1..Len(r) : u[k] = Consume(u[k - 1], r[k])
<1>1. \A k \in 0..Len(r) : u[k] = IF k = 0 THEN w ELSE Consume(u[k - 1], r[k])
  BY DEF Consuming
<1>2. Len(r) \in Nat
  BY ListFacts
<1>3. 0 \in 0..Len(r) /\ \A k \in 1..Len(r) : k \in 0..Len(r) /\ k # 0
  BY <1>2
<1> QED
  BY <1>1, <1>3

LEMMA ConsumingExtends ==
  ASSUME NEW w, NEW r, IsList(r), NEW x, NEW u, Consuming(u, w, r)
  PROVE  \E v : Consuming(v, w, Append(r, x))
<1> DEFINE n == Len(r)
           t == Append(r, x)
           last == Consume(u[n], x)
           v == [k \in 0..n + 1 |-> IF k = n + 1 THEN last ELSE u[k]]
<1>1. /\ n \in Nat /\ Len(t) = n + 1 /\ t[n + 1] = x
      /\ \A k \in 1..n : t[k] = r[k]
  BY ListFacts, AppendPoints
<1>2. u[0] = w /\ \A k \in 1..n : u[k] = Consume(u[k - 1], r[k])
  BY ConsumingSteps
<1> HIDE DEF n, t
<1>3. v[n + 1] = last /\ (\A k \in 0..n : v[k] = u[k]) /\ v = [k \in 0..n + 1 |-> v[k]]
  BY <1>1
<1> HIDE DEF v
<1>4. ASSUME NEW k \in 0..n + 1 PROVE v[k] = IF k = 0 THEN w ELSE Consume(v[k - 1], t[k])
  <2>1. CASE k = 0
    BY <1>1, <1>2, <1>3, <2>1
  <2>2. CASE k \in 1..n
    <3>1. k \in 0..n /\ k - 1 \in 0..n /\ k # 0
      BY <1>1, <2>2
    <3>2. v[k] = u[k] /\ v[k - 1] = u[k - 1] /\ t[k] = r[k]
      BY <1>1, <1>3, <2>2, <3>1
    <3> QED
      BY <1>2, <2>2, <3>1, <3>2
  <2>3. CASE k = n + 1
    <3>1. k - 1 = n /\ n \in 0..n /\ k # 0
      BY <1>1, <2>3
    <3>2. v[k - 1] = u[n] /\ t[k] = x
      BY <1>1, <1>3, <2>3, <3>1
    <3> QED
      BY <1>3, <2>3, <3>1, <3>2
  <2> QED
    BY <1>1, <2>1, <2>2, <2>3
<1>5. Consuming(v, w, t)
  BY <1>1, <1>3, <1>4 DEF Consuming
<1> QED
  BY <1>5 DEF t

LEMMA ConsumingExists ==
  ASSUME NEW w, NEW r, IsList(r)
  PROVE  \E u : Consuming(u, w, r)
<1> DEFINE A == ToSet(r)
           S == {t \in Seq(A) : \E u : Consuming(u, w, t)}
<1>1. <<>> \in S
  <2> DEFINE v == [k \in 0..0 |-> w]
  <2>1. Len(<<>>) = 0 /\ <<>> \in Seq(A)
    BY EmptySeq
  <2>2. v = [k \in 0..0 |-> v[k]] /\ \A k \in 0..0 : k = 0 /\ v[k] = w
    OBVIOUS
  <2> HIDE DEF v
  <2>3. Consuming(v, w, <<>>)
    BY <2>1, <2>2 DEF Consuming
  <2> QED
    BY <2>1, <2>3
<1>2. \A t \in Seq(A), x \in A : t \in S => Append(t, x) \in S
  <2> SUFFICES ASSUME NEW t \in Seq(A), NEW x \in A, NEW u, Consuming(u, w, t)
               PROVE  Append(t, x) \in Seq(A) /\ \E v : Consuming(v, w, Append(t, x))
    OBVIOUS
  <2>1. IsList(t)
    BY ListIsList
  <2> QED
    BY <2>1, AppendProperties, ConsumingExtends
<1> HIDE DEF S
<1>3. Seq(A) \subseteq S
  BY <1>1, <1>2, AllLists
<1> QED
  BY <1>3 DEF S, A, IsList

LEMMA ConsumeAppend ==
  ASSUME NEW w, NEW r, IsList(r), NEW x
  PROVE  ConsumeAll(w, Append(r, x)) = Consume(ConsumeAll(w, r), x)
<1> DEFINE n == Len(r)
           t == Append(r, x)
<1>1. /\ n \in Nat /\ Len(t) = n + 1 /\ t[n + 1] = x /\ IsList(t)
      /\ \A k \in 1..n : t[k] = r[k]
  BY ListFacts, AppendPoints
<1>2. PICK u : Consuming(u, w, r) /\ ConsumeAll(w, r) = u[n]
  <2>1. ConsumeAll(w, r) = (CHOOSE u : Consuming(u, w, r))[n]
    BY DEF ConsumeAll, Consuming
  <2> QED
    BY <2>1, ConsumingExists
<1>3. PICK v : Consuming(v, w, t) /\ ConsumeAll(w, t) = v[n + 1]
  <2>1. ConsumeAll(w, t) = (CHOOSE a : Consuming(a, w, t))[n + 1]
    BY <1>1 DEF ConsumeAll, Consuming
  <2> QED
    BY <1>1, <2>1, ConsumingExists
<1> HIDE DEF n, t
<1>4. u[0] = w /\ \A k \in 1..n : u[k] = Consume(u[k - 1], r[k])
  BY <1>2, ConsumingSteps DEF n
<1>5. v[0] = w /\ \A k \in 1..n + 1 : v[k] = Consume(v[k - 1], t[k])
  BY <1>1, <1>3, ConsumingSteps
<1>6. \A k \in 1..n : u[k - 1] = v[k - 1] => u[k] = v[k]
  <2> TAKE k \in 1..n
  <2>1. k \in 1..n + 1 /\ t[k] = r[k]
    BY <1>1
  <2> QED
    BY <1>4, <1>5, <2>1
<1>7. u[n] = v[n]
  <2>1. u[0] = v[0] /\ n \in Nat
    BY <1>1, <1>4, <1>5
  <2>2. \A k \in 0..n : u[k] = v[k]
    BY <1>6, <2>1, RunsAgree
  <2> QED
    BY <2>1, <2>2
<1>8. n + 1 \in 1..n + 1 /\ (n + 1) - 1 = n
  BY <1>1
<1>9. v[n + 1] = Consume(v[n], x)
  BY <1>1, <1>5, <1>8
<1> QED
  BY <1>2, <1>3, <1>7, <1>9 DEF t

LEMMA ConsumeNone ==
  ASSUME NEW w
  PROVE  ConsumeAll(w, <<>>) = w
<1> DEFINE t == <<>>
<1>1. IsList(t) /\ Len(t) = 0
  BY EmptyIsList, EmptySeq
<1> HIDE DEF t
<1>2. PICK v : Consuming(v, w, t) /\ ConsumeAll(w, t) = v[0]
  <2>1. ConsumeAll(w, t) = (CHOOSE u : Consuming(u, w, t))[0]
    BY <1>1 DEF ConsumeAll, Consuming
  <2> QED
    BY <1>1, <2>1, ConsumingExists
<1> QED
  BY <1>1, <1>2, ConsumingSteps DEF t

-----------------------------------------------------------------------------
(* What the shingles of a list add to a counter *)

Voting(u, b, r) == u = [k \in 0..Len(r) |-> IF k = 0 THEN 0 ELSE Vote(u[k - 1], r[k], b)]

LEMMA VotingSteps ==
  ASSUME NEW u, NEW b, NEW r, IsList(r), Voting(u, b, r)
  PROVE  u[0] = 0 /\ \A k \in 1..Len(r) : u[k] = Vote(u[k - 1], r[k], b)
<1>1. \A k \in 0..Len(r) : u[k] = IF k = 0 THEN 0 ELSE Vote(u[k - 1], r[k], b)
  BY DEF Voting
<1>2. Len(r) \in Nat
  BY ListFacts
<1>3. 0 \in 0..Len(r) /\ \A k \in 1..Len(r) : k \in 0..Len(r) /\ k # 0
  BY <1>2
<1> QED
  BY <1>1, <1>3

LEMMA VotingExtends ==
  ASSUME NEW b, NEW r, IsList(r), NEW x, NEW u, Voting(u, b, r)
  PROVE  \E v : Voting(v, b, Append(r, x))
<1> DEFINE n == Len(r)
           t == Append(r, x)
           last == Vote(u[n], x, b)
           v == [k \in 0..n + 1 |-> IF k = n + 1 THEN last ELSE u[k]]
<1>1. /\ n \in Nat /\ Len(t) = n + 1 /\ t[n + 1] = x
      /\ \A k \in 1..n : t[k] = r[k]
  BY ListFacts, AppendPoints
<1>2. u[0] = 0 /\ \A k \in 1..n : u[k] = Vote(u[k - 1], r[k], b)
  BY VotingSteps
<1> HIDE DEF n, t
<1>3. v[n + 1] = last /\ (\A k \in 0..n : v[k] = u[k]) /\ v = [k \in 0..n + 1 |-> v[k]]
  BY <1>1
<1> HIDE DEF v
<1>4. ASSUME NEW k \in 0..n + 1 PROVE v[k] = IF k = 0 THEN 0 ELSE Vote(v[k - 1], t[k], b)
  <2>1. CASE k = 0
    BY <1>1, <1>2, <1>3, <2>1, SMTT(30)
  <2>2. CASE k \in 1..n
    <3>1. k \in 0..n /\ k - 1 \in 0..n /\ k # 0
      BY <1>1, <2>2
    <3>2. v[k] = u[k] /\ v[k - 1] = u[k - 1] /\ t[k] = r[k]
      BY <1>1, <1>3, <2>2, <3>1
    <3> QED
      BY <1>2, <2>2, <3>1, <3>2
  <2>3. CASE k = n + 1
    <3>1. k - 1 = n /\ n \in 0..n /\ k # 0
      BY <1>1, <2>3
    <3>2. v[k - 1] = u[n] /\ t[k] = x
      BY <1>1, <1>3, <2>3, <3>1
    <3> QED
      BY <1>3, <2>3, <3>1, <3>2
  <2> QED
    BY <1>1, <2>1, <2>2, <2>3
<1>5. Voting(v, b, t)
  BY <1>1, <1>3, <1>4 DEF Voting
<1> QED
  BY <1>5 DEF t

LEMMA VotingExists ==
  ASSUME NEW b, NEW r, IsList(r)
  PROVE  \E u : Voting(u, b, r)
<1> DEFINE A == ToSet(r)
           S == {t \in Seq(A) : \E u : Voting(u, b, t)}
<1>1. <<>> \in S
  <2> DEFINE v == [k \in 0..0 |-> 0]
  <2>1. Len(<<>>) = 0 /\ <<>> \in Seq(A)
    BY EmptySeq
  <2>2. v = [k \in 0..0 |-> v[k]] /\ \A k \in 0..0 : k = 0 /\ v[k] = 0
    OBVIOUS
  <2> HIDE DEF v
  <2>3. Voting(v, b, <<>>)
    BY <2>1, <2>2 DEF Voting
  <2> QED
    BY <2>1, <2>3
<1>2. \A t \in Seq(A), x \in A : t \in S => Append(t, x) \in S
  <2> SUFFICES ASSUME NEW t \in Seq(A), NEW x \in A, NEW u, Voting(u, b, t)
               PROVE  Append(t, x) \in Seq(A) /\ \E v : Voting(v, b, Append(t, x))
    OBVIOUS
  <2>1. IsList(t)
    BY ListIsList
  <2> QED
    BY <2>1, AppendProperties, VotingExtends
<1> HIDE DEF S
<1>3. Seq(A) \subseteq S
  BY <1>1, <1>2, AllLists
<1> QED
  BY <1>3 DEF S, A, IsList

LEMMA VoteAppend ==
  ASSUME NEW b, NEW r, IsList(r), NEW x
  PROVE  Votes(Append(r, x), b) = Vote(Votes(r, b), x, b)
<1> DEFINE n == Len(r)
           t == Append(r, x)
<1>1. /\ n \in Nat /\ Len(t) = n + 1 /\ t[n + 1] = x /\ IsList(t)
      /\ \A k \in 1..n : t[k] = r[k]
  BY ListFacts, AppendPoints
<1>2. PICK u : Voting(u, b, r) /\ Votes(r, b) = u[n]
  <2>1. Votes(r, b) = (CHOOSE u : Voting(u, b, r))[n]
    BY DEF Votes, Voting
  <2> QED
    BY <2>1, VotingExists
<1>3. PICK v : Voting(v, b, t) /\ Votes(t, b) = v[n + 1]
  <2>1. Votes(t, b) = (CHOOSE a : Voting(a, b, t))[n + 1]
    BY <1>1 DEF Votes, Voting
  <2> QED
    BY <1>1, <2>1, VotingExists
<1> HIDE DEF n, t
<1>4. u[0] = 0 /\ \A k \in 1..n : u[k] = Vote(u[k - 1], r[k], b)
  BY <1>2, VotingSteps DEF n
<1>5. v[0] = 0 /\ \A k \in 1..n + 1 : v[k] = Vote(v[k - 1], t[k], b)
  BY <1>1, <1>3, VotingSteps
<1>6. \A k \in 1..n : u[k - 1] = v[k - 1] => u[k] = v[k]
  <2> TAKE k \in 1..n
  <2>1. k \in 1..n + 1 /\ t[k] = r[k]
    BY <1>1
  <2> QED
    BY <1>4, <1>5, <2>1
<1>7. u[n] = v[n]
  <2>1. u[0] = v[0] /\ n \in Nat
    BY <1>1, <1>4, <1>5
  <2>2. \A k \in 0..n : u[k] = v[k]
    BY <1>6, <2>1, RunsAgree
  <2> QED
    BY <2>1, <2>2
<1>8. n + 1 \in 1..n + 1 /\ (n + 1) - 1 = n
  BY <1>1
<1>9. v[n + 1] = Vote(v[n], x, b)
  BY <1>1, <1>5, <1>8
<1> QED
  BY <1>2, <1>3, <1>7, <1>9 DEF t

LEMMA VoteNone ==
  ASSUME NEW b
  PROVE  Votes(<<>>, b) = 0
<1> DEFINE t == <<>>
<1>1. IsList(t) /\ Len(t) = 0
  BY EmptyIsList, EmptySeq
<1> HIDE DEF t
<1>2. PICK v : Voting(v, b, t) /\ Votes(t, b) = v[0]
  <2>1. Votes(t, b) = (CHOOSE u : Voting(u, b, t))[0]
    BY <1>1 DEF Votes, Voting
  <2> QED
    BY <1>1, <2>1, VotingExists
<1> QED
  BY <1>1, <1>2, VotingSteps DEF t

-----------------------------------------------------------------------------
(* The bytes of a list, one after the other *)

Emitting(u, f, r) == u = [k \in 0..Len(r) |-> IF k = 0 THEN f ELSE WriteByte(u[k - 1], r[k])]

LEMMA EmittingSteps ==
  ASSUME NEW u, NEW f, NEW r, IsList(r), Emitting(u, f, r)
  PROVE  u[0] = f /\ \A k \in 1..Len(r) : u[k] = WriteByte(u[k - 1], r[k])
<1>1. \A k \in 0..Len(r) : u[k] = IF k = 0 THEN f ELSE WriteByte(u[k - 1], r[k])
  BY DEF Emitting
<1>2. Len(r) \in Nat
  BY ListFacts
<1>3. 0 \in 0..Len(r) /\ \A k \in 1..Len(r) : k \in 0..Len(r) /\ k # 0
  BY <1>2
<1> QED
  BY <1>1, <1>3

LEMMA EmittingExtends ==
  ASSUME NEW f, NEW r, IsList(r), NEW x, NEW u, Emitting(u, f, r)
  PROVE  \E v : Emitting(v, f, Append(r, x))
<1> DEFINE n == Len(r)
           t == Append(r, x)
           last == WriteByte(u[n], x)
           v == [k \in 0..n + 1 |-> IF k = n + 1 THEN last ELSE u[k]]
<1>1. /\ n \in Nat /\ Len(t) = n + 1 /\ t[n + 1] = x
      /\ \A k \in 1..n : t[k] = r[k]
  BY ListFacts, AppendPoints
<1>2. u[0] = f /\ \A k \in 1..n : u[k] = WriteByte(u[k - 1], r[k])
  BY EmittingSteps
<1> HIDE DEF n, t
<1>3. v[n + 1] = last /\ (\A k \in 0..n : v[k] = u[k]) /\ v = [k \in 0..n + 1 |-> v[k]]
  BY <1>1
<1> HIDE DEF v
<1>4. ASSUME NEW k \in 0..n + 1 PROVE v[k] = IF k = 0 THEN f ELSE WriteByte(v[k - 1], t[k])
  <2>1. CASE k = 0
    BY <1>1, <1>2, <1>3, <2>1
  <2>2. CASE k \in 1..n
    <3>1. k \in 0..n /\ k - 1 \in 0..n /\ k # 0
      BY <1>1, <2>2
    <3>2. v[k] = u[k] /\ v[k - 1] = u[k - 1] /\ t[k] = r[k]
      BY <1>1, <1>3, <2>2, <3>1
    <3> QED
      BY <1>2, <2>2, <3>1, <3>2
  <2>3. CASE k = n + 1
    <3>1. k - 1 = n /\ n \in 0..n /\ k # 0
      BY <1>1, <2>3
    <3>2. v[k - 1] = u[n] /\ t[k] = x
      BY <1>1, <1>3, <2>3, <3>1
    <3> QED
      BY <1>3, <2>3, <3>1, <3>2
  <2> QED
    BY <1>1, <2>1, <2>2, <2>3
<1>5. Emitting(v, f, t)
  BY <1>1, <1>3, <1>4 DEF Emitting
<1> QED
  BY <1>5 DEF t

LEMMA EmittingExists ==
  ASSUME NEW f, NEW r, IsList(r)
  PROVE  \E u : Emitting(u, f, r)
<1> DEFINE A == ToSet(r)
           S == {t \in Seq(A) : \E u : Emitting(u, f, t)}
<1>1. <<>> \in S
  <2> DEFINE v == [k \in 0..0 |-> f]
  <2>1. Len(<<>>) = 0 /\ <<>> \in Seq(A)
    BY EmptySeq
  <2>2. v = [k \in 0..0 |-> v[k]] /\ \A k \in 0..0 : k = 0 /\ v[k] = f
    OBVIOUS
  <2> HIDE DEF v
  <2>3. Emitting(v, f, <<>>)
    BY <2>1, <2>2 DEF Emitting
  <2> QED
    BY <2>1, <2>3
<1>2. \A t \in Seq(A), x \in A : t \in S => Append(t, x) \in S
  <2> SUFFICES ASSUME NEW t \in Seq(A), NEW x \in A, NEW u, Emitting(u, f, t)
               PROVE  Append(t, x) \in Seq(A) /\ \E v : Emitting(v, f, Append(t, x))
    OBVIOUS
  <2>1. IsList(t)
    BY ListIsList
  <2> QED
    BY <2>1, AppendProperties, EmittingExtends
<1> HIDE DEF S
<1>3. Seq(A) \subseteq S
  BY <1>1, <1>2, AllLists
<1> QED
  BY <1>3 DEF S, A, IsList

LEMMA EmitRawAppend ==
  ASSUME NEW f, NEW r, IsList(r), NEW x
  PROVE  EmitRaw(f, Append(r, x)) = WriteByte(EmitRaw(f, r), x)
<1> DEFINE n == Len(r)
           t == Append(r, x)
<1>1. /\ n \in Nat /\ Len(t) = n + 1 /\ t[n + 1] = x /\ IsList(t)
      /\ \A k \in 1..n : t[k] = r[k]
  BY ListFacts, AppendPoints
<1>2. PICK u : Emitting(u, f, r) /\ EmitRaw(f, r) = u[n]
  <2>1. EmitRaw(f, r) = (CHOOSE u : Emitting(u, f, r))[n]
    BY DEF EmitRaw, Emitting
  <2> QED
    BY <2>1, EmittingExists
<1>3. PICK v : Emitting(v, f, t) /\ EmitRaw(f, t) = v[n + 1]
  <2>1. EmitRaw(f, t) = (CHOOSE a : Emitting(a, f, t))[n + 1]
    BY <1>1 DEF EmitRaw, Emitting
  <2> QED
    BY <1>1, <2>1, EmittingExists
<1> HIDE DEF n, t
<1>4. u[0] = f /\ \A k \in 1..n : u[k] = WriteByte(u[k - 1], r[k])
  BY <1>2, EmittingSteps DEF n
<1>5. v[0] = f /\ \A k \in 1..n + 1 : v[k] = WriteByte(v[k - 1], t[k])
  BY <1>1, <1>3, EmittingSteps
<1>6. \A k \in 1..n : u[k - 1] = v[k - 1] => u[k] = v[k]
  <2> TAKE k \in 1..n
  <2>1. k \in 1..n + 1 /\ t[k] = r[k]
    BY <1>1
  <2> QED
    BY <1>4, <1>5, <2>1
<1>7. u[n] = v[n]
  <2>1. u[0] = v[0] /\ n \in Nat
    BY <1>1, <1>4, <1>5
  <2>2. \A k \in 0..n : u[k] = v[k]
    BY <1>6, <2>1, RunsAgree
  <2> QED
    BY <2>1, <2>2
<1>8. n + 1 \in 1..n + 1 /\ (n + 1) - 1 = n
  BY <1>1
<1>9. v[n + 1] = WriteByte(v[n], x)
  BY <1>1, <1>5, <1>8
<1> QED
  BY <1>2, <1>3, <1>7, <1>9 DEF t

LEMMA EmitRawNone ==
  ASSUME NEW f
  PROVE  EmitRaw(f, <<>>) = f
<1> DEFINE t == <<>>
<1>1. IsList(t) /\ Len(t) = 0
  BY EmptyIsList, EmptySeq
<1> HIDE DEF t
<1>2. PICK v : Emitting(v, f, t) /\ EmitRaw(f, t) = v[0]
  <2>1. EmitRaw(f, t) = (CHOOSE u : Emitting(u, f, t))[0]
    BY <1>1 DEF EmitRaw, Emitting
  <2> QED
    BY <1>1, <2>1, EmittingExists
<1> QED
  BY <1>1, <1>2, EmittingSteps DEF t

-----------------------------------------------------------------------------
(* A set of numbers in ascending order *)

Rank(S, x) == Cardinality({y \in S : y < x})

LEMMA AscendingAppend ==
  ASSUME NEW S \in SUBSET Nat, IsFiniteSet(S), NEW n \in Nat, \A x \in S : x < n
  PROVE  Ascending(S \cup {n}) = Append(Ascending(S), n)
<1> DEFINE T == S \cup {n}
           m == Cardinality(S)
           a == Ascending(S)
           b == Append(a, n)
<1>0. n \notin S
  OBVIOUS
<1>1. m \in Nat /\ Cardinality(T) = m + 1
  BY <1>0, FS_CardinalityType, FS_AddElement
<1>2. ASSUME NEW x \in S PROVE Rank(T, x) = Rank(S, x) /\ Rank(S, x) \in Nat
  <2>1. {y \in T : y < x} = {y \in S : y < x}
    OBVIOUS
  <2>2. IsFiniteSet({y \in S : y < x})
    BY FS_Subset
  <2> QED
    BY <2>1, <2>2, FS_CardinalityType DEF Rank
<1>3. Rank(T, n) = m
  <2>1. {y \in T : y < n} \subseteq S
    OBVIOUS
  <2>2. S \subseteq {y \in T : y < n}
    OBVIOUS
  <2>3. {y \in T : y < n} = S
    BY <2>1, <2>2
  <2> QED
    BY <2>3 DEF Rank
<1>4. ASSUME NEW x \in S PROVE Rank(S, x) # m
  <2>1. {y \in S : y < x} \subseteq S /\ {y \in S : y < x} # S
    BY <1>4
  <2> QED
    BY <2>1, FS_Subset, FS_CardinalityType DEF Rank
<1>5. \A x : x \in T <=> x \in S \/ x = n
  OBVIOUS
<1>6. /\ Ascending(T) = [k \in 1..m + 1 |-> CHOOSE x \in T : Rank(T, x) = k - 1]
      /\ a = [k \in 1..m |-> CHOOSE x \in S : Rank(S, x) = k - 1]
  BY <1>1 DEF Ascending, Rank
<1> HIDE DEF T, a
<1>7. ASSUME NEW k \in 1..m
      PROVE  (CHOOSE x \in T : Rank(T, x) = k - 1) = (CHOOSE x \in S : Rank(S, x) = k - 1)
  <2>1. \A x : (x \in T /\ Rank(T, x) = k - 1) <=> (x \in S /\ Rank(S, x) = k - 1)
    <3> TAKE x
    <3>1. m # k - 1
      BY <1>1
    <3> QED
      BY <1>2, <1>3, <1>5, <3>1
  <2> QED
    BY <2>1
<1>8. (CHOOSE x \in T : Rank(T, x) = (m + 1) - 1) = n
  <2>1. \A x : (x \in T /\ Rank(T, x) = (m + 1) - 1) <=> x = n
    <3>1. (m + 1) - 1 = m
      BY <1>1
    <3> QED
      BY <1>2, <1>3, <1>4, <1>5, <3>1
  <2> QED
    BY <2>1
<1>9. IsList(a) /\ Len(a) = m
  BY <1>1, <1>6, FunctionIsList
<1>10. /\ IsList(b) /\ Len(b) = m + 1 /\ b[m + 1] = n
       /\ \A k \in 1..m : b[k] = a[k]
  BY <1>9, AppendPoints
<1> HIDE DEF b
<1> DEFINE c == Ascending(T)
<1>11. IsList(c) /\ Len(c) = m + 1
  <2> DEFINE N == m + 1
  <2>1. N \in Nat /\ c = [k \in 1..N |-> c[k]]
    BY <1>1, <1>6
  <2> HIDE DEF c, N
  <2>2. IsList(c) /\ Len(c) = N
    BY <2>1, FunctionIsList
  <2> QED
    BY <2>2 DEF N
<1>12. c[m + 1] = n
  <2>1. m + 1 \in 1..m + 1
    BY <1>1
  <2> QED
    BY <1>6, <1>8, <2>1
<1>13. ASSUME NEW k \in 1..m PROVE c[k] = b[k]
  <2>1. k \in 1..m + 1
    BY <1>1
  <2> QED
    BY <1>6, <1>7, <1>10, <2>1
<1> HIDE DEF c, m
<1>14. \A k \in 1..m + 1 : c[k] = b[k]
  BY <1>1, <1>10, <1>12, <1>13
<1>15. c = b
  BY <1>10, <1>11, <1>14, ListsEqual
<1> QED
  BY <1>15 DEF a, b, c, T

LEMMA AscendingEmpty == Ascending({}) = <<>>
<1>1. Cardinality({}) = 0
  BY FS_EmptySet
<1>2. IsList(Ascending({})) /\ Len(Ascending({})) = 0
  <2> DEFINE a == Ascending({})
  <2>1. a = [k \in 1..0 |-> a[k]]
    BY <1>1 DEF Ascending
  <2> HIDE DEF a
  <2>2. IsList(a) /\ Len(a) = 0
    BY <2>1, FunctionIsList
  <2> QED
    BY <2>2 DEF a
<1> QED
  BY <1>2, EmptySeq DEF IsList

\* The least of a set of naturals.
LEMMA MinFacts ==
  ASSUME NEW T \in SUBSET Nat, T # {}
  PROVE  Min(T) \in T /\ \A y \in T : Min(T) <= y
BY LeastMember DEF Min

-----------------------------------------------------------------------------
(* Words *)

WordStarts(r) == {i \in DOMAIN r : InWord(r, i) /\ ~InWord(r, i - 1)}
WordEnd(r, i) == Min({j \in i..Len(r) : ~InWord(r, j + 1)})
WordAt(r, i)  == [k \in DOMAIN FromWord(r, i) |-> Fold[r[i + k - 1]]]

LEMMA WordEndFacts ==
  ASSUME NEW r, IsList(r), NEW i \in 1..Len(r)
  PROVE  /\ WordEnd(r, i) \in i..Len(r) /\ ~InWord(r, WordEnd(r, i) + 1)
         /\ \A j \in i..Len(r) : ~InWord(r, j + 1) => WordEnd(r, i) <= j
<1> DEFINE T == {j \in i..Len(r) : ~InWord(r, j + 1)}
<1>1. Len(r) \in Nat /\ DOMAIN r = 1..Len(r)
  BY ListFacts
<1>2. ~InWord(r, Len(r) + 1)
  BY <1>1 DEF InWord
<1>3. T \in SUBSET Nat /\ Len(r) \in T
  BY <1>1, <1>2
<1> HIDE DEF T
<1>4. Min(T) \in T /\ \A y \in T : Min(T) <= y
  BY <1>3, MinFacts
<1> QED
  BY <1>4 DEF WordEnd, T

LEMMA WordEndIs ==
  ASSUME NEW r, IsList(r), NEW i \in 1..Len(r), NEW e \in i..Len(r),
         ~InWord(r, e + 1), \A j \in i..Len(r) : ~InWord(r, j + 1) => e <= j
  PROVE  WordEnd(r, i) = e
<1>1. WordEnd(r, i) \in i..Len(r) /\ ~InWord(r, WordEnd(r, i) + 1) /\ WordEnd(r, i) <= e
  BY WordEndFacts
<1> QED
  BY <1>1

LEMMA WordAtFacts ==
  ASSUME NEW r, IsList(r), NEW i \in 1..Len(r)
  PROVE  /\ IsList(WordAt(r, i)) /\ Len(WordAt(r, i)) = WordEnd(r, i) - i + 1
         /\ \A k \in 1..WordEnd(r, i) - i + 1 : WordAt(r, i)[k] = Fold[r[i + k - 1]]
<1> DEFINE e == WordEnd(r, i)
           n == e - i + 1
           w == WordAt(r, i)
<1>1. Len(r) \in Nat /\ e \in i..Len(r)
  BY ListFacts, WordEndFacts
<1>2. FromWord(r, i) = SubSeq(r, i, e)
  BY DEF FromWord, WordEnd
<1>3. n \in Nat /\ e \in Int /\ i \in Int /\ i <= e
  BY <1>1
<1> HIDE DEF e
<1>4. IsList(FromWord(r, i)) /\ Len(FromWord(r, i)) = n
  BY <1>2, <1>3, PieceList
<1>5. DOMAIN FromWord(r, i) = 1..n
  BY <1>4, ListFacts
<1>6. w = [k \in 1..n |-> Fold[r[i + k - 1]]]
  BY <1>5 DEF WordAt
<1>7. (w = [k \in 1..n |-> w[k]]) /\ \A k \in 1..n : w[k] = Fold[r[i + k - 1]]
  BY <1>6
<1> HIDE DEF w, n
<1>8. IsList(w) /\ Len(w) = n
  BY <1>3, <1>7, FunctionIsList
<1> QED
  BY <1>7, <1>8 DEF w, n, e

\* With one more character.
LEMMA InWordAppend ==
  ASSUME NEW r, IsList(r), NEW x, NEW n, n = Len(r), NEW t, t = Append(r, x)
  PROVE  /\ n \in Nat /\ IsList(t) /\ Len(t) = n + 1
         /\ \A i \in Int : i # n + 1 => (InWord(t, i) <=> InWord(r, i))
         /\ InWord(t, n + 1) <=> x \notin Delimiter
         /\ ~InWord(t, n + 2)
         /\ ~InWord(r, n + 1)
<1>1. /\ n \in Nat /\ IsList(t) /\ Len(t) = n + 1 /\ t[n + 1] = x /\ \A i \in 1..n : t[i] = r[i]
      /\ DOMAIN r = 1..n /\ DOMAIN t = 1..n + 1
  BY ListFacts, AppendPoints
<1>2. \A i \in Int : i # n + 1 => (InWord(t, i) <=> InWord(r, i))
  BY <1>1 DEF InWord
<1>3. (InWord(t, n + 1) <=> x \notin Delimiter) /\ ~InWord(t, n + 2) /\ ~InWord(r, n + 1)
  BY <1>1 DEF InWord
<1> QED
  BY <1>1, <1>2, <1>3

LEMMA StartsAppend ==
  ASSUME NEW r, IsList(r), NEW x, NEW n, n = Len(r), NEW t, t = Append(r, x)
  PROVE  /\ WordStarts(t) = IF x \notin Delimiter /\ ~InWord(r, n) THEN WordStarts(r) \cup {n + 1} ELSE WordStarts(r)
         /\ WordStarts(r) \subseteq 1..n
<1>1. n \in Nat /\ DOMAIN r = 1..n /\ DOMAIN t = 1..n + 1
  BY ListFacts, AppendPoints
<1>2. \A i \in Int : i # n + 1 => (InWord(t, i) <=> InWord(r, i))
  BY InWordAppend
<1>3. (InWord(t, n + 1) <=> x \notin Delimiter) /\ ~InWord(t, n + 2) /\ ~InWord(r, n + 1)
  BY InWordAppend
<1>4. \A i : i \in WordStarts(t) <=> i \in 1..n + 1 /\ InWord(t, i) /\ ~InWord(t, i - 1)
  BY <1>1 DEF WordStarts
<1>5. \A i : i \in WordStarts(r) <=> i \in 1..n /\ InWord(r, i) /\ ~InWord(r, i - 1)
  BY <1>1 DEF WordStarts
<1>6. ASSUME NEW i \in 1..n PROVE i \in WordStarts(t) <=> i \in WordStarts(r)
  <2>1. i \in Int /\ i - 1 \in Int /\ i # n + 1 /\ i - 1 # n + 1 /\ i \in 1..n + 1
    BY <1>1
  <2> QED
    BY <1>2, <1>4, <1>5, <2>1
<1>7. n + 1 \in WordStarts(t) <=> x \notin Delimiter /\ ~InWord(r, n)
  <2>1. n + 1 \in 1..n + 1 /\ (n + 1) - 1 = n /\ n \in Int /\ n # n + 1
    BY <1>1
  <2> QED
    BY <1>2, <1>3, <1>4, <2>1
<1>8. \A i : i \in 1..n + 1 <=> i \in 1..n \/ i = n + 1
  BY <1>1
<1>9. \A i : i \in WordStarts(t) <=> i \in WordStarts(r) \/ (i = n + 1 /\ x \notin Delimiter /\ ~InWord(r, n))
  BY <1>4, <1>5, <1>6, <1>7, <1>8
<1>10. WordStarts(r) \subseteq 1..n
  BY <1>5
<1>11. WordStarts(t) = IF x \notin Delimiter /\ ~InWord(r, n) THEN WordStarts(r) \cup {n + 1} ELSE WordStarts(r)
  BY <1>9
<1> QED
  BY <1>10, <1>11

\* A word that has ended stays as it is; one that has not goes on.
LEMMA WordEnded ==
  ASSUME NEW r, IsList(r), NEW x, NEW i \in 1..Len(r), WordEnd(r, i) < Len(r) \/ x \in Delimiter
  PROVE  WordEnd(Append(r, x), i) = WordEnd(r, i) /\ WordAt(Append(r, x), i) = WordAt(r, i)
<1> DEFINE n == Len(r)
           t == Append(r, x)
           e == WordEnd(r, i)
           v == WordAt(r, i)
           w == WordAt(t, i)
<1>0. n = Len(r) /\ t = Append(r, x) /\ i \in 1..n /\ (e < n \/ x \in Delimiter)
  OBVIOUS
<1> HIDE DEF n, t
<1>1. /\ n \in Nat /\ IsList(t) /\ Len(t) = n + 1
      /\ \A j \in Int : j # n + 1 => (InWord(t, j) <=> InWord(r, j))
      /\ InWord(t, n + 1) <=> x \notin Delimiter
      /\ ~InWord(t, n + 2)
      /\ ~InWord(r, n + 1)
  <2>1. n \in Nat /\ IsList(t) /\ Len(t) = n + 1
    BY <1>0, ListFacts, AppendPoints
  <2>2. \A j \in Int : j # n + 1 => (InWord(t, j) <=> InWord(r, j))
    BY <1>0, InWordAppend
  <2>3. (InWord(t, n + 1) <=> x \notin Delimiter) /\ ~InWord(t, n + 2) /\ ~InWord(r, n + 1)
    BY <1>0, InWordAppend
  <2> QED
    BY <2>1, <2>2, <2>3
<1>2. t[n + 1] = x /\ \A j \in 1..n : t[j] = r[j]
  BY <1>0, AppendPoints
<1>3. /\ e \in i..n /\ ~InWord(r, e + 1)
      /\ \A j \in i..n : ~InWord(r, j + 1) => e <= j
  BY <1>0, WordEndFacts
<1>4. /\ IsList(v) /\ Len(v) = e - i + 1
      /\ \A k \in 1..e - i + 1 : v[k] = Fold[r[i + k - 1]]
  BY <1>0, WordAtFacts
<1>5. i \in 1..n + 1 /\ i \in 1..Len(t)
  BY <1>0, <1>1
<1>6. /\ IsList(w) /\ Len(w) = WordEnd(t, i) - i + 1
      /\ \A k \in 1..WordEnd(t, i) - i + 1 : w[k] = Fold[t[i + k - 1]]
  BY <1>1, <1>5, WordAtFacts
<1>9. e < n \/ x \in Delimiter
  BY <1>0
<1> HIDE DEF v, w, e
<1>7. WordEnd(t, i) = e /\ w = v
  <2>1. e \in i..n + 1 /\ ~InWord(t, e + 1)
    BY <1>1, <1>3, <1>9
  <2>2. \A j \in i..n + 1 : ~InWord(t, j + 1) => e <= j
    <3> SUFFICES ASSUME NEW j \in i..n + 1, ~InWord(t, j + 1), ~(e <= j) PROVE FALSE
      OBVIOUS
    <3>1. j \in i..n /\ j + 1 \in Int /\ j + 1 # n + 1
      BY <1>1, <1>3
    <3>2. ~InWord(r, j + 1)
      BY <1>1, <3>1
    <3> QED
      BY <1>3, <3>1, <3>2
  <2>3. WordEnd(t, i) = e
    BY <1>1, <1>5, <2>1, <2>2, WordEndIs
  <2>4. ASSUME NEW k \in 1..e - i + 1 PROVE w[k] = v[k]
    <3>1. i + k - 1 \in 1..n
      BY <1>1, <1>3
    <3> QED
      BY <1>2, <1>4, <1>6, <2>3, <3>1
  <2>5. w = v
    BY <1>4, <1>6, <2>3, <2>4, ListsEqual
  <2> QED
    BY <2>3, <2>5
<1> QED
  BY <1>7 DEF e, v, w, t

LEMMA WordGoesOn ==
  ASSUME NEW r, IsList(r), NEW x, NEW i \in 1..Len(r), WordEnd(r, i) = Len(r), x \notin Delimiter
  PROVE  WordEnd(Append(r, x), i) = Len(r) + 1 /\ WordAt(Append(r, x), i) = Append(WordAt(r, i), Fold[x])
<1> DEFINE n == Len(r)
           t == Append(r, x)
           e == WordEnd(r, i)
           v == WordAt(r, i)
           w == WordAt(t, i)
<1>0. n = Len(r) /\ t = Append(r, x) /\ i \in 1..n /\ (e = n)
  OBVIOUS
<1> HIDE DEF n, t
<1>1. /\ n \in Nat /\ IsList(t) /\ Len(t) = n + 1
      /\ \A j \in Int : j # n + 1 => (InWord(t, j) <=> InWord(r, j))
      /\ InWord(t, n + 1) <=> x \notin Delimiter
      /\ ~InWord(t, n + 2)
      /\ ~InWord(r, n + 1)
  <2>1. n \in Nat /\ IsList(t) /\ Len(t) = n + 1
    BY <1>0, ListFacts, AppendPoints
  <2>2. \A j \in Int : j # n + 1 => (InWord(t, j) <=> InWord(r, j))
    BY <1>0, InWordAppend
  <2>3. (InWord(t, n + 1) <=> x \notin Delimiter) /\ ~InWord(t, n + 2) /\ ~InWord(r, n + 1)
    BY <1>0, InWordAppend, ZenonT(40)
  <2> QED
    BY <2>1, <2>2, <2>3
<1>2. t[n + 1] = x /\ \A j \in 1..n : t[j] = r[j]
  BY <1>0, AppendPoints
<1>3. /\ e \in i..n /\ ~InWord(r, e + 1)
      /\ \A j \in i..n : ~InWord(r, j + 1) => e <= j
  BY <1>0, WordEndFacts
<1>4. /\ IsList(v) /\ Len(v) = e - i + 1
      /\ \A k \in 1..e - i + 1 : v[k] = Fold[r[i + k - 1]]
  BY <1>0, WordAtFacts
<1>5. i \in 1..n + 1 /\ i \in 1..Len(t)
  BY <1>0, <1>1
<1>6. /\ IsList(w) /\ Len(w) = WordEnd(t, i) - i + 1
      /\ \A k \in 1..WordEnd(t, i) - i + 1 : w[k] = Fold[t[i + k - 1]]
  BY <1>1, <1>5, WordAtFacts
<1>9. e = n /\ x \notin Delimiter
  BY <1>0
<1> HIDE DEF v, w, e
<1>7. WordEnd(t, i) = n + 1 /\ w = Append(v, Fold[x])
  <2>1. n + 1 \in i..n + 1 /\ (n + 1) + 1 = n + 2
    BY <1>0, <1>1
  <2>2. \A j \in i..n + 1 : ~InWord(t, j + 1) => n + 1 <= j
    <3> SUFFICES ASSUME NEW j \in i..n + 1, ~InWord(t, j + 1), ~(n + 1 <= j) PROVE FALSE
      OBVIOUS
    <3>1. j \in i..n
      BY <1>1
    <3>2. j # n
      BY <1>1, <1>9
    <3>3. j + 1 \in Int /\ j + 1 # n + 1
      BY <1>1, <3>1, <3>2
    <3>4. ~InWord(r, j + 1)
      BY <1>1, <3>3
    <3> QED
      BY <1>1, <1>3, <1>9, <3>1, <3>2, <3>4
  <2>3. WordEnd(t, i) = n + 1
    BY <1>1, <1>5, <2>1, <2>2, WordEndIs
  <2>10. \A k \in 1..(n + 1) - i + 1 : w[k] = Fold[t[i + k - 1]]
    BY <1>6, <2>3
  <2> DEFINE a == Append(v, Fold[x])
  <2>4. /\ IsList(a) /\ Len(a) = (e - i + 1) + 1 /\ a[(e - i + 1) + 1] = Fold[x]
        /\ \A k \in 1..e - i + 1 : a[k] = v[k]
    BY <1>4, AppendPoints
  <2> HIDE DEF a
  <2>5. Len(w) = Len(a) /\ (e - i + 1) + 1 = (n + 1) - i + 1
    BY <1>1, <1>3, <1>6, <1>9, <2>3, <2>4
  <2>6. ASSUME NEW k \in 1..e - i + 1 PROVE w[k] = a[k]
    <3>1. i + k - 1 \in 1..n /\ k \in 1..(n + 1) - i + 1
      BY <1>1, <1>3, <1>9
    <3>2. w[k] = Fold[t[i + k - 1]] /\ t[i + k - 1] = r[i + k - 1]
      BY <1>2, <2>10, <3>1
    <3>3. a[k] = v[k] /\ v[k] = Fold[r[i + k - 1]]
      BY <1>4, <2>4
    <3> QED
      BY <3>2, <3>3
  <2>7. w[(e - i + 1) + 1] = Fold[x]
    <3>1. i + ((e - i + 1) + 1) - 1 = n + 1 /\ (e - i + 1) + 1 \in 1..(n + 1) - i + 1
      BY <1>1, <1>3, <1>9
    <3> QED
      BY <1>2, <2>10, <3>1
  <2>8. \A k \in 1..Len(w) : w[k] = a[k]
    <3>1. \A k \in 1..Len(w) : k \in 1..e - i + 1 \/ k = (e - i + 1) + 1
      BY <1>3, <2>4, <2>5
    <3> QED
      BY <2>4, <2>6, <2>7, <3>1
  <2>9. w = a
    BY <1>6, <2>4, <2>5, <2>8, ListsEqual
  <2> QED
    BY <2>3, <2>9 DEF a
<1> QED
  BY <1>7 DEF v, w, t, n

StartList(r) == Ascending(WordStarts(r))

\* No word but the last reaches the end, and that one does when the text ends
\* within a word.
Steady(r) ==
  /\ IsList(StartList(r))
  /\ \A k \in 1..Len(StartList(r)) :
       /\ StartList(r)[k] \in 1..Len(r)
       /\ WordEnd(r, StartList(r)[k]) = Len(r) <=> k = Len(StartList(r)) /\ InWord(r, Len(r))
  /\ InWord(r, Len(r)) => Len(StartList(r)) # 0

LEMMA WordsPoints ==
  ASSUME NEW r, IsList(StartList(r))
  PROVE  /\ IsList(WordsOf(r)) /\ Len(WordsOf(r)) = Len(StartList(r))
         /\ \A k \in 1..Len(StartList(r)) : WordsOf(r)[k] = WordAt(r, StartList(r)[k])
<1> DEFINE a == StartList(r)
           u == WordsOf(r)
           n == Len(a)
<1>1. n \in Nat /\ DOMAIN a = 1..n
  BY ListFacts
<1>2. u = [k \in 1..n |-> WordAt(r, a[k])]
  BY <1>1 DEF WordsOf, WordsAt, WordAt, StartList, WordStarts
<1>3. (u = [k \in 1..n |-> u[k]]) /\ \A k \in 1..n : u[k] = WordAt(r, a[k])
  BY <1>2
<1> HIDE DEF u, n
<1>4. IsList(u) /\ Len(u) = n
  BY <1>1, <1>3, FunctionIsList
<1> QED
  BY <1>3, <1>4 DEF u, n

LEMMA WordsOfNone == Steady(<<>>) /\ WordsOf(<<>>) = <<>>
<1> DEFINE r == <<>>
<1>1. IsList(r) /\ Len(r) = 0 /\ DOMAIN r = 1..0
  BY EmptyIsList, EmptySeq, ListFacts
<1> HIDE DEF r
<1>2. WordStarts(r) = {} /\ ~InWord(r, Len(r))
  BY <1>1 DEF WordStarts, InWord
<1>3. StartList(r) = <<>>
  BY <1>2, AscendingEmpty DEF StartList
<1>4. IsList(StartList(r)) /\ Len(StartList(r)) = 0
  BY <1>3, EmptyIsList, EmptySeq
<1>5. Steady(r)
  BY <1>2, <1>4 DEF Steady
<1>6. IsList(WordsOf(r)) /\ Len(WordsOf(r)) = 0
  BY <1>4, WordsPoints
<1>7. WordsOf(r) = <<>>
  BY <1>6, EmptySeq DEF IsList
<1> QED
  BY <1>5, <1>7 DEF r

\* What one more character does to the words: nothing, it begins one, or it
\* goes on with the last.
LEMMA WordsSame ==
  ASSUME NEW r, IsList(r), Steady(r), NEW x, x \in Delimiter
  PROVE  /\ Steady(Append(r, x)) /\ ~InWord(Append(r, x), Len(Append(r, x)))
         /\ WordsOf(Append(r, x)) = WordsOf(r)
<1> DEFINE n == Len(r)
           t == Append(r, x)
           a == StartList(r)
           m == Len(a)
<1>1. n \in Nat /\ IsList(t) /\ Len(t) = n + 1
  BY ListFacts, AppendPoints
<1>2. ~InWord(t, n + 1)
  BY InWordAppend
<1>3. StartList(t) = a
  <2>1. WordStarts(t) = WordStarts(r)
    BY StartsAppend
  <2> QED
    BY <2>1 DEF StartList
<1>4. IsList(a) /\ m \in Nat /\ \A k \in 1..m : a[k] \in 1..n
  BY ListFacts DEF Steady
<1>5. ASSUME NEW k \in 1..m
      PROVE  WordEnd(t, a[k]) = WordEnd(r, a[k]) /\ WordAt(t, a[k]) = WordAt(r, a[k]) /\ WordEnd(r, a[k]) \in 1..n
  <2> DEFINE i == a[k]
  <2>1. i \in 1..n
    BY <1>4
  <2> HIDE DEF i
  <2>2. WordEnd(t, i) = WordEnd(r, i) /\ WordAt(t, i) = WordAt(r, i)
    BY <2>1, WordEnded
  <2>3. WordEnd(r, i) \in i..n
    BY <2>1, WordEndFacts
  <2> QED
    BY <1>1, <2>1, <2>2, <2>3 DEF i
<1> HIDE DEF t, a, m, n
<1>6. Steady(t)
  <2>1. \A k \in 1..m : a[k] \in 1..n + 1 /\ WordEnd(t, a[k]) # n + 1
    BY <1>1, <1>4, <1>5
  <2> QED
    BY <1>1, <1>2, <1>3, <1>4, <2>1 DEF Steady, m
<1>7. WordsOf(t) = WordsOf(r)
  <2>1. /\ IsList(WordsOf(r)) /\ Len(WordsOf(r)) = m
        /\ \A k \in 1..m : WordsOf(r)[k] = WordAt(r, a[k])
    BY <1>4, WordsPoints DEF a, m
  <2>2. /\ IsList(WordsOf(t)) /\ Len(WordsOf(t)) = m
        /\ \A k \in 1..m : WordsOf(t)[k] = WordAt(t, a[k])
    BY <1>3, <1>4, WordsPoints DEF m
  <2>3. \A k \in 1..m : WordsOf(t)[k] = WordsOf(r)[k]
    BY <1>5, <2>1, <2>2
  <2> QED
    BY <2>1, <2>2, <2>3, ListsEqual
<1> QED
  BY <1>1, <1>2, <1>6, <1>7 DEF t, n

LEMMA WordsBegin ==
  ASSUME NEW r, IsList(r), Steady(r), NEW x, x \notin Delimiter, ~InWord(r, Len(r))
  PROVE  /\ Steady(Append(r, x)) /\ InWord(Append(r, x), Len(Append(r, x)))
         /\ WordsOf(Append(r, x)) = Append(WordsOf(r), <<Fold[x]>>)
<1> DEFINE n == Len(r)
           t == Append(r, x)
           a == StartList(r)
           b == StartList(t)
           m == Len(a)
           u == WordsOf(r)
           v == WordsOf(t)
           z == WordAt(t, n + 1)
           c == Append(u, <<Fold[x]>>)
<1>1. n \in Nat /\ IsList(t) /\ Len(t) = n + 1 /\ t[n + 1] = x
  BY ListFacts, AppendPoints
<1>2. InWord(t, n + 1) /\ ~InWord(t, (n + 1) + 1)
  <2>1. InWord(t, n + 1) /\ ~InWord(t, n + 2)
    BY InWordAppend
  <2>2. (n + 1) + 1 = n + 2
    BY <1>1
  <2> QED
    BY <2>1, <2>2
<1>3. b = Append(a, n + 1)
  <2> DEFINE S == WordStarts(r)
             N == n + 1
  <2>1. WordStarts(t) = S \cup {N} /\ S \subseteq 1..n
    BY StartsAppend
  <2>2. IsFiniteSet(S)
    <3>1. IsFiniteSet(1..n)
      BY <1>1, FS_Interval
    <3> QED
      BY <2>1, <3>1, FS_Subset
  <2> HIDE DEF S, t, n
  <2>3. S \in SUBSET Nat /\ N \in Nat /\ \A y \in S : y < N
    BY <1>1, <2>1
  <2> HIDE DEF N
  <2>4. Ascending(S \cup {N}) = Append(Ascending(S), N)
    BY <2>2, <2>3, AscendingAppend
  <2> QED
    BY <2>1, <2>4 DEF StartList, S, N
<1>4. IsList(a) /\ m \in Nat /\ \A k \in 1..m : a[k] \in 1..n /\ WordEnd(r, a[k]) # n
  BY ListFacts DEF Steady
<1>5. ASSUME NEW k \in 1..m
      PROVE  WordEnd(t, a[k]) = WordEnd(r, a[k]) /\ WordAt(t, a[k]) = WordAt(r, a[k]) /\ WordEnd(r, a[k]) \in 1..n
  <2> DEFINE i == a[k]
  <2>1. i \in 1..n /\ WordEnd(r, i) # n
    BY <1>4
  <2> HIDE DEF i
  <2>3. WordEnd(r, i) \in i..n
    BY <2>1, WordEndFacts
  <2>4. WordEnd(r, i) < n
    BY <1>1, <2>1, <2>3
  <2>2. WordEnd(t, i) = WordEnd(r, i) /\ WordAt(t, i) = WordAt(r, i)
    BY <2>1, <2>4, WordEnded
  <2> QED
    BY <1>1, <2>1, <2>2, <2>3 DEF i
<1>6. IsList(b) /\ Len(b) = m + 1 /\ b[m + 1] = n + 1 /\ \A k \in 1..m : b[k] = a[k]
  BY <1>3, <1>4, AppendPoints
<1> HIDE DEF t, a, b, m, n
<1>7. WordEnd(t, n + 1) = n + 1
  <2> DEFINE N == n + 1
  <2>1. N \in 1..Len(t) /\ N \in N..Len(t) /\ ~InWord(t, N + 1) /\ \A j \in N..Len(t) : ~InWord(t, j + 1) => N <= j
    BY <1>1, <1>2
  <2> HIDE DEF N
  <2>2. WordEnd(t, N) = N
    BY <1>1, <2>1, WordEndIs
  <2> QED
    BY <2>2 DEF N
<1>8. z = <<Fold[x]>>
  <2> DEFINE N == n + 1
  <2>1. N \in 1..Len(t) /\ WordEnd(t, N) - N + 1 = 1 /\ N + 1 - 1 = N
    BY <1>1, <1>7
  <2> HIDE DEF N
  <2>2. /\ IsList(WordAt(t, N)) /\ Len(WordAt(t, N)) = 1
        /\ \A k \in 1..1 : WordAt(t, N)[k] = Fold[t[N + k - 1]]
    BY <1>1, <2>1, WordAtFacts
  <2>3. WordAt(t, N)[1] = Fold[t[N]]
    BY <2>1, <2>2
  <2>4. t[N] = x
    BY <1>1 DEF N
  <2>5. IsList(<<Fold[x]>>) /\ Len(<<Fold[x]>>) = 1 /\ <<Fold[x]>>[1] = Fold[x]
    BY SingleIsList
  <2>6. WordAt(t, N) = <<Fold[x]>>
    <3> DEFINE one == <<Fold[x]>>
    <3> HIDE DEF one
    <3>1. \A k \in 1..1 : WordAt(t, N)[k] = one[k]
      BY <2>3, <2>4, <2>5 DEF one
    <3> QED
      BY <2>2, <2>5, <3>1, ListsEqual DEF one
  <2> QED
    BY <2>6 DEF N
<1>9. Steady(t)
  <2>1. \A k \in 1..m + 1 : k \in 1..m \/ k = m + 1
    BY <1>4
  <2>2. ASSUME NEW k \in 1..m + 1
        PROVE  b[k] \in 1..n + 1 /\ (WordEnd(t, b[k]) = n + 1 <=> k = m + 1)
    <3>1. CASE k \in 1..m
      <4>1. b[k] = a[k] /\ a[k] \in 1..n /\ WordEnd(t, a[k]) \in 1..n
        BY <1>4, <1>5, <1>6, <3>1
      <4> QED
        BY <1>1, <1>4, <3>1, <4>1
    <3>2. CASE k = m + 1
      BY <1>1, <1>6, <1>7, <3>2
    <3> QED
      BY <2>1, <3>1, <3>2
  <2>3. m + 1 # 0
    BY <1>4
  <2> QED
    BY <1>1, <1>2, <1>6, <2>2, <2>3 DEF Steady, b
<1>10. /\ IsList(u) /\ Len(u) = m
       /\ \A k \in 1..m : u[k] = WordAt(r, a[k])
  BY <1>4, WordsPoints DEF a, m
<1>11. /\ IsList(v) /\ Len(v) = m + 1
       /\ \A k \in 1..m + 1 : v[k] = WordAt(t, b[k])
  BY <1>6, WordsPoints DEF b
<1>12. /\ IsList(c) /\ Len(c) = m + 1 /\ c[m + 1] = <<Fold[x]>>
       /\ \A k \in 1..m : c[k] = u[k]
  BY <1>10, AppendPoints
<1> HIDE DEF u, v, z, c
<1>13. ASSUME NEW k \in 1..m + 1 PROVE v[k] = c[k]
  <2>1. CASE k \in 1..m
    BY <1>5, <1>6, <1>10, <1>11, <1>12, <2>1
  <2>2. CASE k = m + 1
    BY <1>6, <1>8, <1>11, <1>12, <2>2 DEF z
  <2> QED
    BY <1>4, <2>1, <2>2
<1>14. v = c
  BY <1>11, <1>12, <1>13, ListsEqual
<1> QED
  BY <1>1, <1>2, <1>9, <1>14 DEF u, v, c, t

LEMMA WordsGoOn ==
  ASSUME NEW r, IsList(r), Steady(r), NEW x, x \notin Delimiter, InWord(r, Len(r)),
         NEW d, IsList(d), NEW last, WordsOf(r) = Append(d, last)
  PROVE  /\ Steady(Append(r, x)) /\ InWord(Append(r, x), Len(Append(r, x)))
         /\ WordsOf(Append(r, x)) = Append(d, Append(last, Fold[x]))
<1> DEFINE n == Len(r)
           t == Append(r, x)
           a == StartList(r)
           m == Len(a)
           u == WordsOf(r)
           v == WordsOf(t)
           new == Append(last, Fold[x])
           c == Append(d, new)
<1>1. n \in Nat /\ IsList(t) /\ Len(t) = n + 1
  BY ListFacts, AppendPoints
<1>2. InWord(t, n + 1)
  BY InWordAppend
<1>3. StartList(t) = a
  <2>1. WordStarts(t) = WordStarts(r)
    BY StartsAppend
  <2> QED
    BY <2>1 DEF StartList
<1>4. /\ IsList(a) /\ m \in Nat /\ m # 0
      /\ \A k \in 1..m : a[k] \in 1..n /\ (WordEnd(r, a[k]) = n <=> k = m)
  BY ListFacts DEF Steady
<1>5. ASSUME NEW k \in 1..m, k # m
      PROVE  WordEnd(t, a[k]) \in 1..n /\ WordAt(t, a[k]) = WordAt(r, a[k])
  <2> DEFINE i == a[k]
  <2>1. i \in 1..n /\ WordEnd(r, i) # n
    BY <1>4, <1>5
  <2> HIDE DEF i
  <2>3. WordEnd(r, i) \in i..n
    BY <2>1, WordEndFacts
  <2>4. WordEnd(r, i) < n
    BY <1>1, <2>1, <2>3
  <2>2. WordEnd(t, i) = WordEnd(r, i) /\ WordAt(t, i) = WordAt(r, i)
    BY <2>1, <2>4, WordEnded
  <2> QED
    BY <1>1, <2>1, <2>2, <2>3 DEF i
<1>6. WordEnd(t, a[m]) = n + 1 /\ WordAt(t, a[m]) = Append(WordAt(r, a[m]), Fold[x])
  <2> DEFINE i == a[m]
  <2>1. i \in 1..n /\ WordEnd(r, i) = n
    <3>1. m \in 1..m
      BY <1>4
    <3> QED
      BY <1>4, <3>1
  <2> HIDE DEF i
  <2>2. WordEnd(t, i) = n + 1 /\ WordAt(t, i) = Append(WordAt(r, i), Fold[x])
    BY <2>1, WordGoesOn
  <2> QED
    BY <2>2 DEF i
<1> HIDE DEF t, a, m, n
<1>7. Steady(t)
  <2>1. ASSUME NEW k \in 1..m
        PROVE  a[k] \in 1..n + 1 /\ (WordEnd(t, a[k]) = n + 1 <=> k = m)
    <3>1. a[k] \in 1..n
      BY <1>4
    <3>2. CASE k # m
      BY <1>1, <1>5, <3>1, <3>2
    <3>3. CASE k = m
      BY <1>1, <1>6, <3>1, <3>3
    <3> QED
      BY <3>2, <3>3
  <2> QED
    BY <1>1, <1>2, <1>3, <1>4, <2>1 DEF Steady, m
<1>10. /\ IsList(u) /\ Len(u) = m
       /\ \A k \in 1..m : u[k] = WordAt(r, a[k])
  BY <1>4, WordsPoints DEF a, m
<1>11. /\ IsList(v) /\ Len(v) = m
       /\ \A k \in 1..m : v[k] = WordAt(t, a[k])
  BY <1>3, <1>4, WordsPoints DEF m
<1>12. /\ IsList(c) /\ Len(c) = Len(d) + 1 /\ c[Len(d) + 1] = new
       /\ \A k \in 1..Len(d) : c[k] = d[k]
  BY AppendPoints
<1>13. /\ Len(u) = Len(d) + 1 /\ u[Len(d) + 1] = last /\ Len(d) \in Nat
       /\ \A k \in 1..Len(d) : u[k] = d[k]
  BY ListFacts, AppendPoints
<1> HIDE DEF u, v, c, new
<1>14. m = Len(d) + 1
  BY <1>10, <1>13
<1>15. ASSUME NEW k \in 1..m PROVE v[k] = c[k]
  <2>1. CASE k # m
    <3>1. k \in 1..Len(d)
      BY <1>13, <1>14, <2>1
    <3>2. v[k] = u[k]
      BY <1>5, <1>10, <1>11, <2>1
    <3> QED
      BY <1>12, <1>13, <3>1, <3>2
  <2>2. CASE k = m
    <3>1. v[m] = Append(u[m], Fold[x])
      BY <1>6, <1>10, <1>11, <2>2
    <3>2. u[m] = last /\ c[m] = new
      BY <1>12, <1>13, <1>14
    <3> QED
      BY <2>2, <3>1, <3>2 DEF new
  <2> QED
    BY <2>1, <2>2
<1>16. v = c
  BY <1>11, <1>12, <1>14, <1>15, ListsEqual
<1> QED
  BY <1>1, <1>2, <1>7, <1>16 DEF t, v, c, new

-----------------------------------------------------------------------------
(* Turns of the ring *)

LEMMA TurnRest ==
  ASSUME NEW q \in Nat, NEW L \in Nat \ {0}, NEW r \in 0..L - 1
  PROVE  (L * q + r) % L = r
OBVIOUS

LEMMA TurnParts ==
  ASSUME NEW a \in Nat, NEW L \in Nat \ {0}
  PROVE  \E q \in Nat, r \in 0..L - 1 : a = L * q + r /\ a % L = r
<1>1. /\ a \div L \in Nat /\ (a \div L) * L \in Nat
      /\ (a \div L) * L <= a /\ a < (a \div L) * L + L
  OBVIOUS
<1> DEFINE q == a \div L
           r == a - L * q
<1>2. q \in Nat /\ r \in 0..L - 1 /\ a = L * q + r
  <2>1. (a \div L) * L = L * (a \div L)
    BY <1>1
  <2> QED
    BY <1>1, <2>1
<1> HIDE DEF q, r
<1>3. (L * q + r) % L = r
  BY <1>2, TurnRest
<1> QED
  BY <1>2, <1>3

\* Less than a turn further on.
LEMMA TurnAdd ==
  ASSUME NEW a \in Nat, NEW L \in Nat \ {0}, NEW k \in 0..L - 1
  PROVE  (a + k) % L = ((a % L) + k) % L /\ (k # 0 => (a + k) % L # a % L)
<1>1. PICK q \in Nat, r \in 0..L - 1 : a = L * q + r /\ a % L = r
  BY TurnParts
<1>2. CASE r + k < L
  <2>1. r + k \in 0..L - 1 /\ a + k = L * q + (r + k) /\ r + k = L * 0 + (r + k)
    BY <1>1, <1>2
  <2>2. (L * q + (r + k)) % L = r + k /\ (L * 0 + (r + k)) % L = r + k
    BY <2>1, TurnRest
  <2> QED
    BY <1>1, <2>1, <2>2
<1>3. CASE ~(r + k < L)
  <2> DEFINE m == r + k - L
  <2>1. m \in 0..L - 1 /\ m # r /\ q + 1 \in Nat /\ a + k = L * (q + 1) + m /\ r + k = L * 1 + m
    BY <1>1, <1>3
  <2> HIDE DEF m
  <2>2. (L * (q + 1) + m) % L = m /\ (L * 1 + m) % L = m
    BY <2>1, TurnRest
  <2> QED
    BY <1>1, <2>1, <2>2
<1> QED
  BY <1>2, <1>3

\* A whole turn further on.
LEMMA TurnWhole ==
  ASSUME NEW a \in Nat, NEW L \in Nat \ {0}
  PROVE  (a + L) % L = a % L /\ a % L \in 0..L - 1 /\ ((a % L) + 1) % L = (a + 1) % L
<1>1. PICK q \in Nat, r \in 0..L - 1 : a = L * q + r /\ a % L = r
  BY TurnParts
<1>2. a + L = L * (q + 1) + r /\ q + 1 \in Nat
  BY <1>1
<1>3. (L * (q + 1) + r) % L = r
  BY <1>2, TurnRest
<1>4. (a + 1) % L = ((a % L) + 1) % L
  <2>1. CASE r + 1 < L
    <3>1. r + 1 \in 0..L - 1 /\ a + 1 = L * q + (r + 1) /\ r + 1 = L * 0 + (r + 1)
      BY <1>1, <2>1
    <3>2. (L * q + (r + 1)) % L = r + 1 /\ (L * 0 + (r + 1)) % L = r + 1
      BY <3>1, TurnRest
    <3> QED
      BY <1>1, <3>1, <3>2
  <2>2. CASE ~(r + 1 < L)
    <3>1. 0 \in 0..L - 1 /\ q + 1 \in Nat /\ a + 1 = L * (q + 1) + 0 /\ r + 1 = L * 1 + 0
      BY <1>1, <2>2
    <3>2. (L * (q + 1) + 0) % L = 0 /\ (L * 1 + 0) % L = 0
      BY <3>1, TurnRest
    <3> QED
      BY <1>1, <3>1, <3>2
  <2> QED
    BY <2>1, <2>2
<1> QED
  BY <1>1, <1>2, <1>3, <1>4

-----------------------------------------------------------------------------
(* Shingles *)

LongRuns(d) == [i \in 1..Len(d) - K + 1 |-> SubSeq(d, i, i + K - 1)]

LEMMA LongRunsPoints ==
  ASSUME NEW d, IsList(d)
  PROVE  /\ IsList(LongRuns(d)) /\ Len(LongRuns(d)) = IF K <= Len(d) THEN Len(d) - K + 1 ELSE 0
         /\ \A i \in 1..Len(d) - K + 1 : LongRuns(d)[i] = SubSeq(d, i, i + K - 1)
<1> DEFINE n == IF K <= Len(d) THEN Len(d) - K + 1 ELSE 0
           u == LongRuns(d)
<1>1. n \in Nat /\ 1..n = 1..Len(d) - K + 1
  BY ListFacts, ShingleAssumption
<1>2. (u = [i \in 1..n |-> u[i]]) /\ \A i \in 1..n : u[i] = SubSeq(d, i, i + K - 1)
  BY <1>1 DEF LongRuns
<1> HIDE DEF u, n
<1>3. IsList(u) /\ Len(u) = n
  BY <1>1, <1>2, FunctionIsList
<1> QED
  BY <1>1, <1>2, <1>3 DEF u, n

\* One more word gives one more run, of the last K words, if there are as many.
LEMMA LongRunsAppend ==
  ASSUME NEW d, IsList(d), NEW x
  PROVE  LongRuns(Append(d, x)) =
           IF K <= Len(d) + 1 THEN Append(LongRuns(d), SubSeq(Append(d, x), Len(d) + 1 - K + 1, Len(d) + 1))
           ELSE LongRuns(d)
<1> DEFINE n == Len(d)
           t == Append(d, x)
           u == LongRuns(d)
           v == LongRuns(t)
           m == n - K + 1
           last == SubSeq(t, m + 1, n + 1)
           c == Append(u, last)
<1>1. /\ n \in Nat /\ IsList(t) /\ Len(t) = n + 1 /\ K \in Nat \ {0}
      /\ \A i \in 1..n : t[i] = d[i]
  BY ListFacts, AppendPoints, ShingleAssumption
<1>2. /\ IsList(u) /\ Len(u) = IF K <= n THEN m ELSE 0
      /\ \A i \in 1..m : u[i] = SubSeq(d, i, i + K - 1)
  BY LongRunsPoints
<1> HIDE DEF t
<1>3. /\ IsList(v) /\ Len(v) = IF K <= n + 1 THEN m + 1 ELSE 0
      /\ \A i \in 1..m + 1 : v[i] = SubSeq(t, i, i + K - 1)
  <2>1. /\ IsList(v) /\ Len(v) = IF K <= n + 1 THEN (n + 1) - K + 1 ELSE 0
        /\ \A i \in 1..(n + 1) - K + 1 : v[i] = SubSeq(t, i, i + K - 1)
    BY <1>1, LongRunsPoints
  <2>2. (n + 1) - K + 1 = m + 1
    BY <1>1
  <2> QED
    BY <2>1, <2>2
<1>4. n + 1 - K + 1 = m + 1 /\ m \in Int
  BY <1>1
<1>5. /\ IsList(c) /\ Len(c) = Len(u) + 1 /\ c[Len(u) + 1] = last
      /\ \A i \in 1..Len(u) : c[i] = u[i]
  BY <1>2, AppendPoints, ZenonT(40)
<1> HIDE DEF u, v, c, last
<1>6. CASE K <= n + 1
  <2>1. Len(u) = m /\ m \in Nat
    BY <1>1, <1>2, <1>6
  <2>2. ASSUME NEW i \in 1..m PROVE v[i] = c[i]
    <3> DEFINE p == SubSeq(t, i, i + K - 1)
               q == SubSeq(d, i, i + K - 1)
    <3>1. i \in Int /\ i + K - 1 \in Int /\ i + K - 1 <= n
      BY <1>1, <2>1
    <3>2. /\ IsList(p) /\ IsList(q) /\ Len(p) = Len(q)
      BY <3>1, PieceList
    <3>3. \A j \in 1..Len(p) : p[j] = t[i + j - 1] /\ i + j - 1 \in i..i + K - 1
      BY <3>1, PiecePoints
    <3>4. \A j \in 1..Len(q) : q[j] = d[i + j - 1] /\ i + j - 1 \in i..i + K - 1
      BY <3>1, PiecePoints
    <3> HIDE DEF p, q
    <3>5. \A j \in i..i + K - 1 : t[j] = d[j]
      BY <1>1, <3>1
    <3>6. p = q
      BY <3>2, <3>3, <3>4, <3>5, ListsEqual
    <3>7. i \in 1..m + 1 /\ i \in 1..Len(u)
      BY <2>1
    <3>8. v[i] = p /\ u[i] = q /\ c[i] = u[i]
      BY <1>2, <1>3, <1>5, <3>7 DEF p, q
    <3> QED
      BY <3>6, <3>8
  <2>3. v[m + 1] = c[m + 1]
    <3>1. m + 1 \in 1..m + 1 /\ (m + 1) + K - 1 = n + 1
      BY <1>1, <2>1
    <3> QED
      BY <1>3, <1>5, <2>1, <3>1 DEF last
  <2>4. \A i \in 1..Len(v) : v[i] = c[i]
    <3>1. \A i \in 1..m + 1 : i \in 1..m \/ i = m + 1
      BY <2>1
    <3> QED
      BY <1>3, <1>6, <2>2, <2>3, <3>1
  <2>5. v = c
    BY <1>3, <1>5, <1>6, <2>1, <2>4, ListsEqual
  <2> QED
    BY <1>4, <1>6, <2>5 DEF c, u, v, last, t
<1>7. CASE ~(K <= n + 1)
  <2>1. Len(u) = 0 /\ Len(v) = 0
    BY <1>1, <1>2, <1>3, <1>7
  <2>2. u = v
    BY <1>2, <1>3, <2>1, ListsEqual
  <2> QED
    BY <1>7, <2>2 DEF u, v, t
<1> QED
  BY <1>6, <1>7

Folded(c) == [i \in DOMAIN c |-> Fold[c[i]]]

ShinglerFields == {"leftover", "cur", "recent", "pos", "total", "prefix", "emitted", "flushed"}
IsShingler(w) == w = [field \in ShinglerFields |-> w[field]]

\* The word under way filed, before a shingle is emitted.
Filed(w) ==
  [w EXCEPT !.cur = NoWord, !.total = @ + 1,
            !.prefix = IF w.total < K THEN Append(@, Folded(w.cur)) ELSE @,
            !.recent[w.pos] = Folded(w.cur), !.pos = (@ + 1) % K]

LEMMA FiledFields ==
  ASSUME NEW w, IsShingler(w), NEW v, v = Filed(w)
  PROVE  /\ IsShingler(v)
         /\ v.leftover = w.leftover /\ v.flushed = w.flushed /\ v.emitted = w.emitted /\ v.cur = NoWord
         /\ v.total = w.total + 1 /\ v.pos = (w.pos + 1) % K
         /\ v.recent = [w.recent EXCEPT ![w.pos] = Folded(w.cur)]
         /\ v.prefix = IF w.total < K THEN Append(w.prefix, Folded(w.cur)) ELSE w.prefix
BY DEF Filed, IsShingler, ShinglerFields

LEMMA EmitFields ==
  ASSUME NEW w, IsShingler(w), NEW shingle, NEW v, v = Emit(w, shingle)
  PROVE  /\ IsShingler(v)
         /\ v.leftover = w.leftover /\ v.flushed = w.flushed /\ v.cur = w.cur
         /\ v.total = w.total /\ v.pos = w.pos /\ v.recent = w.recent /\ v.prefix = w.prefix
         /\ v.emitted = Append(w.emitted, shingle)
BY DEF Emit, IsShingler, ShinglerFields

LEMMA FlushWordIs ==
  ASSUME NEW w, w.cur # NoWord
  PROVE  FlushWord(w) = IF Filed(w).total >= K
                        THEN Emit(Filed(w), [j \in 1..K |-> Filed(w).recent[(Filed(w).pos + j - 1) % K]])
                        ELSE Filed(w)
BY DEF FlushWord, Filed, Folded

\* What the shingler remembers of the words d it has seen the end of, and what
\* it has emitted of them.
Remembers(w, d) ==
  /\ IsList(d) /\ w.total = Len(d) /\ w.pos = Len(d) % K
  /\ IsList(w.prefix) /\ Len(w.prefix) = (IF K <= Len(d) THEN K ELSE Len(d))
  /\ \A i \in 1..Len(w.prefix) : w.prefix[i] = d[i]
  /\ w.recent = [i \in 0..K - 1 |-> w.recent[i]]
  /\ \A m \in 1..Len(d) : m > Len(d) - K => w.recent[(m - 1) % K] = d[m]
Ring(w, d) == Remembers(w, d) /\ w.emitted = LongRuns(d)

\* The ring after one more word.
LEMMA RingFiled ==
  ASSUME NEW w, IsShingler(w), NEW d, Remembers(w, d)
  PROVE  Remembers(Filed(w), Append(d, Folded(w.cur)))
<1> DEFINE x == Folded(w.cur)
           t == Append(d, x)
           v == Filed(w)
           n == Len(d)
           p == w.prefix
           q == v.prefix
           a == w.recent
           b == v.recent
<1>1. /\ n \in Nat /\ IsList(t) /\ Len(t) = n + 1 /\ t[n + 1] = x /\ K \in Nat \ {0}
      /\ \A i \in 1..n : t[i] = d[i]
  BY ListFacts, AppendPoints, ShingleAssumption DEF Remembers
<1> HIDE DEF x, t, v
<1>2. /\ w.total = n /\ w.pos = n % K
      /\ IsList(p) /\ Len(p) = (IF K <= n THEN K ELSE n) /\ \A i \in 1..Len(p) : p[i] = d[i]
      /\ a = [i \in 0..K - 1 |-> a[i]]
      /\ \A m \in 1..n : m > n - K => a[(m - 1) % K] = d[m]
  BY DEF Remembers
<1>3. /\ v.total = n + 1 /\ v.pos = ((n % K) + 1) % K
      /\ b = [a EXCEPT ![n % K] = x]
      /\ q = IF n < K THEN Append(p, x) ELSE p
  <2>1. /\ v.total = w.total + 1 /\ v.pos = (w.pos + 1) % K
        /\ v.recent = [w.recent EXCEPT ![w.pos] = Folded(w.cur)]
        /\ v.prefix = IF w.total < K THEN Append(w.prefix, Folded(w.cur)) ELSE w.prefix
    BY FiledFields DEF v
  <2> HIDE DEF n
  <2> QED
    BY <1>2, <2>1 DEF x
<1> HIDE DEF n, p, q, a, b
<1>4. v.pos = (n + 1) % K /\ n % K \in 0..K - 1
  BY <1>1, <1>3, TurnWhole
<1>5. IsList(q) /\ Len(q) = (IF K <= n + 1 THEN K ELSE n + 1) /\ \A i \in 1..Len(q) : q[i] = t[i]
  <2>1. CASE n < K
    <3>1. Len(p) = n /\ IsList(q) /\ Len(q) = n + 1 /\ q[n + 1] = x /\ \A i \in 1..n : q[i] = p[i]
      BY <1>1, <1>2, <1>3, <2>1, AppendPoints
    <3>2. \A i \in 1..n + 1 : i \in 1..n \/ i = n + 1
      BY <1>1
    <3>3. \A i \in 1..n + 1 : q[i] = t[i]
      BY <1>1, <1>2, <3>1, <3>2
    <3> QED
      BY <1>1, <2>1, <3>1, <3>3
  <2>2. CASE ~(n < K)
    <3>1. q = p /\ Len(p) = K /\ Len(q) = K
      BY <1>1, <1>2, <1>3, <2>2
    <3>2. \A i \in 1..K : q[i] = d[i] /\ t[i] = d[i]
      BY <1>1, <1>2, <2>2, <3>1
    <3> QED
      BY <1>1, <1>2, <2>2, <3>1, <3>2
  <2> QED
    BY <2>1, <2>2
<1>6. (b = [i \in 0..K - 1 |-> b[i]]) /\ b[n % K] = x /\ \A i \in 0..K - 1 : i # n % K => b[i] = a[i]
  BY <1>2, <1>3, <1>4
<1>7. ASSUME NEW m \in 1..n + 1, m > (n + 1) - K PROVE b[(m - 1) % K] = t[m]
  <2>1. CASE m = n + 1
    <3>1. m - 1 = n
      BY <1>1, <2>1
    <3> QED
      BY <1>1, <1>6, <2>1, <3>1
  <2>2. CASE m # n + 1
    <3> DEFINE o == m - 1
               k == n - o
    <3>1. o \in Nat /\ k \in 0..K - 1 /\ k # 0 /\ n = o + k /\ m \in 1..n /\ m > n - K
      BY <1>1, <1>7, <2>2
    <3> HIDE DEF o, k
    <3>2. (o + k) % K # o % K
      BY <1>1, <3>1, TurnAdd
    <3>5. o % K \in 0..K - 1
      BY <1>1, <3>1, TurnWhole
    <3>3. b[o % K] = a[o % K]
      BY <1>6, <3>1, <3>2, <3>5
    <3>4. a[o % K] = d[m]
      BY <1>2, <3>1 DEF o
    <3> QED
      BY <1>1, <3>1, <3>3, <3>4 DEF o
  <2> QED
    BY <2>1, <2>2
<1>8. \A m \in 1..n + 1 : m > (n + 1) - K => b[(m - 1) % K] = t[m]
  BY <1>7
<1>9. Remembers(v, t)
  BY <1>1, <1>3, <1>4, <1>5, <1>6, <1>8 DEF q, b, Remembers
<1> QED
  BY <1>9 DEF v, t, x

\* Read from its oldest word on, the ring is the last run.
LEMMA RingRun ==
  ASSUME NEW t, IsList(t), K <= Len(t), NEW recent,
         \A m \in 1..Len(t) : m > Len(t) - K => recent[(m - 1) % K] = t[m],
         NEW pos, pos = Len(t) % K
  PROVE  [j \in 1..K |-> recent[(pos + j - 1) % K]] = SubSeq(t, Len(t) - K + 1, Len(t))
<1> DEFINE n == Len(t)
           u == [j \in 1..K |-> recent[(pos + j - 1) % K]]
           v == SubSeq(t, n - K + 1, n)
<1>1. n \in Nat /\ K \in Nat \ {0} /\ n - K \in Nat /\ n - K + 1 \in Int /\ n \in Int
  BY ListFacts, ShingleAssumption
<1>2. (u = [j \in 1..K |-> u[j]]) /\ \A j \in 1..K : u[j] = recent[(pos + j - 1) % K]
  OBVIOUS
<1> HIDE DEF n, u
<1>3. IsList(u) /\ Len(u) = K
  BY <1>1, <1>2, FunctionIsList
<1>4. IsList(v) /\ Len(v) = K
  <2>1. IsList(v) /\ Len(v) = IF n - K + 1 <= n THEN n - (n - K + 1) + 1 ELSE 0
    BY <1>1, PieceList
  <2> QED
    BY <1>1, <2>1
<1>5. \A j \in 1..Len(v) : v[j] = t[n - K + 1 + j - 1]
  BY <1>1, PiecePoints
<1> HIDE DEF v
<1>6. ASSUME NEW j \in 1..K PROVE u[j] = v[j]
  <2> DEFINE a == n - K
             k == j - 1
  <2>1. /\ a \in Nat /\ k \in 0..K - 1 /\ n = a + K /\ pos + j - 1 = pos + k
        /\ n - K + 1 + j - 1 = a + j /\ (a + j) - 1 = a + k /\ a + j \in 1..n /\ a + j > n - K
    <3>1. pos \in Int
      BY <1>1 DEF n
    <3> QED
      BY <1>1, <3>1
  <2> HIDE DEF a, k
  <2>6. (a + K) % K = a % K
    BY <1>1, <2>1, TurnWhole
  <2>7. (a + k) % K = ((a % K) + k) % K
    BY <1>1, <2>1, TurnAdd, ZenonT(40)
  <2>2. n % K = a % K /\ (a + k) % K = ((a % K) + k) % K
    BY <2>1, <2>6, <2>7
  <2>3. u[j] = recent[(a + k) % K]
    BY <1>2, <2>1, <2>2 DEF n
  <2>4. recent[((a + j) - 1) % K] = t[a + j]
    BY <2>1 DEF n
  <2>5. v[j] = t[a + j]
    BY <1>4, <1>5, <2>1
  <2> QED
    BY <2>1, <2>3, <2>4, <2>5
<1>7. u = v
  BY <1>3, <1>4, <1>6, ListsEqual
<1> QED
  BY <1>7 DEF u, v, n

\* One list is a longer version of another.
Grows(e, f) == IsList(e) /\ IsList(f) /\ Len(e) <= Len(f) /\ \A i \in 1..Len(e) : f[i] = e[i]

LEMMA GrowsSame == ASSUME NEW e, IsList(e) PROVE Grows(e, e)
BY ListFacts DEF Grows

LEMMA GrowsAppend == ASSUME NEW e, IsList(e), NEW x PROVE Grows(e, Append(e, x))
BY ListFacts, AppendPoints DEF Grows

LEMMA GrowsOn == ASSUME NEW e, NEW f, NEW g, Grows(e, f), Grows(f, g) PROVE Grows(e, g)
<1>1. Len(e) \in Nat /\ Len(f) \in Nat /\ Len(g) \in Nat
  BY ListFacts DEF Grows
<1> QED
  BY <1>1 DEF Grows

\* flushWord emits the run its word completes, and nothing else.
LEMMA RingFlushed ==
  ASSUME NEW w, IsShingler(w), NEW d, Ring(w, d), w.cur # NoWord, NEW v, v = FlushWord(w)
  PROVE  /\ IsShingler(v) /\ v.cur = NoWord /\ v.leftover = w.leftover /\ v.flushed = w.flushed
         /\ Ring(v, Append(d, Folded(w.cur)))
         /\ Grows(w.emitted, v.emitted)
<1> DEFINE x == Folded(w.cur)
           t == Append(d, x)
           f == Filed(w)
           n == Len(t)
<1>1. /\ IsShingler(f) /\ f.emitted = w.emitted /\ f.cur = NoWord
      /\ f.leftover = w.leftover /\ f.flushed = w.flushed
  BY FiledFields
<1>8. Remembers(f, t)
  BY RingFiled DEF Ring
<1>3. /\ n \in Nat /\ Len(d) \in Nat /\ K \in Nat \ {0} /\ IsList(d) /\ w.emitted = LongRuns(d)
      /\ IsList(t) /\ n = Len(d) + 1
  BY ListFacts, AppendPoints, ShingleAssumption DEF Ring, Remembers
<1>4. LongRuns(t) = IF K <= n THEN Append(LongRuns(d), SubSeq(t, n - K + 1, n)) ELSE LongRuns(d)
  <2>1. LongRuns(t) = IF K <= Len(d) + 1 THEN Append(LongRuns(d), SubSeq(t, Len(d) + 1 - K + 1, Len(d) + 1))
                      ELSE LongRuns(d)
    BY <1>3, LongRunsAppend
  <2> HIDE DEF t
  <2> QED
    BY <1>3, <2>1
<1>5. v = IF f.total >= K THEN Emit(f, [j \in 1..K |-> f.recent[(f.pos + j - 1) % K]]) ELSE f
  BY FlushWordIs
<1> HIDE DEF f, t, x
<1>2. /\ f.total = n /\ f.pos = n % K
      /\ \A m \in 1..n : m > n - K => f.recent[(m - 1) % K] = t[m]
  BY <1>8 DEF Remembers
<1>6. CASE K <= n
  <2> DEFINE r == [j \in 1..K |-> f.recent[(f.pos + j - 1) % K]]
  <2>1. r = SubSeq(t, n - K + 1, n)
    <3> DEFINE recent == f.recent
               pos == f.pos
    <3>1. IsList(t) /\ K <= Len(t) /\ pos = Len(t) % K
      BY <1>2, <1>3, <1>6
    <3>2. \A m \in 1..Len(t) : m > Len(t) - K => recent[(m - 1) % K] = t[m]
      BY <1>2
    <3> HIDE DEF recent, pos
    <3>3. [j \in 1..K |-> recent[(pos + j - 1) % K]] = SubSeq(t, Len(t) - K + 1, Len(t))
      BY <3>1, <3>2, RingRun, SMTT(30)
    <3> QED
      BY <3>3 DEF recent, pos
  <2> HIDE DEF r
  <2>2. v = Emit(f, r)
    BY <1>2, <1>3, <1>5, <1>6 DEF r
  <2>3. /\ IsShingler(v) /\ v.leftover = f.leftover /\ v.flushed = f.flushed /\ v.cur = f.cur
        /\ v.total = f.total /\ v.pos = f.pos /\ v.recent = f.recent /\ v.prefix = f.prefix
        /\ v.emitted = Append(f.emitted, r)
    BY <1>1, <2>2, EmitFields
  <2>4. v.emitted = LongRuns(t)
    BY <1>1, <1>3, <1>4, <1>6, <2>1, <2>3
  <2>5. Ring(v, t)
    BY <1>8, <2>3, <2>4 DEF Ring, Remembers
  <2>6. v.emitted = Append(w.emitted, r)
    BY <1>1, <2>3
  <2>7. Grows(w.emitted, v.emitted)
    BY <1>3, <2>6, LongRunsPoints, GrowsAppend
  <2> QED
    BY <1>1, <2>3, <2>5, <2>7 DEF t, x
<1>7. CASE ~(K <= n)
  <2>1. v = f
    BY <1>2, <1>3, <1>5, <1>7
  <2>2. v.emitted = LongRuns(t)
    BY <1>1, <1>3, <1>4, <1>7, <2>1
  <2>3. Ring(v, t)
    BY <1>8, <2>1, <2>2 DEF Ring
  <2>4. Grows(w.emitted, v.emitted)
    BY <1>1, <1>3, <2>1, LongRunsPoints, GrowsSame
  <2> QED
    BY <1>1, <2>1, <2>3, <2>4 DEF t, x
<1> QED
  BY <1>6, <1>7

-----------------------------------------------------------------------------
(* The shingler reads characters *)

\* Format characters do not count.
KeptRunes(s) == Where(s, LAMBDA rune : rune \notin Dropped)
KeptOf(s) == {x \in {s[i] : i \in DOMAIN s} : x \notin Dropped}

LEMMA KeptNone == KeptRunes(<<>>) = <<>>
BY ChosenEmpty DEF KeptRunes, Where

LEMMA KeptAppend ==
  ASSUME NEW s, IsList(s), NEW x
  PROVE  KeptRunes(Append(s, x)) = IF x \in Dropped THEN KeptRunes(s) ELSE Append(KeptRunes(s), x)
<1> DEFINE A == ToSet(s) \cup {x}
           t == Append(s, x)
           P == KeptOf(s)
           Q == KeptOf(t)
<1>1. s \in Seq(A) /\ x \in A
  BY SeqMonotonic DEF IsList
<1>2. /\ IsList(t) /\ Len(t) = Len(s) + 1 /\ t[Len(s) + 1] = x /\ Len(s) \in Nat
      /\ \A i \in 1..Len(s) : t[i] = s[i]
      /\ DOMAIN s = 1..Len(s) /\ DOMAIN t = 1..Len(s) + 1
  BY ListFacts, AppendPoints
<1>3. KeptRunes(s) = Chosen(s, P) /\ KeptRunes(t) = Chosen(t, Q)
  BY DEF KeptRunes, Where, KeptOf
<1> HIDE DEF A
<1>4. Chosen(t, Q) = IF x \in Q THEN Append(Chosen(s, Q), x) ELSE Chosen(s, Q)
  BY <1>1, ChosenAppend
<1>5. x \in Q <=> x \notin Dropped
  <2>1. Len(s) + 1 \in 1..Len(s) + 1
    BY <1>2
  <2> QED
    BY <1>2, <2>1 DEF KeptOf
<1>6. \A y \in Of(s) : y \in P <=> y \in Q
  <2>1. \A i \in 1..Len(s) : i \in 1..Len(s) + 1
    BY <1>2
  <2>2. \A y \in Of(s) : y \in {s[i] : i \in DOMAIN s} /\ y \in {t[i] : i \in DOMAIN t}
    <3> SUFFICES ASSUME NEW i \in 1..Len(s)
                 PROVE  s[i] \in {s[k] : k \in DOMAIN s} /\ s[i] \in {t[k] : k \in DOMAIN t}
      BY DEF Of
    <3> HIDE DEF t
    <3>1. i \in DOMAIN s /\ i \in DOMAIN t /\ t[i] = s[i]
      BY <1>2, <2>1
    <3> QED
      BY <3>1
  <2> QED
    BY <2>2 DEF KeptOf
<1> HIDE DEF P, Q, t
<1>7. Chosen(s, Q) = Chosen(s, P)
  BY <1>1, <1>6, ChosenSame
<1> QED
  BY <1>3, <1>4, <1>5, <1>7 DEF t

LEMMA FoldedFacts ==
  ASSUME NEW c, IsList(c)
  PROVE  IsList(Folded(c)) /\ Len(Folded(c)) = Len(c) /\ \A i \in 1..Len(c) : Folded(c)[i] = Fold[c[i]]
<1> DEFINE u == Folded(c)
           n == Len(c)
<1>1. n \in Nat /\ DOMAIN c = 1..n
  BY ListFacts
<1>2. (u = [i \in 1..n |-> u[i]]) /\ \A i \in 1..n : u[i] = Fold[c[i]]
  BY <1>1 DEF Folded
<1> HIDE DEF u, n
<1>3. IsList(u) /\ Len(u) = n
  BY <1>1, <1>2, FunctionIsList
<1> QED
  BY <1>2, <1>3 DEF u, n

LEMMA FoldedAppend ==
  ASSUME NEW c, IsList(c), NEW x
  PROVE  Folded(Append(c, x)) = Append(Folded(c), Fold[x])
<1> DEFINE t == Append(c, x)
           u == Folded(c)
           v == Folded(t)
           a == Append(u, Fold[x])
           n == Len(c)
<1>1. /\ n \in Nat /\ IsList(t) /\ Len(t) = n + 1 /\ t[n + 1] = x
      /\ \A i \in 1..n : t[i] = c[i]
  BY ListFacts, AppendPoints
<1>2. IsList(u) /\ Len(u) = n /\ \A i \in 1..n : u[i] = Fold[c[i]]
  BY FoldedFacts
<1> HIDE DEF t
<1>3. IsList(v) /\ Len(v) = n + 1 /\ \A i \in 1..n + 1 : v[i] = Fold[t[i]]
  BY <1>1, FoldedFacts
<1> HIDE DEF u, v
<1>4. /\ IsList(a) /\ Len(a) = n + 1 /\ a[n + 1] = Fold[x]
      /\ \A i \in 1..n : a[i] = u[i]
  BY <1>2, AppendPoints
<1> HIDE DEF a, n
<1>5. ASSUME NEW i \in 1..n + 1 PROVE v[i] = a[i]
  <2>1. CASE i \in 1..n
    BY <1>1, <1>2, <1>3, <1>4, <2>1
  <2>2. CASE i = n + 1
    BY <1>1, <1>3, <1>4, <2>2
  <2> QED
    BY <1>1, <2>1, <2>2
<1>6. v = a
  BY <1>3, <1>4, <1>5, ListsEqual
<1> QED
  BY <1>6 DEF v, a, u, t

\* The shingler after the characters r: the words that have ended are in the
\* ring, the last one, if it has not, is under way.
Reads(w, r) ==
  /\ IsShingler(w) /\ IsList(w.cur) /\ IsList(r) /\ Steady(r)
  /\ w.cur # NoWord <=> InWord(r, Len(r))
  /\ \E d : Ring(w, d) /\ WordsOf(r) = IF w.cur = NoWord THEN d ELSE Append(d, Folded(w.cur))

\* A word that ends goes from cur to the ring.
LEMMA FlushReads ==
  ASSUME NEW w, NEW r, Reads(w, r), NEW v, v = FlushWord(w)
  PROVE  /\ IsShingler(v) /\ v.cur = NoWord /\ v.leftover = w.leftover /\ v.flushed = w.flushed
         /\ Ring(v, WordsOf(r)) /\ Grows(w.emitted, v.emitted)
<1>1. PICK d : Ring(w, d) /\ WordsOf(r) = IF w.cur = NoWord THEN d ELSE Append(d, Folded(w.cur))
  BY DEF Reads
<1>2. IsList(d) /\ w.emitted = LongRuns(d) /\ IsList(w.emitted) /\ IsShingler(w)
  <2>1. IsList(d) /\ w.emitted = LongRuns(d)
    BY <1>1 DEF Ring, Remembers
  <2>2. IsList(LongRuns(d))
    BY <2>1, LongRunsPoints
  <2> QED
    BY <2>1, <2>2 DEF Reads
<1>3. CASE w.cur = NoWord
  <2>1. v = w
    BY <1>3 DEF FlushWord
  <2>2. Grows(w.emitted, w.emitted)
    BY <1>2, GrowsSame
  <2> QED
    BY <1>1, <1>2, <1>3, <2>1, <2>2
<1>4. CASE w.cur # NoWord
  <2>1. /\ IsShingler(v) /\ v.cur = NoWord /\ v.leftover = w.leftover /\ v.flushed = w.flushed
        /\ Ring(v, Append(d, Folded(w.cur)))
        /\ Grows(w.emitted, v.emitted)
    <3>1. IsShingler(w) /\ Ring(w, d)
      BY <1>1, <1>2
    <3>2. IsShingler(v) /\ v.cur = NoWord /\ v.leftover = w.leftover /\ v.flushed = w.flushed
      BY <1>4, <3>1, RingFlushed
    <3>3. Ring(v, Append(d, Folded(w.cur)))
      BY <1>4, <3>1, RingFlushed
    <3>4. Grows(w.emitted, v.emitted)
      BY <1>4, <3>1, RingFlushed
    <3> QED
      BY <3>2, <3>3, <3>4
  <2> QED
    BY <1>1, <1>4, <2>1
<1> QED
  BY <1>3, <1>4

Longer(w, x) == [w EXCEPT !.cur = Append(@, x)]

LEMMA LongerFields ==
  ASSUME NEW w, IsShingler(w), NEW x, NEW v, v = Longer(w, x)
  PROVE  /\ IsShingler(v) /\ v.cur = Append(w.cur, x)
         /\ v.leftover = w.leftover /\ v.flushed = w.flushed /\ v.emitted = w.emitted
         /\ v.total = w.total /\ v.pos = w.pos /\ v.prefix = w.prefix /\ v.recent = w.recent
BY DEF Longer, IsShingler, ShinglerFields

LEMMA AppendNotEmpty == ASSUME NEW s, IsList(s), NEW x PROVE Append(s, x) # <<>>
<1>1. Len(Append(s, x)) = Len(s) + 1 /\ Len(s) \in Nat
  BY ListFacts, AppendPoints
<1>2. Len(<<>>) = 0
  BY EmptySeq
<1> QED
  BY <1>1, <1>2

\* A character that belongs to a word.
LEMMA LongerReads ==
  ASSUME NEW w, NEW r, Reads(w, r), NEW x, x \notin Delimiter, NEW v, v = Longer(w, x)
  PROVE  Reads(v, Append(r, x)) /\ v.leftover = w.leftover /\ v.flushed = w.flushed /\ v.emitted = w.emitted
<1>1. PICK d : Ring(w, d) /\ WordsOf(r) = IF w.cur = NoWord THEN d ELSE Append(d, Folded(w.cur))
  BY DEF Reads
<1>2. IsShingler(w) /\ IsList(w.cur) /\ IsList(r) /\ Steady(r) /\ (w.cur # NoWord <=> InWord(r, Len(r)))
  BY DEF Reads
<1>3. /\ IsShingler(v) /\ v.cur = Append(w.cur, x)
      /\ v.leftover = w.leftover /\ v.flushed = w.flushed /\ v.emitted = w.emitted
      /\ v.total = w.total /\ v.pos = w.pos /\ v.prefix = w.prefix /\ v.recent = w.recent
  BY <1>2, LongerFields
<1>4. IsList(v.cur) /\ v.cur # NoWord /\ IsList(Append(r, x))
  BY <1>2, <1>3, AppendIsList, AppendNotEmpty DEF NoWord
<1>5. Ring(v, d) /\ IsList(d)
  BY <1>1, <1>3 DEF Ring, Remembers
<1>6. Folded(v.cur) = Append(Folded(w.cur), Fold[x])
  BY <1>2, <1>3, FoldedAppend
<1>7. /\ Steady(Append(r, x)) /\ InWord(Append(r, x), Len(Append(r, x)))
      /\ WordsOf(Append(r, x)) = Append(d, Folded(v.cur))
  <2>1. CASE w.cur = NoWord
    <3>1. Folded(NoWord) = NoWord
      <4>1. IsList(NoWord) /\ Len(NoWord) = 0
        BY EmptyIsList, EmptySeq DEF NoWord
      <4>2. IsList(Folded(NoWord)) /\ Len(Folded(NoWord)) = 0
        BY <4>1, FoldedFacts
      <4> QED
        BY <4>1, <4>2, ListsEqual
    <3>2. Append(NoWord, Fold[x]) = <<Fold[x]>>
      BY DEF NoWord
    <3>3. Folded(v.cur) = <<Fold[x]>>
      BY <1>6, <2>1, <3>1, <3>2
    <3>4. /\ Steady(Append(r, x)) /\ InWord(Append(r, x), Len(Append(r, x)))
          /\ WordsOf(Append(r, x)) = Append(WordsOf(r), <<Fold[x]>>)
      BY <1>2, <2>1, WordsBegin
    <3> QED
      BY <1>1, <2>1, <3>3, <3>4
  <2>2. CASE w.cur # NoWord
    <3> DEFINE last == Folded(w.cur)
    <3>1. WordsOf(r) = Append(d, last) /\ InWord(r, Len(r))
      BY <1>1, <1>2, <2>2
    <3> HIDE DEF last
    <3>2. /\ Steady(Append(r, x)) /\ InWord(Append(r, x), Len(Append(r, x)))
          /\ WordsOf(Append(r, x)) = Append(d, Append(last, Fold[x]))
      BY <1>2, <1>5, <3>1, WordsGoOn
    <3> QED
      BY <1>6, <3>2 DEF last
  <2> QED
    BY <2>1, <2>2
<1>8. Reads(v, Append(r, x))
  BY <1>3, <1>4, <1>5, <1>7 DEF Reads
<1> QED
  BY <1>3, <1>8

\* A character that ends one.
LEMMA DelimitedReads ==
  ASSUME NEW w, NEW r, Reads(w, r), NEW x, x \in Delimiter, NEW v, v = FlushWord(w)
  PROVE  Reads(v, Append(r, x))
<1>1. IsShingler(v) /\ v.cur = NoWord /\ Ring(v, WordsOf(r))
  BY FlushReads
<1>2. IsList(r) /\ Steady(r)
  BY DEF Reads
<1>3. /\ Steady(Append(r, x)) /\ ~InWord(Append(r, x), Len(Append(r, x)))
      /\ WordsOf(Append(r, x)) = WordsOf(r)
  BY <1>2, WordsSame
<1>4. IsList(v.cur) /\ IsList(Append(r, x))
  BY <1>1, <1>2, EmptyIsList, AppendIsList DEF NoWord
<1> QED
  BY <1>1, <1>3, <1>4 DEF Reads

LEMMA ReadsEmitted ==
  ASSUME NEW w, NEW r, Reads(w, r)
  PROVE  IsList(w.emitted) /\ Grows(w.emitted, w.emitted)
<1>1. PICK d : Ring(w, d)
  BY DEF Reads
<1>2. IsList(w.emitted)
  BY <1>1, LongRunsPoints DEF Ring, Remembers
<1> QED
  BY <1>2, GrowsSame

\* A shingler that goes on from w without touching what is left over.
GoesOn(w, v) == v.leftover = w.leftover /\ v.flushed = w.flushed /\ Grows(w.emitted, v.emitted)

LEMMA ConsumeReads ==
  ASSUME NEW w, NEW s, IsList(s), Reads(w, KeptRunes(s)), NEW x, NEW v, v = Consume(w, x)
  PROVE  Reads(v, KeptRunes(Append(s, x))) /\ GoesOn(w, v)
<1> DEFINE r == KeptRunes(s)
<1>0. Reads(w, r) /\ KeptRunes(Append(s, x)) = IF x \in Dropped THEN r ELSE Append(r, x)
  BY KeptAppend
<1> HIDE DEF r
<1>1. CASE x \in Dropped
  <2>1. v = w
    BY <1>1 DEF Consume
  <2> QED
    BY <1>0, <1>1, <2>1, ReadsEmitted DEF GoesOn
<1>2. CASE x \notin Dropped /\ x \in Delimiter
  <2>1. v = FlushWord(w)
    BY <1>2 DEF Consume
  <2>2. Reads(v, Append(r, x))
    BY <1>0, <1>2, <2>1, DelimitedReads
  <2>3. GoesOn(w, v)
    BY <1>0, <2>1, FlushReads DEF GoesOn
  <2> QED
    BY <1>0, <1>2, <2>2, <2>3
<1>3. CASE x \notin Dropped /\ x \notin Delimiter
  <2>1. v = Longer(w, x)
    BY <1>3 DEF Consume, Longer
  <2>2. Reads(v, Append(r, x)) /\ v.leftover = w.leftover /\ v.flushed = w.flushed /\ v.emitted = w.emitted
    BY <1>0, <1>3, <2>1, LongerReads
  <2>3. GoesOn(w, v)
    BY <1>0, <2>2, ReadsEmitted DEF GoesOn
  <2> QED
    BY <1>0, <1>3, <2>2, <2>3
<1> QED
  BY <1>1, <1>2, <1>3

LEMMA ConsumeAllReads ==
  ASSUME NEW w, NEW s, IsList(s), Reads(w, KeptRunes(s)), NEW t, IsList(t)
  PROVE  Reads(ConsumeAll(w, t), KeptRunes(s \o t)) /\ GoesOn(w, ConsumeAll(w, t))
<1> DEFINE A == ToSet(t) \cup ToSet(s)
           S == {r \in Seq(A) : Reads(ConsumeAll(w, r), KeptRunes(s \o r)) /\ GoesOn(w, ConsumeAll(w, r))}
<1>0. s \in Seq(A) /\ t \in Seq(A)
  BY SeqMonotonic DEF IsList
<1> HIDE DEF A
<1>1. <<>> \in S
  <2>1. ConsumeAll(w, <<>>) = w
    BY ConsumeNone
  <2>2. s \o <<>> = s /\ <<>> \in Seq(A)
    BY <1>0, ConcatEmptySeq, EmptySeq
  <2>3. GoesOn(w, w)
    BY ReadsEmitted DEF GoesOn
  <2> QED
    BY <2>1, <2>2, <2>3
<1>2. ASSUME NEW r \in Seq(A), NEW x \in A, r \in S PROVE Append(r, x) \in S
  <2> DEFINE u == ConsumeAll(w, r)
             v == ConsumeAll(w, Append(r, x))
             p == s \o r
  <2>1. Reads(u, KeptRunes(p)) /\ GoesOn(w, u) /\ IsList(r)
    BY <1>2, ListIsList
  <2>2. v = Consume(u, x)
    BY <2>1, ConsumeAppend
  <2>3. IsList(p)
    BY <2>1, JoinList
  <2>4. s \o Append(r, x) = Append(p, x) /\ Append(r, x) \in Seq(A)
    BY <1>0, ConcatAppend, AppendProperties
  <2> HIDE DEF u, v, p
  <2>5. Reads(v, KeptRunes(Append(p, x))) /\ GoesOn(u, v)
    BY <2>1, <2>2, <2>3, ConsumeReads
  <2>6. GoesOn(w, v)
    BY <2>1, <2>5, GrowsOn DEF GoesOn
  <2> QED
    BY <2>4, <2>5, <2>6 DEF v
<1> HIDE DEF S
<1>3. Seq(A) \subseteq S
  BY <1>1, <1>2, AllLists
<1> QED
  BY <1>0, <1>3 DEF S

-----------------------------------------------------------------------------
(* Write and Flush *)

\* The shingler once all of s has been written to it.
Written(w, s) ==
  /\ IsList(s) /\ w.leftover = Rest(s, Decode(s).rest) /\ w.flushed = FALSE
  /\ Reads(w, KeptRunes(Decode(s).runes))

WithLeftover(w, rest, flushed) == [w EXCEPT !.flushed = flushed, !.leftover = rest]

LEMMA LeftoverFields ==
  ASSUME NEW w, IsShingler(w), NEW rest, NEW flushed, NEW v, v = WithLeftover(w, rest, flushed)
  PROVE  /\ IsShingler(v) /\ v.leftover = rest /\ v.flushed = flushed
         /\ v.cur = w.cur /\ v.emitted = w.emitted
         /\ v.total = w.total /\ v.pos = w.pos /\ v.prefix = w.prefix /\ v.recent = w.recent
BY DEF WithLeftover, IsShingler, ShinglerFields

\* Only what is left over changes from w to v.
Sets(w, v, rest, flushed) == v.leftover = rest /\ v.flushed = flushed /\ v.emitted = w.emitted

LEMMA LeftoverReads ==
  ASSUME NEW w, NEW r, Reads(w, r), NEW rest, NEW flushed
  PROVE  Sets(w, WithLeftover(w, rest, flushed), rest, flushed) /\ Reads(WithLeftover(w, rest, flushed), r)
<1> DEFINE v == WithLeftover(w, rest, flushed)
<1>1. PICK d : Ring(w, d) /\ WordsOf(r) = IF w.cur = NoWord THEN d ELSE Append(d, Folded(w.cur))
  BY DEF Reads
<1>2. IsShingler(w) /\ IsList(w.cur) /\ IsList(r) /\ Steady(r) /\ (w.cur # NoWord <=> InWord(r, Len(r)))
  BY DEF Reads
<1>3. /\ IsShingler(v) /\ v.leftover = rest /\ v.flushed = flushed
      /\ v.cur = w.cur /\ v.emitted = w.emitted
      /\ v.total = w.total /\ v.pos = w.pos /\ v.prefix = w.prefix /\ v.recent = w.recent
  BY <1>2, LeftoverFields
<1> HIDE DEF v
<1>4. Ring(v, d)
  BY <1>1, <1>3 DEF Ring, Remembers
<1>5. Reads(v, r) /\ Sets(w, v, rest, flushed)
  BY <1>1, <1>2, <1>3, <1>4 DEF Reads, Sets
<1> QED
  BY <1>5 DEF v

LEMMA DecodeType ==
  ASSUME NEW A, NEW s \in Seq(A)
  PROVE  /\ Decode(s) \in Decoded(s, A) /\ IsList(Decode(s).runes)
         /\ Decode(s).rest \in Nat \ {0} /\ Decode(s).rest \in 1..Len(s) + 1
<1>1. PICK u \in [0..Len(s) -> Decoded(s, A)] : Decode(s) = u[Len(s)]
  BY DecodeRecurs
<1>2. Len(s) \in Nat
  BY LenProperties
<1>3. Decode(s) \in Decoded(s, A)
  BY <1>1, <1>2
<1>4. Decode(s).runes \in Seq(AnyRune(A)) /\ Decode(s).rest \in Nat \ {0} /\ Decode(s).rest <= Len(s) + 1
  BY <1>3 DEF Decoded
<1> QED
  BY <1>2, <1>3, <1>4, ListIsList

LEMMA ShiftedFields ==
  ASSUME NEW a, NEW b
  PROVE  Shifted(a, b).runes = a.runes \o b.runes /\ Shifted(a, b).rest = a.rest + b.rest - 1
BY DEF Shifted

LEMMA WriteWritten ==
  ASSUME NEW w, NEW s, Written(w, s), NEW chunk, IsList(chunk)
  PROVE  Written(WriteChunk(w, chunk), s \o chunk) /\ Grows(w.emitted, WriteChunk(w, chunk).emitted)
<1> DEFINE A == ToSet(s) \cup ToSet(chunk)
           d == Decode(s)
           t == s \o chunk
           p == w.leftover \o chunk
           e == Decode(p)
           rest == SubSeq(p, e.rest, Len(p))
           f == WithLeftover(w, rest, FALSE)
           v == ConsumeAll(f, e.runes)
<1>1. IsList(s) /\ w.leftover = Rest(s, d.rest) /\ Reads(w, KeptRunes(d.runes))
  BY DEF Written
<1>2. s \in Seq(A) /\ chunk \in Seq(A)
  BY <1>1, SeqMonotonic DEF IsList
<1> HIDE DEF A
<1>3. IsList(d.runes) /\ d.rest \in Nat \ {0} /\ d.rest \in 1..Len(s) + 1 /\ d \in Decoded(s, A)
  BY <1>2, DecodeType
<1>4. t \in Seq(A) /\ IsList(t)
  BY <1>2, ConcatProperties, ListIsList
<1> HIDE DEF d
<1>5. p = Rest(t, d.rest)
  BY <1>1, <1>2, <1>3, RestOfJoin, ZenonT(40)
<1>6. p \in Seq(A)
  BY <1>3, <1>4, <1>5, RestFacts, ZenonT(40)
<1>7. Decode(t) = Shifted(d, e)
  BY <1>1, <1>2, DecodeJoin DEF d
<1> HIDE DEF p, t
<1>8. IsList(e.runes) /\ e.rest \in Nat \ {0}
  BY <1>6, DecodeType
<1>9. WriteChunk(w, chunk) = v
  BY DEF WriteChunk, WithLeftover, p, e
<1> HIDE DEF e, rest, f, v
<1>10. Decode(t).runes = d.runes \o e.runes /\ Decode(t).rest = d.rest + e.rest - 1
  BY <1>7, ShiftedFields
<1> USE DEF v, f, rest
<1>11. rest = Rest(t, d.rest + e.rest - 1)
  <2>1. rest = Rest(p, e.rest)
    BY DEF Rest
  <2>2. Rest(Rest(t, d.rest), e.rest) = Rest(t, d.rest + e.rest - 1)
    BY <1>3, <1>4, <1>8, RestOfRest
  <2> QED
    BY <1>5, <2>1, <2>2
<1> HIDE DEF rest
<1>12. Reads(f, KeptRunes(d.runes)) /\ f.leftover = rest /\ f.flushed = FALSE /\ f.emitted = w.emitted
  <2> DEFINE r == KeptRunes(d.runes)
  <2>1. Reads(w, r)
    BY <1>1
  <2> HIDE DEF r
  <2>2. Sets(w, f, rest, FALSE) /\ Reads(f, r)
    BY <2>1, LeftoverReads
  <2> QED
    BY <2>2 DEF Sets, r
<1> HIDE DEF f
<1>13. Reads(v, KeptRunes(d.runes \o e.runes)) /\ GoesOn(f, v)
  BY <1>3, <1>8, <1>12, ConsumeAllReads
<1> HIDE DEF v
<1>14. Written(v, t)
  BY <1>4, <1>10, <1>11, <1>12, <1>13 DEF Written, GoesOn
<1> QED
  BY <1>9, <1>12, <1>13, <1>14 DEF GoesOn, t

\* What Flush emits is what the property asks for.
LEMMA FlushEmits ==
  ASSUME NEW w, NEW s, Written(w, s)
  PROVE  Flush(w).emitted = RunsOf(Words(s)) /\ Grows(w.emitted, Flush(w).emitted)
<1> DEFINE A == ToSet(s)
           d == Decode(s)
           n == Len(s) - d.rest + 1
           tail == [i \in DOMAIN w.leftover |-> RuneError]
           f == [w EXCEPT !.leftover = <<>>, !.flushed = TRUE]
           x == ConsumeAll(f, tail)
           v == FlushWord(x)
           words == Words(s)
<1>1. IsList(s) /\ w.leftover = Rest(s, d.rest) /\ w.flushed = FALSE /\ Reads(w, KeptRunes(d.runes))
  BY DEF Written
<1>2. s \in Seq(A) /\ Len(s) \in Nat
  BY <1>1, ListFacts DEF IsList
<1>3. IsList(d.runes) /\ d.rest \in Nat \ {0} /\ d.rest \in 1..Len(s) + 1
  BY <1>2, DecodeType
<1> HIDE DEF A, d
<1>4. n \in Nat /\ DOMAIN w.leftover = 1..n
  <2>1. IsList(Rest(s, d.rest)) /\ Len(Rest(s, d.rest)) = n
    <3>1. d.rest \in Int /\ Len(s) \in Int /\ (d.rest <= Len(s) \/ d.rest = Len(s) + 1)
      BY <1>2, <1>3
    <3>2. IsList(Rest(s, d.rest)) /\ Len(Rest(s, d.rest)) = IF d.rest <= Len(s) THEN n ELSE 0
      BY <3>1, PieceList DEF Rest
    <3> QED
      BY <3>1, <3>2
  <2>2. DOMAIN Rest(s, d.rest) = 1..n /\ n \in Nat
    BY <1>2, <1>3, <2>1, ListFacts
  <2> QED
    BY <1>1, <2>2
<1> HIDE DEF n
<1>5. IsList(tail)
  <2>1. tail = [i \in 1..n |-> tail[i]]
    BY <1>4
  <2> HIDE DEF tail
  <2> QED
    BY <1>4, <2>1, FunctionIsList
<1>6. KeptRunes(d.runes \o tail) = Runes(s, d)
  BY <1>4 DEF KeptRunes, Runes, n
<1>7. Reads(f, KeptRunes(d.runes)) /\ f.emitted = w.emitted
  <2>1. f = WithLeftover(w, <<>>, TRUE)
    <3>1. IsShingler(w)
      BY <1>1 DEF Reads
    <3> QED
      BY <3>1 DEF WithLeftover, IsShingler, ShinglerFields
  <2> DEFINE r == KeptRunes(d.runes)
             g == WithLeftover(w, <<>>, TRUE)
  <2>2. Reads(w, r)
    BY <1>1
  <2> HIDE DEF r
  <2>3. Sets(w, g, <<>>, TRUE) /\ Reads(g, r)
    BY <2>2, LeftoverReads
  <2> HIDE DEF f, g
  <2>4. f = g
    BY <2>1 DEF g
  <2> QED
    BY <2>3, <2>4 DEF Sets, r
<1> HIDE DEF tail, f
<1>8. Reads(x, Runes(s, d)) /\ GoesOn(f, x)
  BY <1>3, <1>5, <1>6, <1>7, ConsumeAllReads
<1> HIDE DEF x
<1>9. IsShingler(v) /\ Ring(v, WordsOf(Runes(s, d))) /\ Grows(x.emitted, v.emitted)
  BY <1>8, FlushReads
<1>10. words = WordsOf(Runes(s, d))
  BY DEF Words, d
<1> HIDE DEF v, words
<1>11. /\ IsList(words) /\ v.total = Len(words) /\ v.emitted = LongRuns(words)
       /\ IsList(v.prefix) /\ Len(v.prefix) = (IF K <= Len(words) THEN K ELSE Len(words))
       /\ \A i \in 1..Len(v.prefix) : v.prefix[i] = words[i]
  BY <1>9, <1>10 DEF Ring, Remembers
<1>12. Grows(w.emitted, v.emitted)
  BY <1>7, <1>8, <1>9, GrowsOn DEF GoesOn
<1>13. Flush(w) = IF v.total > 0 /\ v.total < K THEN Emit(v, v.prefix) ELSE v
  BY <1>1 DEF Flush, v, x, f, tail
<1>14. Len(words) \in Nat /\ K \in Nat \ {0}
  BY <1>11, ListFacts, ShingleAssumption
<1>15. CASE Len(words) \in 1..K - 1
  <2>1. Flush(w) = Emit(v, v.prefix) /\ RunsOf(words) = <<words>>
    BY <1>11, <1>13, <1>14, <1>15 DEF RunsOf
  <2>2. v.prefix = words
    BY <1>11, <1>14, <1>15, ListsEqual
  <2>3. Emit(v, v.prefix).emitted = Append(v.emitted, v.prefix)
    BY <1>9, EmitFields
  <2>4. v.emitted = <<>>
    <3>1. IsList(v.emitted) /\ Len(v.emitted) = 0
      BY <1>11, <1>14, <1>15, LongRunsPoints
    <3> QED
      BY <3>1, EmptySeq DEF IsList
  <2>5. Grows(v.emitted, Append(v.emitted, v.prefix))
    BY <2>4, EmptyIsList, GrowsAppend
  <2>6. Append(<<>>, words) = <<words>>
    OBVIOUS
  <2> QED
    BY <1>12, <2>1, <2>2, <2>3, <2>4, <2>5, <2>6, GrowsOn DEF words
<1>16. CASE Len(words) \notin 1..K - 1
  <2>1. Flush(w) = v /\ RunsOf(words) = LongRuns(words)
    BY <1>11, <1>13, <1>14, <1>16 DEF RunsOf, LongRuns
  <2> QED
    BY <1>11, <1>12, <2>1 DEF words
<1> QED
  BY <1>15, <1>16

\* A shingler to which nothing has been written.
LEMMA NothingWritten ==
  ASSUME NEW w, IsShingler(w), w.leftover = <<>>, w.cur = NoWord, w.recent = [i \in 0..K - 1 |-> NoWord],
         w.pos = 0, w.total = 0, w.prefix = <<>>, w.emitted = <<>>, w.flushed = FALSE
  PROVE  Written(w, <<>>)
<1>1. Decode(<<>>) = DecodeStart
  <2> DEFINE s == <<>>
  <2>1. Len(s) = 0 /\ s \in Seq({})
    BY EmptySeq
  <2> HIDE DEF s
  <2>2. PICK u \in [0..Len(s) -> Decoded(s, {})] : Decoding(u, s, Len(s)) /\ Decode(s) = u[Len(s)]
    BY <2>1, DecodeRecurs
  <2>3. Decoding(u, s, 0)
    BY <2>1, <2>2
  <2>4. u[0] = DecodeStart
    BY <2>3, DecodingSteps
  <2> QED
    BY <2>1, <2>2, <2>4 DEF s
<1>2. DecodeStart.runes = <<>> /\ DecodeStart.rest = 1
  BY DEF DecodeStart
<1>3. IsList(<<>>) /\ Len(<<>>) = 0
  BY EmptyIsList, EmptySeq
<1>4. Rest(<<>>, 1) = <<>>
  <2>1. IsList(Rest(<<>>, 1)) /\ Len(Rest(<<>>, 1)) = 0
    BY <1>3, PieceList DEF Rest
  <2> QED
    BY <1>3, <2>1, ListsEqual
<1>5. Remembers(w, <<>>)
  <2>1. 0 % K = 0
    <3>1. K \in Nat \ {0} /\ 0 \in 0..K - 1 /\ 0 \in Nat
      BY ShingleAssumption
    <3>2. (K * 0 + 0) % K = 0
      BY <3>1, TurnRest
    <3>3. K * 0 + 0 = 0
      BY <3>1
    <3> QED
      BY <3>2, <3>3
  <2>2. \A i \in 1..0 : FALSE
    OBVIOUS
  <2>3. ~(K <= 0)
    BY ShingleAssumption
  <2>4. w.recent = [i \in 0..K - 1 |-> w.recent[i]]
    <3> DEFINE I == 0..K - 1
    <3> HIDE DEF I
    <3>1. w.recent = [i \in I |-> NoWord]
      BY DEF I
    <3>2. w.recent = [i \in I |-> w.recent[i]]
      BY <3>1
    <3> QED
      BY <3>2 DEF I
  <2> QED
    BY <1>3, <2>1, <2>2, <2>3, <2>4 DEF Remembers
<1>6. w.emitted = LongRuns(<<>>)
  <2>1. IsList(LongRuns(<<>>)) /\ Len(LongRuns(<<>>)) = 0
    <3>1. Len(LongRuns(<<>>)) = IF K <= 0 THEN 0 - K + 1 ELSE 0
      BY <1>3, LongRunsPoints
    <3>2. IsList(LongRuns(<<>>))
      BY <1>3, LongRunsPoints
    <3> QED
      BY <3>1, <3>2, ShingleAssumption
  <2>2. LongRuns(<<>>) = <<>>
    BY <1>3, <2>1, ListsEqual
  <2> QED
    BY <2>2
<1>7. ~InWord(<<>>, Len(<<>>))
  BY <1>3, ListFacts DEF InWord
<1>8. Reads(w, <<>>)
  BY <1>3, <1>5, <1>6, <1>7, WordsOfNone DEF Reads, Ring, NoWord
<1> QED
  BY <1>1, <1>2, <1>3, <1>4, <1>8, KeptNone DEF Written

-----------------------------------------------------------------------------
(* The hashers *)

LEMMA GrowsJoin ==
  ASSUME NEW e, NEW f, Grows(e, f)
  PROVE  IsList(SubSeq(f, Len(e) + 1, Len(f))) /\ f = e \o SubSeq(f, Len(e) + 1, Len(f))
<1> DEFINE m == Len(e)
           n == Len(f)
           t == SubSeq(f, m + 1, n)
           j == e \o t
<1>1. /\ IsList(e) /\ IsList(f) /\ m \in Nat /\ n \in Nat /\ m <= n
      /\ \A i \in 1..m : f[i] = e[i]
  BY ListFacts DEF Grows
<1>2. IsList(t) /\ Len(t) = n - m
  <2>1. m + 1 \in Int /\ n \in Int
    BY <1>1
  <2>2. IsList(t) /\ Len(t) = IF m + 1 <= n THEN n - (m + 1) + 1 ELSE 0
    BY <2>1, PieceList
  <2> QED
    BY <1>1, <2>2
<1>3. \A i \in 1..n - m : t[i] = f[m + i]
  <2>1. m + 1 \in Int /\ n \in Int
    BY <1>1
  <2>2. \A i \in 1..Len(t) : t[i] = f[(m + 1) + i - 1]
    BY <2>1, PiecePoints
  <2> HIDE DEF t
  <2> QED
    BY <1>1, <1>2, <2>2
<1> HIDE DEF t
<1>4. /\ IsList(j) /\ Len(j) = m + (n - m)
      /\ \A i \in 1..m : j[i] = e[i]
      /\ \A i \in 1..n - m : j[m + i] = t[i]
  <2>1. /\ IsList(j) /\ Len(j) = Len(e) + Len(t)
        /\ \A i \in 1..Len(e) : j[i] = e[i]
        /\ \A i \in 1..Len(t) : j[Len(e) + i] = t[i]
    BY <1>1, <1>2, JoinPoints
  <2> QED
    BY <1>2, <2>1
<1> HIDE DEF j, m, n
<1>5. ASSUME NEW i \in 1..n PROVE f[i] = j[i]
  <2>1. CASE i <= m
    BY <1>1, <1>4, <2>1
  <2>2. CASE i > m
    <3>1. i - m \in 1..n - m /\ m + (i - m) = i
      BY <1>1, <2>2
    <3> QED
      BY <1>3, <1>4, <3>1
  <2> QED
    BY <1>1, <2>1, <2>2
<1>6. Len(j) = Len(f) /\ Len(f) = n
  BY <1>1, <1>4 DEF n
<1>7. f = j
  BY <1>1, <1>4, <1>5, <1>6, ListsEqual
<1> QED
  BY <1>2, <1>7 DEF j, t, m, n

LEMMA VoteJoin ==
  ASSUME NEW b, NEW s, IsList(s), NEW t, IsList(t)
  PROVE  Votes(s \o t, b) = Votes(s, b) + Votes(t, b) /\ Votes(t, b) \in Int /\ Votes(s, b) \in Int
<1>1. ASSUME NEW r, IsList(r) PROVE Votes(r, b) \in Int
  <2> DEFINE A == ToSet(r)
             S == {p \in Seq(A) : Votes(p, b) \in Int}
  <2>1. <<>> \in S
    BY VoteNone, EmptySeq
  <2>2. \A p \in Seq(A), x \in A : p \in S => Append(p, x) \in S
    <3> SUFFICES ASSUME NEW p \in Seq(A), NEW x \in A, Votes(p, b) \in Int PROVE Append(p, x) \in S
      OBVIOUS
    <3>1. IsList(p)
      BY ListIsList
    <3>2. Votes(Append(p, x), b) = Vote(Votes(p, b), x, b)
      BY <3>1, VoteAppend
    <3>3. Votes(Append(p, x), b) \in Int
      BY <3>2 DEF Vote
    <3> QED
      BY <3>3, AppendProperties
  <2> HIDE DEF S
  <2>3. Seq(A) \subseteq S
    BY <2>1, <2>2, AllLists
  <2> QED
    BY <1>1, <2>3 DEF S, IsList
<1> DEFINE A == ToSet(s) \cup ToSet(t)
           S == {p \in Seq(A) : Votes(s \o p, b) = Votes(s, b) + Votes(p, b)}
<1>2. s \in Seq(A) /\ t \in Seq(A)
  BY SeqMonotonic DEF IsList
<1>0. Votes(s, b) \in Int /\ Votes(t, b) \in Int
  BY <1>1
<1> HIDE DEF A
<1>3. <<>> \in S
  <2>1. s \o <<>> = s /\ <<>> \in Seq(A)
    BY <1>2, ConcatEmptySeq, EmptySeq
  <2> QED
    BY <1>0, <2>1, VoteNone
<1>4. \A p \in Seq(A), x \in A : p \in S => Append(p, x) \in S
  <2> SUFFICES ASSUME NEW p \in Seq(A), NEW x \in A, p \in S PROVE Append(p, x) \in S
    OBVIOUS
  <2> DEFINE j == s \o p
  <2>1. IsList(p) /\ IsList(j) /\ Votes(j, b) = Votes(s, b) + Votes(p, b)
    BY ListIsList, JoinList
  <2>2. s \o Append(p, x) = Append(j, x) /\ Append(p, x) \in Seq(A)
    BY <1>2, JoinAppend, AppendProperties
  <2> HIDE DEF j
  <2>3. Votes(Append(j, x), b) = Vote(Votes(j, b), x, b) /\ Votes(Append(p, x), b) = Vote(Votes(p, b), x, b)
    BY <2>1, VoteAppend
  <2>4. Votes(p, b) \in Int
    BY <1>1, <2>1
  <2>5. Votes(Append(j, x), b) = Votes(s, b) + Votes(Append(p, x), b)
    BY <1>0, <2>1, <2>3, <2>4 DEF Vote
  <2> QED
    BY <2>2, <2>5
<1> HIDE DEF S
<1>5. Seq(A) \subseteq S
  BY <1>3, <1>4, AllLists
<1> QED
  BY <1>0, <1>2, <1>5 DEF S

\* A counter of the bit goes up with every hash that has it, and down with the
\* others.
Having(s, b) == {i \in DOMAIN s : BitSet(s[i], b)}

LEMMA VoteCount ==
  ASSUME NEW b, NEW s, IsList(s)
  PROVE  Votes(s, b) + Len(s) = 2 * Cardinality(Having(s, b))
<1> DEFINE A == ToSet(s)
           S == {p \in Seq(A) : IsFiniteSet(Having(p, b)) /\ Votes(p, b) + Len(p) = 2 * Cardinality(Having(p, b))}
<1>0. s \in Seq(A)
  BY DEF IsList
<1> HIDE DEF A
<1>1. <<>> \in S
  <2>1. Having(<<>>, b) = {}
    BY DEF Having
  <2>2. Len(<<>>) = 0 /\ <<>> \in Seq(A)
    BY EmptySeq
  <2>3. IsFiniteSet({}) /\ Cardinality({}) = 0
    BY FS_EmptySet
  <2>4. Votes(<<>>, b) = 0
    BY VoteNone
  <2>5. Votes(<<>>, b) + Len(<<>>) = 0
    BY <2>2, <2>4
  <2>6. 2 * Cardinality(Having(<<>>, b)) = 0
    <3> DEFINE c == Cardinality(Having(<<>>, b))
    <3>1. c = 0
      BY <2>1, <2>3, Zenon
    <3> HIDE DEF c
    <3>2. 2 * c = 0
      BY <3>1
    <3> QED
      BY <3>2 DEF c
  <2>7. IsFiniteSet(Having(<<>>, b))
    BY <2>1, <2>3
  <2> HIDE DEF A
  <2> QED
    BY <2>2, <2>5, <2>6, <2>7
<1>2. \A p \in Seq(A), x \in A : p \in S => Append(p, x) \in S
  <2> SUFFICES ASSUME NEW p \in Seq(A), NEW x \in A, p \in S PROVE Append(p, x) \in S
    OBVIOUS
  <2> DEFINE n == Len(p)
             t == Append(p, x)
             H == Having(p, b)
             I == Having(t, b)
  <2>1. IsList(p) /\ n \in Nat /\ IsFiniteSet(H) /\ Votes(p, b) + n = 2 * Cardinality(H) /\ DOMAIN p = 1..n
    BY ListIsList, ListFacts
  <2>2. t \in Seq(A) /\ IsList(t) /\ Len(t) = n + 1 /\ t[n + 1] = x /\ (\A i \in 1..n : t[i] = p[i])
    BY <2>1, AppendPoints, AppendProperties
  <2>3. DOMAIN t = 1..n + 1
    BY <2>2, ListFacts
  <2>4. Votes(t, b) = Vote(Votes(p, b), x, b) /\ Votes(p, b) \in Int
    BY <2>1, VoteAppend, VoteJoin
  <2> HIDE DEF t, n
  <2>5. Cardinality(H) \in Nat
    BY <2>1, FS_CardinalityType
  <2>6. I = IF BitSet(x, b) THEN H \cup {n + 1} ELSE H
    <3>1. \A i : i \in I <=> i \in 1..n + 1 /\ BitSet(t[i], b)
      BY <2>3 DEF Having
    <3>2. \A i : i \in H <=> i \in 1..n /\ BitSet(p[i], b)
      BY <2>1 DEF Having
    <3> HIDE DEF I, H
    <3>3. \A i : i \in 1..n + 1 <=> i \in 1..n \/ i = n + 1
      BY <2>1
    <3>4. \A i : i \in I <=> i \in H \/ (i = n + 1 /\ BitSet(x, b))
      BY <2>2, <3>1, <3>2, <3>3
    <3> QED
      BY <3>4
  <2>7. n + 1 \notin H
    BY <2>1 DEF Having
  <2> HIDE DEF H, I
  <2>8. IsFiniteSet(I) /\ Cardinality(I) = IF BitSet(x, b) THEN Cardinality(H) + 1 ELSE Cardinality(H)
    <3>1. IsFiniteSet(H \cup {n + 1}) /\ Cardinality(H \cup {n + 1}) = Cardinality(H) + 1
      BY <2>1, <2>7, FS_AddElement
    <3> QED
      BY <2>1, <2>6, <3>1
  <2>9. Votes(t, b) + (n + 1) = 2 * Cardinality(I)
    BY <2>1, <2>4, <2>5, <2>8 DEF Vote
  <2> QED
    BY <2>2, <2>8, <2>9 DEF t, I
<1> HIDE DEF S
<1>3. Seq(A) \subseteq S
  BY <1>1, <1>2, AllLists
<1> QED
  BY <1>0, <1>3 DEF S

\* A signature under one seed.
HashesOf(s, seed) == {Hash(x, seed) : x \in ToSet(s)}

\* A hash of any text is a uint64, hence a number (onShingle and fnv64 in
\* minhash.go).
HashIsNumber == \A seed \in Seeds : \A x : Hash(x, seed) \in Nat
LeastOf(T) == IF T = {} THEN {} ELSE {Min(T)}

LEMMA LeastJoin ==
  ASSUME NEW S \in SUBSET Nat, NEW T \in SUBSET Nat
  PROVE  LeastOf(LeastOf(S) \cup T) = LeastOf(S \cup T)
<1>1. CASE S = {}
  <2>1. LeastOf(S) = {}
    BY <1>1 DEF LeastOf
  <2> QED
    BY <1>1, <2>1
<1>2. CASE S # {}
  <2> DEFINE m == Min(S)
             V == {m} \cup T
             W == S \cup T
  <2>1. LeastOf(S) = {m}
    BY <1>2 DEF LeastOf
  <2>2. m \in S /\ \A y \in S : m <= y
    BY <1>2, MinFacts
  <2> HIDE DEF m
  <2>3. V \in SUBSET Nat /\ V # {} /\ W \in SUBSET Nat /\ W # {}
    BY <1>2, <2>2
  <2>4. Min(V) \in V /\ (\A y \in V : Min(V) <= y)
    BY <2>3, MinFacts
  <2>5. Min(W) \in W /\ (\A y \in W : Min(W) <= y)
    BY <2>3, MinFacts
  <2>6. Min(V) = Min(W)
    <3> DEFINE a == Min(V)
               c == Min(W)
    <3> HIDE DEF a, c
    <3>1. a \in V /\ (\A y \in V : a <= y) /\ c \in W /\ (\A y \in W : c <= y)
      BY <2>4, <2>5 DEF a, c
    <3>2. a \in Nat /\ c \in Nat /\ a \in W /\ m \in V /\ m \in Nat
      BY <2>2, <2>3, <3>1
    <3>3. c <= a
      BY <3>1, <3>2
    <3>4. a <= c
      <4>1. CASE c \in S
        BY <2>2, <3>1, <3>2, <4>1
      <4>2. CASE c \in T
        BY <3>1, <4>2
      <4> QED
        BY <3>1, <4>1, <4>2
    <3>5. a = c
      BY <3>2, <3>3, <3>4
    <3> QED
      BY <3>5 DEF a, c
  <2>7. LeastOf(V) = {Min(V)} /\ LeastOf(W) = {Min(W)}
    BY <2>3 DEF LeastOf
  <2> QED
    BY <2>1, <2>6, <2>7
<1> QED
  BY <1>1, <1>2

\* The hashers have seen the shingles e.
Hashed(e, mins, sums) ==
  /\ \A seed \in Seeds : mins[seed] = LeastOf(HashesOf(e, seed))
  /\ \A b \in HashBits : sums[b] = Votes(e, b)

NextMins(mins, n) ==
  [s \in Seeds |-> LET all == mins[s] \cup {Hash(x, s) : x \in ToSet(n)} IN IF all = {} THEN {} ELSE {Min(all)}]
NextSums(sums, n) == [b \in HashBits |-> sums[b] + Votes(n, b)]

LEMMA HashesNext ==
  ASSUME HashIsNumber, NEW e, NEW f, Grows(e, f), NEW mins, NEW sums, Hashed(e, mins, sums)
  PROVE  Hashed(f, NextMins(mins, SubSeq(f, Len(e) + 1, Len(f))), NextSums(sums, SubSeq(f, Len(e) + 1, Len(f))))
<1> DEFINE n == SubSeq(f, Len(e) + 1, Len(f))
           m1 == NextMins(mins, n)
           s1 == NextSums(sums, n)
<1>1. IsList(n) /\ f = e \o n /\ IsList(e)
  BY GrowsJoin DEF Grows
<1> HIDE DEF n
<1>2. ToSet(f) = ToSet(e) \cup ToSet(n)
  <2> DEFINE A == ToSet(e) \cup ToSet(n)
  <2>1. e \in Seq(A) /\ n \in Seq(A)
    BY <1>1, SeqMonotonic DEF IsList
  <2>2. e \o n \in Seq(A) /\ Of(e \o n) = Of(e) \cup Of(n)
    BY <2>1, ConcatList
  <2>3. ToSet(e \o n) = Of(e \o n) /\ ToSet(e) = Of(e) /\ ToSet(n) = Of(n)
    BY <2>1, <2>2, OfIsToSet
  <2> QED
    BY <1>1, <2>2, <2>3
<1>3. ASSUME NEW seed \in Seeds PROVE m1[seed] = LeastOf(HashesOf(f, seed))
  <2> DEFINE S == HashesOf(e, seed)
             T == HashesOf(n, seed)
  <2>1. mins[seed] = LeastOf(S)
    BY DEF Hashed
  <2>2. m1[seed] = LeastOf(mins[seed] \cup T)
    BY DEF NextMins, LeastOf, HashesOf
  <2>3. HashesOf(f, seed) = S \cup T
    BY <1>2 DEF HashesOf
  <2>4. S \in SUBSET Nat /\ T \in SUBSET Nat
    BY DEF HashesOf, HashIsNumber
  <2> HIDE DEF S, T
  <2> QED
    BY <2>1, <2>2, <2>3, <2>4, LeastJoin
<1>4. ASSUME NEW b \in HashBits PROVE s1[b] = Votes(f, b)
  <2>1. Votes(f, b) = Votes(e, b) + Votes(n, b)
    BY <1>1, VoteJoin
  <2> QED
    BY <2>1 DEF NextSums, Hashed
<1> QED
  BY <1>3, <1>4 DEF Hashed, n

\* Before the first shingle.
LEMMA HashesNone ==
  Hashed(<<>>, [s \in Seeds |-> {}], [b \in HashBits |-> 0])
<1>1. ToSet(<<>>) = {}
  BY EmptyList, EmptySeq, OfIsToSet
<1>2. \A seed \in Seeds : LeastOf(HashesOf(<<>>, seed)) = {}
  BY <1>1 DEF HashesOf, LeastOf
<1>3. \A b : Votes(<<>>, b) = 0
  BY VoteNone
<1> QED
  BY <1>2, <1>3 DEF Hashed

-----------------------------------------------------------------------------
(* The types of the readers *)

ReaderFields == {"pos", "out", "cur", "breaks", "emitted", "lineStart", "depth", "skipTag", "held", "done"}

\* What is ready and the line under way are lists, the position is one, and
\* newlines and held bytes are counted.
IsReader(f) ==
  /\ f = [field \in ReaderFields |-> f[field]]
  /\ f.pos \in Nat \ {0} /\ f.breaks \in Nat /\ f.held \in Nat
  /\ IsList(f.out) /\ IsList(f.cur)

LEMMA NewlinesList == ASSUME NEW n \in Nat PROVE IsList(Newlines(n))
<1> DEFINE u == Newlines(n)
<1>1. u = [i \in 1..n |-> u[i]]
  BY DEF Newlines
<1> HIDE DEF u
<1>2. IsList(u)
  BY <1>1, FunctionIsList
<1> QED
  BY <1>2 DEF u

LEMMA PairIsList == ASSUME NEW x, NEW y PROVE IsList(<<x, y>>)
<1>1. <<x, y>> \in Seq({x, y})
  OBVIOUS
<1> QED
  BY <1>1, ListIsList

LEMMA TrimLeftList == ASSUME NEW s, IsList(s) PROVE IsList(TrimLeft(s))
<1> DEFINE full == {i \in DOMAIN s : s[i] \notin Blank}
<1>1. Len(s) \in Nat /\ DOMAIN s = 1..Len(s)
  BY ListFacts
<1>2. full \in SUBSET Nat
  BY <1>1
<1>3. CASE full = {}
  BY <1>3, EmptyIsList DEF TrimLeft
<1>4. CASE full # {}
  <2>1. Min(full) \in Int /\ Len(s) \in Int
    BY <1>1, <1>2, <1>4, MinFacts, SMTT(30)
  <2>2. TrimLeft(s) = SubSeq(s, Min(full), Len(s))
    BY <1>4 DEF TrimLeft
  <2> HIDE DEF full
  <2> QED
    BY <2>1, <2>2, PieceList
<1> QED
  BY <1>3, <1>4

-----------------------------------------------------------------------------
(* Places in the source *)

LEMMA SourceEnds == ASSUME IsList(src) PROVE Len(src) \in Nat /\ EndOfSource \in Nat \ {0} /\ EndOfSource = Len(src) + 1
BY ListFacts DEF EndOfSource

LEMMA IndexFromIs ==
  ASSUME IsList(src), NEW i \in Nat, NEW S
  PROVE  /\ IndexFrom(i, S) \in Nat /\ IndexFrom(i, S) <= EndOfSource
         /\ IndexFrom(i, S) >= i \/ IndexFrom(i, S) = EndOfSource
         /\ i # 0 => IndexFrom(i, S) # 0
<1> DEFINE T == {j \in i..Len(src) : src[j] \in S} \cup {EndOfSource}
<1>1. Len(src) \in Nat /\ EndOfSource = Len(src) + 1
  BY SourceEnds
<1>2. T \in SUBSET Nat /\ T # {}
  BY <1>1
<1>3. IndexFrom(i, S) = Min(T)
  BY DEF IndexFrom
<1>4. \A j \in T : (j >= i \/ j = EndOfSource) /\ j <= EndOfSource
  BY <1>1
<1> HIDE DEF T
<1>5. Min(T) \in T
  BY <1>2, MinFacts
<1> DEFINE m == IndexFrom(i, S)
<1>6. m \in Nat /\ (m >= i \/ m = EndOfSource) /\ m <= EndOfSource
  BY <1>2, <1>3, <1>4, <1>5
<1> HIDE DEF m
<1>7. i # 0 => m # 0
  BY <1>1, <1>6
<1> QED
  BY <1>6, <1>7 DEF m

LEMMA MarkerFromIs ==
  ASSUME IsList(src), NEW i \in Nat \ {0}, NEW marker, Len(marker) \in Nat
  PROVE  MarkerFrom(i, marker) \in Nat
<1> DEFINE T == {j \in i + Len(marker) - 1..Len(src) : SubSeq(src, j - Len(marker) + 1, j) = marker} \cup {EndOfSource}
<1>1. Len(src) \in Nat /\ EndOfSource = Len(src) + 1
  BY SourceEnds
<1>2. T \in SUBSET Nat /\ T # {}
  BY <1>1
<1>3. MarkerFrom(i, marker) = Min(T)
  BY DEF MarkerFrom
<1> HIDE DEF T
<1>5. Min(T) \in T
  BY <1>2, MinFacts
<1> QED
  BY <1>2, <1>3, <1>5

\* skipToTagEnd looks at one '>' or quoted text after the other.
TagStop(i) == IndexFrom(i, {">"} \cup Quotes)
Quoted(i) == Sym(TagStop(i)) \in Quotes
AfterQuote(i) == IndexFrom(TagStop(i) + 1, {src[TagStop(i)]}) + 1
TagEnds(g) == g = [i \in Nat |-> IF Quoted(i) THEN g[AfterQuote(i)] ELSE TagStop(i)]

LEMMA TagStops ==
  ASSUME IsList(src), NEW i \in Nat
  PROVE  /\ TagStop(i) \in Nat
         /\ Quoted(i) => i <= Len(src) /\ AfterQuote(i) \in Nat /\ AfterQuote(i) > i
<1> DEFINE j == TagStop(i)
<1>1. Len(src) \in Nat /\ EndOfSource = Len(src) + 1
  BY SourceEnds
<1>2. j \in Nat /\ (j >= i \/ j = EndOfSource) /\ j <= EndOfSource
  BY IndexFromIs DEF TagStop
<1> HIDE DEF j
<1>3. ASSUME Quoted(i) PROVE i <= Len(src) /\ AfterQuote(i) \in Nat /\ AfterQuote(i) > i
  <2>1. j <= Len(src)
    <3>1. Sym(j) \in Quotes
      BY <1>3 DEF Quoted, j
    <3>2. CASE ~(j <= Len(src))
      BY <3>1, <3>2 DEF Sym, Quotes
    <3> QED
      BY <3>2
  <2> DEFINE S == {src[j]}
             k == IndexFrom(j + 1, S)
  <2>2. j + 1 \in Nat
    BY <1>2
  <2> HIDE DEF S
  <2>3. k \in Nat /\ (k >= j + 1 \/ k = EndOfSource)
    BY <2>2, IndexFromIs
  <2>4. AfterQuote(i) = k + 1
    BY DEF AfterQuote, j, S
  <2> HIDE DEF k
  <2> QED
    BY <1>1, <1>2, <2>1, <2>3, <2>4
<1> QED
  BY <1>2, <1>3 DEF j

\* g is right from the last n symbols on.
EndsBehind(g, n) == \A i \in Nat : i > Len(src) - n => g[i] = IF Quoted(i) THEN g[AfterQuote(i)] ELSE TagStop(i)

LEMMA TagEndsExist ==
  ASSUME IsList(src)
  PROVE  \E g : TagEnds(g)
<1> DEFINE N == {n \in Nat : \E g \in [Nat -> Nat] : EndsBehind(g, n)}
<1>1. Len(src) \in Nat
  BY SourceEnds
<1>2. 0 \in N
  <2> DEFINE g == [i \in Nat |-> TagStop(i)]
  <2>1. g \in [Nat -> Nat]
    BY TagStops
  <2>2. EndsBehind(g, 0)
    BY <1>1, TagStops DEF EndsBehind
  <2> QED
    BY <2>1, <2>2
<1>3. \A n \in Nat : n \in N => n + 1 \in N
  <2> SUFFICES ASSUME NEW n \in Nat, NEW g \in [Nat -> Nat], EndsBehind(g, n) PROVE n + 1 \in N
    OBVIOUS
  <2> DEFINE h == [i \in Nat |-> IF Quoted(i) THEN g[AfterQuote(i)] ELSE TagStop(i)]
  <2>1. h \in [Nat -> Nat]
    <3>1. \A i \in Nat : (IF Quoted(i) THEN g[AfterQuote(i)] ELSE TagStop(i)) \in Nat
      BY TagStops
    <3> QED
      BY <3>1
  <2>2. \A i \in Nat : i > Len(src) - n => h[i] = g[i]
    BY DEF EndsBehind
  <2>3. \A i \in Nat : h[i] = IF Quoted(i) THEN g[AfterQuote(i)] ELSE TagStop(i)
    OBVIOUS
  <2> HIDE DEF h
  <2>4. EndsBehind(h, n + 1)
    <3> SUFFICES ASSUME NEW i \in Nat, i > Len(src) - (n + 1)
                 PROVE  h[i] = IF Quoted(i) THEN h[AfterQuote(i)] ELSE TagStop(i)
      BY DEF EndsBehind
    <3>1. CASE Quoted(i)
      <4>1. AfterQuote(i) \in Nat /\ AfterQuote(i) > i
        BY <3>1, TagStops
      <4>2. AfterQuote(i) > Len(src) - n
        BY <1>1, <4>1
      <4> QED
        BY <2>2, <2>3, <3>1, <4>1, <4>2
    <3>2. CASE ~Quoted(i)
      BY <2>3, <3>2
    <3> QED
      BY <3>1, <3>2
  <2> QED
    BY <2>1, <2>4
<1> HIDE DEF N
<1>4. Len(src) + 1 \in N
  BY <1>1, <1>2, <1>3, AllNaturals
<1>5. PICK g \in [Nat -> Nat] : EndsBehind(g, Len(src) + 1)
  BY <1>4 DEF N
<1>6. \A i \in Nat : g[i] = IF Quoted(i) THEN g[AfterQuote(i)] ELSE TagStop(i)
  <2> TAKE i \in Nat
  <2>1. i > Len(src) - (Len(src) + 1)
    BY <1>1
  <2> QED
    BY <1>5, <2>1 DEF EndsBehind
<1> QED
  BY <1>6 DEF TagEnds

LEMMA TagEndIs ==
  ASSUME IsList(src), NEW i \in Nat
  PROVE  TagEnd[i] \in Nat
<1>1. TagEnds(TagEnd)
  <2>1. TagEnd = CHOOSE g : TagEnds(g)
    BY DEF TagEnd, TagEnds, Quoted, TagStop, AfterQuote
  <2> QED
    BY <2>1, TagEndsExist
<1> DEFINE g == TagEnd
           N == {n \in Nat : \A k \in Nat : k > Len(src) - n => g[k] \in Nat}
<1>2. \A k \in Nat : g[k] = IF Quoted(k) THEN g[AfterQuote(k)] ELSE TagStop(k)
  BY <1>1 DEF TagEnds
<1> HIDE DEF g
<1>3. Len(src) \in Nat
  BY SourceEnds
<1>4. 0 \in N
  BY <1>2, <1>3, TagStops, SMTT(30)
<1>5. \A n \in Nat : n \in N => n + 1 \in N
  <2> SUFFICES ASSUME NEW n \in Nat, \A k \in Nat : k > Len(src) - n => g[k] \in Nat,
                      NEW k \in Nat, k > Len(src) - (n + 1)
               PROVE  g[k] \in Nat
    OBVIOUS
  <2>1. CASE Quoted(k)
    <3>1. AfterQuote(k) \in Nat /\ AfterQuote(k) > k
      BY <2>1, TagStops
    <3>2. AfterQuote(k) > Len(src) - n
      BY <1>3, <3>1
    <3> QED
      BY <1>2, <2>1, <3>1, <3>2
  <2>2. CASE ~Quoted(k)
    BY <1>2, <2>2, TagStops
  <2> QED
    BY <2>1, <2>2
<1> HIDE DEF N
<1>6. Len(src) + 1 \in N
  BY <1>3, <1>4, <1>5, AllNaturals
<1>7. i > Len(src) - (Len(src) + 1)
  BY <1>3
<1> QED
  BY <1>6, <1>7 DEF N, g

LEMMA SpecialEndIs ==
  ASSUME IsList(src), NEW i \in Nat \ {0}
  PROVE  SpecialEnd(i) \in Nat
<1>1. /\ Len(<<"?", ">">>) \in Nat /\ Len(<<"]", "]", ">">>) \in Nat /\ Len(<<"-", "-", ">">>) \in Nat
  OBVIOUS
<1>2. i + 1 \in Nat \ {0} /\ i + 2 \in Nat /\ i + 3 \in Nat \ {0}
  OBVIOUS
<1>3. /\ MarkerFrom(i + 1, <<"?", ">">>) \in Nat /\ MarkerFrom(i + 1, <<"]", "]", ">">>) \in Nat
      /\ MarkerFrom(i + 3, <<"-", "-", ">">>) \in Nat
  BY <1>1, <1>2, MarkerFromIs
<1>4. TagEnd[i + 2] \in Nat /\ TagEnd[i + 3] \in Nat
  BY <1>2, TagEndIs
<1> QED
  BY <1>3, <1>4 DEF SpecialEnd

-----------------------------------------------------------------------------
(* What a scan makes of a reader *)

LEMMA AtReader ==
  ASSUME NEW f, IsReader(f), NEW i \in Nat \ {0}
  PROVE  IsReader(At(f, i)) /\ IsReader(Move(f, i)) /\ At(f, i).pos = i /\ Move(f, i).pos = i
BY DEF At, Move, IsReader, ReaderFields

LEMMA AppendTextReader ==
  ASSUME NEW f, IsReader(f), NEW s, IsList(s)
  PROVE  IsReader(AppendText(f, s)) /\ AppendText(f, s).pos = f.pos
<1> DEFINE text == IF f.lineStart THEN TrimLeft(s) ELSE s
           line == f.cur \o text
           long == Len(line) > MaxLine
           before == IF f.emitted THEN Newlines(f.breaks) ELSE <<>>
           ready == IF long THEN line ELSE <<>>
           out == f.out \o before \o ready
           g == [f EXCEPT !.out = out, !.cur = IF long THEN <<>> ELSE line,
                          !.emitted = @ \/ long, !.breaks = 0, !.lineStart = FALSE]
<1>1. IsList(text)
  BY TrimLeftList
<1> HIDE DEF text
<1>2. IsList(line)
  BY <1>1, JoinList DEF IsReader
<1>3. IsList(before) /\ IsList(ready)
  BY <1>2, NewlinesList, EmptyIsList DEF IsReader
<1>4. AppendText(f, s) = IF text = <<>> THEN f ELSE g
  BY DEF AppendText, text
<1> HIDE DEF line, long, before, ready
<1>5. IsList(out)
  <2>1. IsList(f.out \o before)
    BY <1>3, JoinList DEF IsReader
  <2> QED
    BY <1>3, <2>1, JoinList
<1> HIDE DEF out
<1>6. IsReader(g) /\ g.pos = f.pos
  BY <1>2, <1>5, EmptyIsList DEF IsReader, ReaderFields
<1> QED
  BY <1>4, <1>6

LEMMA BreakLineReader ==
  ASSUME NEW f, IsReader(f)
  PROVE  IsReader(BreakLine(f)) /\ IsReader(Finish(f))
<1> DEFINE out == f.out \o f.cur
           emitted == f.emitted \/ f.cur # <<>>
           n == f.breaks + 1
           g == [f EXCEPT !.out = out, !.emitted = emitted, !.cur = <<>>,
                          !.breaks = n, !.lineStart = TRUE]
           h == [f EXCEPT !.out = out, !.cur = <<>>, !.done = TRUE]
<1>1. IsList(out)
  BY JoinList DEF IsReader
<1>2. BreakLine(f) = g /\ Finish(f) = h
  BY DEF BreakLine, Finish
<1>3. n \in Nat
  BY DEF IsReader
<1> HIDE DEF out, emitted, n
<1>4. IsReader(g)
  BY <1>1, <1>3, EmptyIsList DEF IsReader, ReaderFields
<1>5. IsReader(h)
  BY <1>1, EmptyIsList DEF IsReader, ReaderFields
<1> QED
  BY <1>2, <1>4, <1>5

\* Fields without a type of their own.
LEMMA PlainFieldsReader ==
  ASSUME NEW f, IsReader(f), NEW x
  PROVE  /\ IsReader([f EXCEPT !.depth = x]) /\ IsReader([f EXCEPT !.skipTag = x])
         /\ IsReader([f EXCEPT !.done = x])
         /\ x \in Nat => IsReader([f EXCEPT !.breaks = x]) /\ IsReader([f EXCEPT !.held = x])
         /\ IsList(x) => IsReader([f EXCEPT !.out = x])
BY DEF IsReader, ReaderFields

LEMMA PieceOfSource ==
  ASSUME IsList(src), NEW m \in Nat, NEW n \in Int
  PROVE  IsList(SubSeq(src, m, n)) /\ IsList(SubSeq(src, m, Len(src)))
<1>1. Len(src) \in Int /\ m \in Int
  BY SourceEnds
<1> QED
  BY <1>1, PieceList

LEMMA SkipSpecialReader ==
  ASSUME IsList(src), NEW f, IsReader(f), NEW i \in Nat \ {0}
  PROVE  IsReader(SkipSpecial(f, i))
<1> DEFINE end == SpecialEnd(i)
           s == SubSeq(src, i + 1, Len(src))
           t == SubSeq(src, i + 1, end - 3)
<1>1. end \in Nat
  BY SpecialEndIs
<1>2. i + 1 \in Nat /\ end - 3 \in Int /\ end + 1 \in Nat \ {0}
  BY <1>1
<1> HIDE DEF end
<1>3. IsList(s) /\ IsList(t)
  BY <1>2, PieceOfSource
<1>4. CopyCdata(f, i) = IF end = EndOfSource THEN Finish(AppendText(f, s)) ELSE AppendText(f, t)
  BY DEF CopyCdata, end
<1> HIDE DEF s, t
<1>5. IsReader(AppendText(f, s)) /\ IsReader(AppendText(f, t))
  BY <1>3, AppendTextReader
<1>6. IsReader(CopyCdata(f, i))
  BY <1>4, <1>5, BreakLineReader
<1> DEFINE g == IF Sym(i) = "![CDATA[" /\ f.depth = 0 THEN CopyCdata(f, i) ELSE f
<1>7. IsReader(g)
  BY <1>6
<1>8. SkipSpecial(f, i) = At(g, end + 1)
  BY DEF SkipSpecial, end
<1> HIDE DEF g
<1> QED
  BY <1>2, <1>7, <1>8, AtReader

LEMMA ParseEntityReader ==
  ASSUME IsList(src), NEW f, IsReader(f), NEW i \in Nat \ {0}
  PROVE  IsReader(ParseEntity(f, i))
<1> DEFINE end == IndexFrom(i, {";"})
           last == i + EntityMax - 1
           s == SubSeq(src, i, end - 1)
           a == Unescape(s)
           b == <<"&">> \o SubSeq(src, i, last)
           c == <<"&">> \o SubSeq(src, i, Len(src))
<1>1. end \in Nat /\ last \in Nat
  <2>1. i \in Nat
    OBVIOUS
  <2>2. end \in Nat
    BY <2>1, IndexFromIs
  <2>3. last \in Nat
    BY EntityAssumption
  <2> QED
    BY <2>2, <2>3
<1>2. ParseEntity(f, i) =
        IF end <= last /\ end # EndOfSource THEN At(AppendText(f, a), end + 1)
        ELSE IF last <= Len(src) THEN At(AppendText(f, b), last + 1)
        ELSE At(Finish(AppendText(f, c)), EndOfSource)
  BY DEF ParseEntity
<1> HIDE DEF end, last
<1>3. IsList(s) /\ IsList(SubSeq(src, i, last)) /\ IsList(SubSeq(src, i, Len(src)))
  <2>1. i \in Nat /\ end - 1 \in Int /\ last \in Int
    BY <1>1
  <2> QED
    BY <2>1, PieceOfSource
<1>4. IsList(b) /\ IsList(c)
  BY <1>3, SingleIsList, JoinList
<1> HIDE DEF s
<1>5. IsList(a)
  <2> DEFINE n == Len(s)
             u == <<"&">> \o s
             v == SubSeq(u, 1, n - 1)
             k == <<Known[s[n]]>>
             z == <<";">>
  <2>1. IsList(u) /\ n - 1 \in Int /\ 1 \in Int
    BY <1>3, SingleIsList, JoinList, ListFacts
  <2>2. a = IF n > 0 /\ s[n] \in DOMAIN Known /\ (n = 1 \/ s[n - 1] = "&") THEN v \o k ELSE u \o z
    BY DEF Unescape
  <2>3. IsList(k) /\ IsList(z)
    BY SingleIsList
  <2> HIDE DEF u, k, z, n
  <2>4. IsList(v)
    BY <2>1, PieceList
  <2> HIDE DEF v
  <2>5. IsList(v \o k) /\ IsList(u \o z)
    BY <2>1, <2>3, <2>4, JoinList
  <2> HIDE DEF a
  <2> QED
    BY <2>2, <2>5
<1> HIDE DEF a, b, c
<1>6. IsReader(AppendText(f, a)) /\ IsReader(AppendText(f, b)) /\ IsReader(AppendText(f, c))
  BY <1>4, <1>5, AppendTextReader
<1>7. IsReader(Finish(AppendText(f, c)))
  BY <1>6, BreakLineReader
<1>8. end + 1 \in Nat \ {0} /\ last + 1 \in Nat \ {0} /\ EndOfSource \in Nat \ {0}
  BY <1>1, SourceEnds
<1>9. /\ IsReader(At(AppendText(f, a), end + 1)) /\ IsReader(At(AppendText(f, b), last + 1))
      /\ IsReader(At(Finish(AppendText(f, c)), EndOfSource))
  BY <1>6, <1>7, <1>8, AtReader
<1> QED
  BY <1>2, <1>9

LEMMA TagReader ==
  ASSUME NEW f, IsReader(f), NEW name, NEW closed
  PROVE  IsReader(StartTag(f, name, closed)) /\ IsReader(EndTag(f, name))
<1> DEFINE g == BreakLine(f)
           h == [g EXCEPT !.breaks = IF @ < 2 THEN 2 ELSE @]
           d == [f EXCEPT !.depth = 1]
<1>1. IsReader(g)
  BY BreakLineReader
<1>2. IsReader(d)
  BY PlainFieldsReader
<1>3. StartTag(f, name, closed) \in {g, h, d, f}
  BY DEF StartTag
<1>4. EndTag(f, name) \in {g, f}
  BY DEF EndTag
<1> HIDE DEF g, d
<1>5. IsReader(h)
  BY <1>1 DEF IsReader, ReaderFields
<1> HIDE DEF h
<1> QED
  BY <1>1, <1>2, <1>3, <1>4, <1>5

LEMMA ParseTagReader ==
  ASSUME IsList(src), NEW f, IsReader(f), NEW i \in Nat \ {0}
  PROVE  IsReader(ParseTag(f, i))
<1> DEFINE u == AppendText(f, <<"<">>)
           a == At(Finish(u), i)
           b == At(EndTag(f, TagName(i + 1)), TagEnd[i + 1] + 1)
           c == SkipSpecial(f, i)
           d == At(StartTag(f, TagName(i), SelfClosing(i)), TagEnd[i] + 1)
           e == At(u, i)
<1>1. i + 1 \in Nat /\ i \in Nat
  OBVIOUS
<1>2. TagEnd[i] + 1 \in Nat \ {0} /\ TagEnd[i + 1] + 1 \in Nat \ {0}
  <2>1. TagEnd[i] \in Nat /\ TagEnd[i + 1] \in Nat
    BY <1>1, TagEndIs
  <2> QED
    BY <2>1
<1>3. IsReader(u) /\ IsReader(Finish(u))
  <2>1. IsReader(u)
    BY SingleIsList, AppendTextReader
  <2> QED
    BY <2>1, BreakLineReader
<1> HIDE DEF u
<1>4. IsReader(a) /\ IsReader(e)
  BY <1>3, AtReader
<1>5. IsReader(b)
  BY <1>2, TagReader, AtReader
<1>6. IsReader(d)
  BY <1>2, TagReader, AtReader
<1>7. IsReader(c)
  BY SkipSpecialReader
<1>8. ParseTag(f, i) \in {a, b, c, d, e}
  BY DEF ParseTag, u
<1> HIDE DEF a, b, c, d, e
<1> QED
  BY <1>4, <1>5, <1>6, <1>7, <1>8

LEMMA ScanSkippedReader ==
  ASSUME IsList(src), NEW f, IsReader(f)
  PROVE  IsReader(ScanSkipped(f))
<1> DEFINE i == IndexFrom(f.pos, {"<"}) + 1
           a == At(Finish(f), i)
           b == At([f EXCEPT !.depth = @ - 1], TagEnd[i + 1] + 1)
           c == SkipSpecial(f, i)
           d == At([f EXCEPT !.depth = IF SelfClosing(i) THEN @ ELSE @ + 1], TagEnd[i] + 1)
           e == At(f, i + 1)
<1>1. i \in Nat \ {0}
  <2>1. f.pos \in Nat
    BY DEF IsReader
  <2>2. IndexFrom(f.pos, {"<"}) \in Nat
    BY <2>1, IndexFromIs
  <2> QED
    BY <2>2
<1>2. ScanSkipped(f) \in {a, b, c, d, e}
  BY DEF ScanSkipped
<1> HIDE DEF i
<1>3. TagEnd[i] + 1 \in Nat \ {0} /\ TagEnd[i + 1] + 1 \in Nat \ {0} /\ i + 1 \in Nat \ {0}
  <2>1. i \in Nat /\ i + 1 \in Nat
    BY <1>1
  <2>2. TagEnd[i] \in Nat /\ TagEnd[i + 1] \in Nat
    BY <2>1, TagEndIs
  <2> QED
    BY <1>1, <2>2
<1>4. IsReader(a) /\ IsReader(e)
  BY <1>1, <1>3, BreakLineReader, AtReader
<1>5. IsReader(c)
  BY <1>1, SkipSpecialReader
<1>6. IsReader(b)
  <2> DEFINE g == [f EXCEPT !.depth = @ - 1]
  <2>1. IsReader(g)
    BY PlainFieldsReader
  <2> HIDE DEF g
  <2>2. IsReader(At(g, TagEnd[i + 1] + 1))
    BY <1>3, <2>1, AtReader
  <2> QED
    BY <2>2 DEF g
<1>7. IsReader(d)
  <2> DEFINE g == [f EXCEPT !.depth = IF SelfClosing(i) THEN @ ELSE @ + 1]
  <2>1. IsReader(g)
    BY PlainFieldsReader
  <2> HIDE DEF g
  <2>2. IsReader(At(g, TagEnd[i] + 1))
    BY <1>3, <2>1, AtReader
  <2> QED
    BY <2>2 DEF g
<1> HIDE DEF a, b, c, d, e
<1> QED
  BY <1>2, <1>4, <1>5, <1>6, <1>7

LEMMA ScanMarkupReader ==
  ASSUME IsList(src), NEW f, IsReader(f)
  PROVE  IsReader(ScanMarkup(f))
<1> DEFINE i == IndexFrom(f.pos, {"<", "&"})
           s == SubSeq(src, f.pos, i - 1)
           g == AppendText(f, s)
           a == ParseTag(g, i + 1)
           b == ParseEntity(g, i + 1)
           c == At(Finish(g), i)
<1>1. f.pos \in Nat /\ f.pos # 0
  BY DEF IsReader
<1>2. i \in Nat /\ i # 0
  BY <1>1, IndexFromIs
<1>3. ScanMarkup(f) \in {a, b, c}
  BY DEF ScanMarkup
<1> HIDE DEF i
<1>4. IsList(s)
  <2>1. i - 1 \in Int
    BY <1>2
  <2> QED
    BY <1>1, <2>1, PieceOfSource
<1> HIDE DEF s
<1>5. IsReader(g)
  BY <1>4, AppendTextReader
<1> HIDE DEF g
<1>6. i \in Nat \ {0} /\ i + 1 \in Nat \ {0}
  BY <1>2
<1>7. IsReader(a) /\ IsReader(b)
  BY <1>5, <1>6, ParseTagReader, ParseEntityReader
<1>8. IsReader(c)
  BY <1>5, <1>6, BreakLineReader, AtReader
<1> HIDE DEF a, b, c
<1> QED
  BY <1>3, <1>7, <1>8

LEMMA PmlBreakReader ==
  ASSUME NEW f, IsReader(f)
  PROVE  IsReader(PmlBreak(f)) /\ IsReader(Paragraph(f)) /\ PmlBreak(f).pos = f.pos
<1>1. ASSUME NEW g, IsReader(g) PROVE IsReader(PmlBreak(g)) /\ PmlBreak(g).pos = g.pos
  <2> DEFINE n == IF g.breaks < 2 THEN g.breaks + 1 ELSE g.breaks
  <2>1. n \in Nat
    BY <1>1 DEF IsReader
  <2>2. PmlBreak(g) = [g EXCEPT !.breaks = n]
    BY DEF PmlBreak
  <2> HIDE DEF n
  <2>3. IsReader([g EXCEPT !.breaks = n])
    BY <1>1, <2>1, PlainFieldsReader
  <2>4. [g EXCEPT !.breaks = n].pos = g.pos
    BY <1>1 DEF IsReader, ReaderFields
  <2> QED
    BY <2>2, <2>3, <2>4
<1> QED
  BY <1>1 DEF Paragraph

LEMMA WriteByteReader ==
  ASSUME NEW f, IsReader(f), NEW c
  PROVE  IsReader(WriteByte(f, c))
<1> DEFINE p == IF Sym(f.pos) = NL THEN f.pos + 1 ELSE f.pos
           g == Move(f, p)
           before == IF f.emitted THEN Newlines(f.breaks) ELSE <<>>
           out == f.out \o before \o <<c>>
           h == [f EXCEPT !.out = out, !.breaks = 0, !.emitted = TRUE]
<1>1. WriteByte(f, c) \in {PmlBreak(g), PmlBreak(f), h}
  BY DEF WriteByte, Move
<1>2. p \in Nat \ {0}
  BY DEF IsReader
<1> HIDE DEF p
<1>3. IsReader(g)
  BY <1>2, AtReader
<1> HIDE DEF g
<1>4. IsList(before)
  BY NewlinesList, EmptyIsList DEF IsReader
<1> HIDE DEF before
<1>5. IsList(out)
  <2>1. IsList(f.out \o before)
    BY <1>4, JoinList DEF IsReader
  <2>2. IsList(<<c>>)
    BY SingleIsList
  <2> QED
    BY <2>1, <2>2, JoinList
<1> HIDE DEF out
<1>6. IsReader(h)
  BY <1>5 DEF IsReader, ReaderFields
<1> HIDE DEF h
<1> QED
  BY <1>1, <1>3, <1>6, PmlBreakReader

LEMMA EmitRawReader ==
  ASSUME NEW f, IsReader(f), NEW s, IsList(s)
  PROVE  IsReader(EmitRaw(f, s))
<1> DEFINE A == ToSet(s)
           S == {r \in Seq(A) : IsReader(EmitRaw(f, r))}
<1>0. s \in Seq(A)
  BY DEF IsList
<1> HIDE DEF A
<1>1. <<>> \in S
  BY EmitRawNone, EmptySeq
<1>2. ASSUME NEW r \in Seq(A), NEW x \in A, r \in S PROVE Append(r, x) \in S
  <2>1. IsList(r) /\ Append(r, x) \in Seq(A)
    BY ListIsList, AppendProperties
  <2>2. EmitRaw(f, Append(r, x)) = WriteByte(EmitRaw(f, r), x)
    BY <2>1, EmitRawAppend
  <2>3. IsReader(EmitRaw(f, r))
    BY <1>2
  <2> QED
    BY <2>1, <2>2, <2>3, WriteByteReader
<1> HIDE DEF S
<1>3. Seq(A) \subseteq S
  BY <1>1, <1>2, AllLists
<1> QED
  BY <1>0, <1>3 DEF S

LEMMA ReadValueReader ==
  ASSUME IsList(src), NEW f, IsReader(f)
  PROVE  IsReader(ReadValue(f)) /\ IsList(Value(f)) /\ IsReader(SkipDigit(f))
<1> DEFINE i == IndexFrom(f.pos + 2, {"\""})
<1>1. f.pos \in Nat \ {0} /\ f.pos + 1 \in Nat \ {0} /\ f.pos + 2 \in Nat \ {0} /\ f.pos + 2 \in Nat
  BY DEF IsReader
<1>2. i \in Nat
  BY <1>1, IndexFromIs
<1>3. ReadValue(f) \in {Move(f, i + 1), f, Move(f, f.pos + 2)}
  BY DEF ReadValue
<1>4. SkipDigit(f) \in {Move(f, f.pos + 1), f}
  BY DEF SkipDigit
<1>5. Value(f) = SubSeq(src, f.pos + 2, i - 1)
  BY DEF Value
<1> HIDE DEF i
<1>6. i + 1 \in Nat \ {0} /\ i - 1 \in Int
  BY <1>2
<1>7. IsReader(Move(f, i + 1)) /\ IsReader(Move(f, f.pos + 1)) /\ IsReader(Move(f, f.pos + 2))
  BY <1>1, <1>6, AtReader
<1>8. IsList(Value(f))
  BY <1>1, <1>5, <1>6, PieceOfSource
<1> QED
  BY <1>3, <1>4, <1>7, <1>8

LEMMA ParseCodeReader ==
  ASSUME IsList(src), NEW f, IsReader(f), NEW lead, NEW n \in Nat \ {0}, NEW base
  PROVE  IsReader(ParseCode(f, lead, n, base))
<1> DEFINE end == f.pos + n - 1
           m == Min({end, Len(src)})
           digits == SubSeq(src, f.pos, m)
           g == Move(f, m + 1)
           a == <<Rune(Number(digits, base))>>
           b == <<"\\", lead>> \o digits
<1>1. f.pos \in Nat /\ end \in Nat /\ Len(src) \in Nat
  BY SourceEnds DEF IsReader
<1>2. ParseCode(f, lead, n, base) \in {EmitRaw(g, a), EmitRaw(g, b)}
  BY DEF ParseCode
<1>3. m \in Nat
  <2> HIDE DEF end
  <2>1. {end, Len(src)} \in SUBSET Nat /\ {end, Len(src)} # {}
    BY <1>1
  <2> QED
    BY <2>1, MinFacts
<1> HIDE DEF m
<1>4. IsReader(g)
  <2>1. m + 1 \in Nat \ {0}
    BY <1>3
  <2> QED
    BY <2>1, AtReader
<1>5. IsList(digits)
  BY <1>1, <1>3, PieceOfSource
<1> HIDE DEF g, digits
<1>6. IsList(a) /\ IsList(b)
  <2>1. IsList(<<"\\", lead>>)
    BY PairIsList
  <2> QED
    BY <1>5, <2>1, SingleIsList, JoinList
<1> HIDE DEF a, b
<1>7. IsReader(EmitRaw(g, a)) /\ IsReader(EmitRaw(g, b))
  BY <1>4, <1>6, EmitRawReader
<1> QED
  BY <1>2, <1>7

LEMMA ChapterReader ==
  ASSUME IsList(src), NEW f, IsReader(f)
  PROVE  IsReader(Chapter(f))
<1> DEFINE g == SkipDigit(f)
           u == Paragraph(ReadValue(g))
           a == EmitRaw(u, Value(g))
           b == ReadValue(g)
<1>1. IsReader(g)
  BY ReadValueReader
<1>2. Chapter(f) \in {f, Paragraph(a), Paragraph(b)}
  BY DEF Chapter
<1> HIDE DEF g
<1>3. IsReader(b) /\ IsList(Value(g))
  BY <1>1, ReadValueReader
<1>4. IsReader(u)
  BY <1>3, PmlBreakReader
<1> HIDE DEF u, b
<1>5. IsReader(a)
  BY <1>3, <1>4, EmitRawReader
<1> HIDE DEF a
<1>6. IsReader(Paragraph(a)) /\ IsReader(Paragraph(b))
  BY <1>3, <1>5, PmlBreakReader
<1> QED
  BY <1>2, <1>6

LEMMA SecondReader ==
  ASSUME IsList(src), NEW f, IsReader(f), NEW letters
  PROVE  IsReader(Second(f, letters))
<1> DEFINE g == Move(f, f.pos + 1)
<1>1. f.pos + 1 \in Nat \ {0}
  BY DEF IsReader
<1>2. IsReader(g)
  BY <1>1, AtReader
<1>3. Second(f, letters) \in {ReadValue(g), f}
  BY DEF Second
<1> HIDE DEF g
<1> QED
  BY <1>2, <1>3, ReadValueReader

LEMMA ParsePmlTagReader ==
  ASSUME IsList(src), NEW f, IsReader(f)
  PROVE  IsReader(ParsePmlTag(f))
<1> DEFINE g == Move(f, f.pos + 1)
           j == MarkerFrom(g.pos, <<"\\", "v">>)
           p == EmitRaw(f, <<"\\">>)
           q == EmitRaw(g, <<"\\">>)
           r == Move(g, j + 1)
           a == ParseCode(g, "a", 3, 10)
           u == ParseCode(g, "U", 4, 16)
           x == Paragraph(g)
           xx == Paragraph(SkipDigit(g))
           c == Chapter(g)
           w == Paragraph(ReadValue(g))
           n == Second(g, {"n"})
           s == Second(g, {"p", "b", "d"})
           v == ReadValue(g)
<1>1. ParsePmlTag(f) \in {p, q, r, a, u, x, xx, c, w, n, s, v}
  BY DEF ParsePmlTag
<1>2. f.pos + 1 \in Nat \ {0}
  BY DEF IsReader
<1>3. IsReader(g)
  BY <1>2, AtReader
<1> HIDE DEF g
<1>4. j \in Nat
  <2>1. Len(<<"\\", "v">>) \in Nat
    OBVIOUS
  <2>2. g.pos \in Nat \ {0}
    BY <1>3 DEF IsReader
  <2> QED
    BY <2>1, <2>2, MarkerFromIs
<1> HIDE DEF j
<1>5. IsReader(r)
  <2>1. j + 1 \in Nat \ {0}
    BY <1>4
  <2> QED
    BY <1>3, <2>1, AtReader
<1>6. IsReader(p) /\ IsReader(q)
  BY <1>3, SingleIsList, EmitRawReader
<1>7. IsReader(a) /\ IsReader(u)
  BY <1>3, ParseCodeReader
<1>8. IsReader(SkipDigit(g)) /\ IsReader(v)
  BY <1>3, ReadValueReader
<1>9. IsReader(x) /\ IsReader(xx) /\ IsReader(w)
  BY <1>3, <1>8, PmlBreakReader
<1>10. IsReader(c)
  BY <1>3, ChapterReader
<1>11. IsReader(n) /\ IsReader(s)
  BY <1>3, SecondReader
<1> HIDE DEF p, q, r, a, u, x, xx, c, w, n, s, v
<1> QED
  BY <1>1, <1>5, <1>6, <1>7, <1>8, <1>9, <1>10, <1>11

LEMMA ScanPmlReader ==
  ASSUME IsList(src), NEW f, IsReader(f)
  PROVE  IsReader(ScanPml(f))
<1> DEFINE c == Sym(f.pos)
           g == Move(f, f.pos + 1)
           a == [f EXCEPT !.done = TRUE]
<1>1. ScanPml(f) \in {a, ParsePmlTag(g), WriteByte(g, c)}
  BY DEF ScanPml
<1>2. f.pos + 1 \in Nat \ {0}
  BY DEF IsReader
<1>3. IsReader(g) /\ IsReader(a)
  BY <1>2, AtReader, PlainFieldsReader
<1> HIDE DEF g, a, c
<1> QED
  BY <1>1, <1>3, ParsePmlTagReader, WriteByteReader

LEMMA AppendByteReader ==
  ASSUME NEW f, IsReader(f), NEW c
  PROVE  IsReader(AppendByte(f, c)) /\ IsReader(Release(f))
<1> DEFINE o == f.out \o <<c>>
           m == SubSeq(Mark, 1, f.held)
           p == f.out \o m
           a == [f EXCEPT !.held = 1]
           b == [f EXCEPT !.out = o, !.held = 0]
           r == [f EXCEPT !.out = p, !.held = 0]
<1>1. AppendByte(f, c) \in {a, b} /\ Release(f) = r
  BY DEF AppendByte, Release
<1>2. IsList(o)
  BY SingleIsList, JoinList DEF IsReader
<1>3. IsList(m)
  <2>1. f.held \in Int /\ 1 \in Int
    BY DEF IsReader
  <2> QED
    BY <2>1, PieceList
<1> HIDE DEF m
<1>4. IsList(p)
  BY <1>3, JoinList DEF IsReader
<1> HIDE DEF o, p
<1>5. IsReader(b) /\ IsReader(r)
  BY <1>2, <1>4 DEF IsReader, ReaderFields
<1>6. IsReader(a)
  BY PlainFieldsReader
<1> HIDE DEF a, b, r
<1> QED
  BY <1>1, <1>5, <1>6

LEMMA ScanLrfReader ==
  ASSUME NEW f, IsReader(f)
  PROVE  IsReader(ScanLrf(f))
<1> DEFINE c == Sym(f.pos)
           i == f.pos + 1
           g == Move(f, i)
           h == (g.held + 1) % 3
           u == Release(f)
           a == [u EXCEPT !.done = TRUE]
           b == AppendByte(g, c)
           d == AppendByte(Release(g), c)
           e == [g EXCEPT !.held = h]
<1>1. ScanLrf(f) \in {a, b, d, e}
  BY DEF ScanLrf, Move
<1>2. i \in Nat \ {0}
  BY DEF IsReader
<1> HIDE DEF i
<1>3. IsReader(g)
  BY <1>2, AtReader
<1> HIDE DEF g
<1>4. h \in Nat
  <2>1. g.held \in Nat
    BY <1>3 DEF IsReader
  <2> QED
    BY <2>1
<1> HIDE DEF h
<1>5. IsReader(u) /\ IsReader(b) /\ IsReader(Release(g))
  BY <1>3, AppendByteReader
<1>6. IsReader(d)
  BY <1>5, AppendByteReader
<1> HIDE DEF u
<1>7. IsReader(a) /\ IsReader(e)
  BY <1>3, <1>4, <1>5, PlainFieldsReader
<1> HIDE DEF a, b, d, e
<1> QED
  BY <1>1, <1>5, <1>6, <1>7

\* The tags of HTML move nothing.
LEMMA HtmlTagReader ==
  ASSUME NEW f, IsReader(f), NEW name, NEW closed
  PROVE  /\ IsReader(HtmlStartTag(f, name, closed)) /\ HtmlStartTag(f, name, closed).pos = f.pos
         /\ IsReader(HtmlEndTag(f, name)) /\ HtmlEndTag(f, name).pos = f.pos
<1> DEFINE OK(u) == IsReader(u) /\ u.pos = f.pos
<1>1. ASSUME NEW u, OK(u), NEW x
      PROVE  OK([u EXCEPT !.skipTag = x]) /\ OK([u EXCEPT !.breaks = 1])
  <2>1. IsReader([u EXCEPT !.skipTag = x]) /\ IsReader([u EXCEPT !.breaks = 1])
    BY <1>1, PlainFieldsReader
  <2>2. [u EXCEPT !.skipTag = x].pos = u.pos /\ [u EXCEPT !.breaks = 1].pos = u.pos
    BY <1>1 DEF IsReader, ReaderFields
  <2> QED
    BY <1>1, <2>1, <2>2
<1>2. ASSUME NEW u, OK(u) PROVE OK(HtmlBreak(u))
  BY <1>1, <1>2 DEF HtmlBreak
<1>3. OK(f)
  OBVIOUS
<1> DEFINE e == [f EXCEPT !.skipTag = ""]
           g == IF f.skipTag = "head" /\ name \notin HeadElements THEN e ELSE f
           h == [g EXCEPT !.skipTag = name]
<1>4. HtmlStartTag(f, name, closed) \in {g, h, HtmlBreak(g)}
  BY DEF HtmlStartTag
<1>5. HtmlEndTag(f, name) \in {e, f, HtmlBreak(f)}
  BY DEF HtmlEndTag
<1> HIDE DEF OK
<1>6. OK(e)
  BY <1>1, <1>3
<1> HIDE DEF e
<1>7. OK(g)
  BY <1>3, <1>6
<1> HIDE DEF g
<1>8. OK(h)
  BY <1>1, <1>7
<1> HIDE DEF h
<1>9. OK(HtmlStartTag(f, name, closed)) /\ OK(HtmlEndTag(f, name))
  BY <1>2, <1>3, <1>4, <1>5, <1>6, <1>7, <1>8
<1> QED
  BY <1>9 DEF OK

\* Every token is consumed.
LEMMA ScanHtmlReader ==
  ASSUME NEW f, IsReader(f), IsList(src[f.pos].text)
  PROVE  IsReader(ScanHtml(f)) /\ ScanHtml(f).pos = f.pos + 1
<1> DEFINE t == src[f.pos]
           p == f.pos + 1
           g == [f EXCEPT !.pos = p]
           n == Newlines(g.breaks)
           o == n \o t.text
           h == [g EXCEPT !.out = o, !.emitted = TRUE, !.breaks = 0]
           e == HtmlEndTag(g, t.name)
           b == HtmlStartTag(g, t.name, t.kind = "self")
<1>1. ScanHtml(f) \in {g, h, e, b}
  BY DEF ScanHtml, HtmlTextToken
<1>2. p \in Nat \ {0}
  BY DEF IsReader
<1> HIDE DEF p
<1>3. IsReader(g) /\ g.pos = p
  BY <1>2 DEF IsReader, ReaderFields
<1> HIDE DEF g
<1>4. IsList(o)
  <2>1. IsList(n)
    BY <1>3, NewlinesList DEF IsReader
  <2> HIDE DEF n
  <2> QED
    BY <2>1, JoinList
<1> HIDE DEF o
<1>5. IsReader(h) /\ h.pos = p
  BY <1>3, <1>4 DEF IsReader, ReaderFields
<1>6. IsReader(e) /\ IsReader(b) /\ e.pos = p /\ b.pos = p
  BY <1>3, HtmlTagReader
<1> HIDE DEF h, e, b
<1> QED
  BY <1>1, <1>3, <1>5, <1>6 DEF p

-----------------------------------------------------------------------------
(* The types of a conversion *)

TextTypes ==
  /\ IsList(src) /\ (Html => \A k \in 1..Len(src) : IsList(src[k].text))
  /\ IsReader(reader) /\ room \in Nat /\ IsList(filled) /\ IsList(got)

LEMMA JoinGrows == ASSUME NEW s, NEW t, IsList(s), IsList(t) PROVE Grows(s, s \o t)
<1> DEFINE j == s \o t
<1>1. IsList(j) /\ Len(j) = Len(s) + Len(t) /\ \A i \in 1..Len(s) : j[i] = s[i]
  BY JoinPoints
<1>2. Len(s) \in Nat /\ Len(t) \in Nat
  BY ListFacts
<1> HIDE DEF j
<1>3. Grows(s, j)
  BY <1>1, <1>2 DEF Grows
<1> QED
  BY <1>3 DEF j

LEMMA InitTypes == InitText => TextTypes
<1> SUFFICES ASSUME InitText PROVE TextTypes
  OBVIOUS
<1>1. PICK i \in DOMAIN Docs : doc \in Docs[i]
  BY DEF InitText
<1>2. /\ doc.limit \in Nat /\ IsList(doc.text) /\ IsList(doc.tokens)
      /\ \A k \in DOMAIN doc.tokens : IsList(doc.tokens[k].text)
  BY <1>1, DocsAssumption
<1> DEFINE all == Symbols(doc)
           m == Min({doc.limit, Len(all)})
<1>3. IsList(all) /\ Len(all) \in Nat
  BY <1>2, ListFacts DEF Symbols
<1>4. (Html => all = doc.tokens) /\ src = SubSeq(all, 1, m)
  BY DEF InitText, Html, Symbols, Served
<1> HIDE DEF all
<1>5. m \in Nat /\ m <= Len(all)
  <2>1. {doc.limit, Len(all)} \in SUBSET Nat /\ {doc.limit, Len(all)} # {}
    BY <1>2, <1>3
  <2>2. Min({doc.limit, Len(all)}) \in {doc.limit, Len(all)} /\ \A y \in {doc.limit, Len(all)} : Min({doc.limit, Len(all)}) <= y
    BY <2>1, MinFacts
  <2> QED
    BY <2>1, <2>2
<1> HIDE DEF m
<1>6. IsList(src) /\ Len(src) = IF 1 <= m THEN m - 1 + 1 ELSE 0
  <2>1. 1 \in Int /\ m \in Int
    BY <1>5
  <2> QED
    BY <1>4, <2>1, PieceList
<1>7. ASSUME Html, NEW k \in 1..Len(src) PROVE IsList(src[k].text)
  <2>1. \A h \in 1..Len(src) : src[h] = all[1 + h - 1] /\ 1 + h - 1 \in 1..m
    <3>1. 1 \in Int /\ m \in Int
      BY <1>5
    <3> QED
      BY <1>4, <3>1, PiecePoints
  <2>2. src[k] = all[k] /\ k \in 1..Len(all)
    <3>1. k \in Nat /\ 1 + k - 1 = k
      BY <1>5, <1>6
    <3> QED
      BY <1>3, <1>5, <2>1, <3>1
  <2>3. k \in DOMAIN doc.tokens
    BY <1>2, <1>4, <1>7, <2>2, ListFacts
  <2> QED
    BY <1>2, <1>4, <1>7, <2>2, <2>3
<1>8. IsReader(reader)
  <2> DEFINE f == NewReader
             e == <<>>
  <2>1. f = [pos |-> 1, out |-> e, cur |-> e, breaks |-> 0, emitted |-> FALSE,
             lineStart |-> TRUE, depth |-> 0, skipTag |-> "", held |-> 0, done |-> FALSE]
    BY DEF NewReader
  <2>2. IsList(e)
    BY EmptyIsList
  <2> HIDE DEF e, f
  <2>3. f = [field \in ReaderFields |-> f[field]]
    BY <2>1 DEF ReaderFields
  <2>4. f.pos = 1 /\ f.breaks = 0 /\ f.held = 0 /\ f.out = e /\ f.cur = e
    BY <2>1
  <2>5. IsReader(f)
    BY <2>2, <2>3, <2>4 DEF IsReader
  <2> QED
    BY <2>5 DEF InitText, f
<1> QED
  BY <1>6, <1>7, <1>8, EmptyIsList DEF InitText, TextTypes

\* A step that keeps the source.
LEMMA TypesKept ==
  ASSUME TextTypes, UNCHANGED <<doc, src>>, IsReader(reader)', (room \in Nat)', IsList(filled)', Grows(got, got')
  PROVE  TextTypes'
BY DEF TextTypes, Html, Grows

LEMMA ReturnTypes ==
  ASSUME TextTypes, NEW chunk, IsList(chunk), NEW tail, IsList(tail), NEW e, Return(chunk, tail, e)
  PROVE  TextTypes' /\ Grows(got, got')
<1>1. IsReader([reader EXCEPT !.out = tail])
  BY PlainFieldsReader DEF TextTypes
<1>2. IsReader(reader)'
  BY <1>1 DEF Return
<1>3. Grows(got, got')
  BY JoinGrows DEF Return, TextTypes
<1>4. (room \in Nat)' /\ IsList(filled)'
  BY EmptyIsList DEF Return
<1>5. UNCHANGED <<doc, src>>
  BY DEF Return
<1> QED
  BY <1>2, <1>3, <1>4, <1>5, TypesKept

LEMMA ScanTypes ==
  ASSUME TextTypes, NEW step, IsReader(step), Scan(step)
  PROVE  TextTypes' /\ Grows(got, got')
<1>1. IsReader(reader)' /\ (room \in Nat)' /\ IsList(filled)' /\ UNCHANGED <<doc, src>>
  BY DEF Scan, TextTypes
<1>2. Grows(got, got')
  BY GrowsSame DEF Scan, TextTypes
<1> QED
  BY <1>1, <1>2, TypesKept

LEMMA HtmlTypes ==
  ASSUME TextTypes, ReadHtml
  PROVE  TextTypes' /\ Grows(got, got')
<1>1. IsReader(reader) /\ IsList(filled) /\ room \in Nat /\ IsList(src)
  BY DEF TextTypes
<1>2. ASSUME HtmlToken PROVE TextTypes' /\ Grows(got, got')
  <2> DEFINE f == ScanHtml(reader)
             all == filled \o f.out
             m == Min({room, Len(all)})
             o == SubSeq(all, room + 1, Len(all))
  <2>1. reader.pos \in 1..Len(src) /\ Html
    <3>1. reader.pos <= Len(src) /\ Html
      BY <1>2 DEF HtmlToken, Filling
    <3> QED
      BY <1>1, <3>1, ListFacts DEF IsReader
  <2>2. IsReader(f)
    BY <1>1, <2>1, ScanHtmlReader DEF TextTypes
  <2>3. filled' = SubSeq(all, 1, m) /\ reader' = [f EXCEPT !.out = o]
    BY <1>2 DEF HtmlToken
  <2>4. UNCHANGED <<doc, src>> /\ (room \in Nat)' /\ Grows(got, got')
    BY <1>2, GrowsSame DEF HtmlToken, TextTypes
  <2> HIDE DEF f
  <2>5. IsList(all)
    BY <1>1, <2>2, JoinList DEF IsReader
  <2> HIDE DEF all
  <2>6. m \in Int /\ room + 1 \in Int /\ Len(all) \in Int /\ 1 \in Int
    <3>1. {room, Len(all)} \in SUBSET Nat /\ {room, Len(all)} # {}
      BY <1>1, <2>5, ListFacts
    <3>2. m \in {room, Len(all)}
      BY <3>1, MinFacts
    <3> QED
      BY <3>1, <3>2
  <2>7. IsList(o) /\ IsList(SubSeq(all, 1, m))
    BY <2>6, PieceList
  <2> HIDE DEF m, o
  <2>8. IsReader([f EXCEPT !.out = o])
    BY <2>2, <2>7, PlainFieldsReader
  <2> QED
    BY <2>3, <2>4, <2>7, <2>8, TypesKept
<1>3. ASSUME HtmlStop PROVE TextTypes' /\ Grows(got, got')
  BY <1>1, <1>3, ReturnTypes, EmptyIsList DEF HtmlStop
<1>4. ASSUME HtmlFull PROVE TextTypes' /\ Grows(got, got')
  <2>1. IsList(reader.out)
    BY <1>1 DEF IsReader
  <2> QED
    BY <1>1, <1>4, <2>1, ReturnTypes DEF HtmlFull
<1> QED
  BY <1>2, <1>3, <1>4 DEF ReadHtml

LEMMA ReadTypes ==
  ASSUME TextTypes, ReadText
  PROVE  TextTypes' /\ Grows(got, got')
<1>1. IsReader(reader) /\ IsList(src) /\ room \in Nat /\ IsList(filled) /\ IsList(reader.out)
  BY DEF TextTypes, IsReader
<1>2. ASSUME NEW n \in Rooms, CallRead(n) PROVE TextTypes' /\ Grows(got, got')
  <2>1. CASE ContextFirst /\ cancelled
    <3>1. Return(<<>>, reader.out, "cancelled")
      BY <1>2, <2>1 DEF CallRead
    <3> QED
      BY <1>1, <3>1, ReturnTypes, EmptyIsList
  <2>2. CASE ~(ContextFirst /\ cancelled)
    <3>1. room' = n /\ UNCHANGED <<doc, src, reader, filled, got>>
      BY <1>2, <2>2 DEF CallRead
    <3>2. n \in Nat
      BY RoomsAssumption
    <3>3. Grows(got, got')
      BY <3>1, GrowsSame DEF TextTypes
    <3> QED
      BY <1>1, <3>1, <3>2, <3>3, TypesKept
  <2> QED
    BY <2>1, <2>2
<1>3. ASSUME Copy PROVE TextTypes' /\ Grows(got, got')
  <2> DEFINE o == reader.out
             m == Min({room, Len(o)})
             a == SubSeq(o, 1, m)
             b == SubSeq(o, room + 1, Len(o))
  <2>1. Return(a, b, "")
    BY <1>3 DEF Copy
  <2>2. IsList(o)
    BY <1>1
  <2> HIDE DEF o
  <2>3. m \in Int /\ room + 1 \in Int /\ Len(o) \in Int /\ 1 \in Int
    <3>1. {room, Len(o)} \in SUBSET Nat /\ {room, Len(o)} # {}
      BY <1>1, <2>2, ListFacts
    <3>2. m \in {room, Len(o)}
      BY <3>1, MinFacts
    <3> QED
      BY <3>1, <3>2
  <2> HIDE DEF m
  <2>4. IsList(a) /\ IsList(b)
    BY <2>3, PieceList
  <2> HIDE DEF a, b
  <2> QED
    BY <2>1, <2>4, ReturnTypes
<1>4. ASSUME SeeCancel \/ ReadEnd PROVE TextTypes' /\ Grows(got, got')
  BY <1>4, ReturnTypes, EmptyIsList DEF SeeCancel, ReadEnd
<1>5. ASSUME ReadFb2 \/ ReadFb3 PROVE TextTypes' /\ Grows(got, got')
  <2>1. IsReader(ScanSkipped(reader)) /\ IsReader(ScanMarkup(reader))
    BY <1>1, ScanSkippedReader, ScanMarkupReader
  <2>2. Scan(ScanSkipped(reader)) \/ Scan(ScanMarkup(reader))
    BY <1>5 DEF ReadFb2, ReadFb3
  <2> QED
    BY <2>1, <2>2, ScanTypes
<1>6. ASSUME ReadPml \/ ReadLrf PROVE TextTypes' /\ Grows(got, got')
  <2>1. IsReader(ScanPml(reader)) /\ IsReader(ScanLrf(reader))
    BY <1>1, ScanPmlReader, ScanLrfReader
  <2>2. Scan(ScanPml(reader)) \/ Scan(ScanLrf(reader))
    BY <1>6 DEF ReadPml, ReadLrf
  <2> QED
    BY <2>1, <2>2, ScanTypes
<1> QED
  BY <1>2, <1>3, <1>4, <1>5, <1>6, HtmlTypes DEF ReadText

(* What a conversion holds keeps its type at every step of every converter and
   whatever the sizes of the buffers: source, pending output and what was
   returned are lists, breaks and held places are numbers (the fields of the
   readers in htmltotext.go, fb2totext.go, fb3totext.go, pmltotext.go and
   lrftotext.go). *)
THEOREM ConversionTyped == Spec => []TextTypes
<1>1. Init => TextTypes
  BY InitTypes DEF Init
<1>2. ASSUME TextTypes, [Next]_vars PROVE TextTypes'
  <2>1. CASE Read
    BY <1>2, <2>1, ReadTypes DEF Read
  <2>2. CASE Cancel \/ Result \/ SearchIsbns \/ UNCHANGED vars
    <3>1. UNCHANGED <<doc, src, reader, room, filled, got>>
      BY <2>2 DEF Cancel, Result, SearchIsbns, vars, textvars
    <3> QED
      BY <1>2, <3>1 DEF TextTypes, Html
  <2> QED
    BY <1>2, <2>1, <2>2 DEF Next
<1> QED
  BY <1>1, <1>2, PTL DEF Spec

-----------------------------------------------------------------------------
(* Places of a scan *)

\* Past the last symbol there is only the end.
LEMMA InSource ==
  ASSUME NEW i, NEW c, Sym(i) = c, c # "EOF"
  PROVE  i <= Len(src)
BY DEF Sym

LEMMA BeyondSource ==
  ASSUME IsList(src), NEW i \in Nat, i > Len(src), NEW S
  PROVE  Sym(i) = "EOF" /\ IndexFrom(i, S) = EndOfSource
<1>1. Len(src) \in Nat /\ EndOfSource = Len(src) + 1
  BY SourceEnds
<1>2. Sym(i) = "EOF"
  BY <1>1 DEF Sym
<1>3. i..Len(src) = {}
  BY <1>1
<1>4. IndexFrom(i, S) = Min({EndOfSource})
  BY <1>3 DEF IndexFrom
<1>5. Min({EndOfSource}) = EndOfSource
  <2>1. {EndOfSource} \in SUBSET Nat /\ {EndOfSource} # {}
    BY <1>1
  <2> QED
    BY <2>1, MinFacts
<1> QED
  BY <1>2, <1>4, <1>5

\* i or the end of the source, whichever comes first.
NotBefore(j, i) == j \in Nat /\ (j >= i \/ j = EndOfSource)

LEMMA MarkerNotBefore ==
  ASSUME IsList(src), NEW i \in Nat \ {0}, NEW marker, Len(marker) \in Nat \ {0}
  PROVE  NotBefore(MarkerFrom(i, marker), i)
<1> DEFINE n == i + Len(marker) - 1
           T == {j \in n..Len(src) : SubSeq(src, j - Len(marker) + 1, j) = marker} \cup {EndOfSource}
<1>1. Len(src) \in Nat /\ EndOfSource = Len(src) + 1
  BY SourceEnds
<1>2. n \in Nat /\ n >= i
  OBVIOUS
<1>3. MarkerFrom(i, marker) = Min(T)
  BY DEF MarkerFrom
<1> HIDE DEF n
<1>4. T \in SUBSET Nat /\ T # {} /\ \A j \in T : j >= i \/ j = EndOfSource
  BY <1>1, <1>2
<1> HIDE DEF T
<1>5. Min(T) \in T
  BY <1>4, MinFacts
<1> QED
  BY <1>3, <1>4, <1>5 DEF NotBefore

LEMMA TagEndsHere == ASSUME IsList(src) PROVE TagEnds(TagEnd)
<1>1. TagEnd = CHOOSE g : TagEnds(g)
  BY DEF TagEnd, TagEnds, Quoted, TagStop, AfterQuote
<1> QED
  BY <1>1, TagEndsExist

LEMMA TagNotBefore ==
  ASSUME IsList(src), NEW i \in Nat
  PROVE  NotBefore(TagEnd[i], i)
<1> DEFINE g == TagEnd
           Right(k) == NotBefore(g[k], k)
           N == {n \in Nat : \A k \in Nat : k > Len(src) - n => Right(k)}
<1>1. \A k \in Nat : g[k] = IF Quoted(k) THEN g[AfterQuote(k)] ELSE TagStop(k)
  BY TagEndsHere DEF TagEnds
<1> HIDE DEF g
<1>2. Len(src) \in Nat
  BY SourceEnds
<1>3. \A k \in Nat : ~Quoted(k) => Right(k)
  BY <1>1, IndexFromIs DEF TagStop, NotBefore
<1>4. 0 \in N
  <2> SUFFICES ASSUME NEW k \in Nat, k > Len(src) - 0 PROVE Right(k)
    OBVIOUS
  <2>1. ~Quoted(k)
    BY <1>2, TagStops
  <2> QED
    BY <1>3, <2>1
<1>5. \A n \in Nat : n \in N => n + 1 \in N
  <2> SUFFICES ASSUME NEW n \in Nat, \A k \in Nat : k > Len(src) - n => Right(k),
                      NEW k \in Nat, k > Len(src) - (n + 1)
               PROVE  Right(k)
    OBVIOUS
  <2>1. CASE Quoted(k)
    <3> DEFINE a == AfterQuote(k)
    <3>1. a \in Nat /\ a > k
      BY <2>1, TagStops
    <3> HIDE DEF a
    <3>2. a > Len(src) - n
      BY <1>2, <3>1
    <3>3. NotBefore(g[a], a)
      BY <3>1, <3>2
    <3>4. g[k] = g[a]
      BY <1>1, <2>1 DEF a
    <3> QED
      BY <3>1, <3>3, <3>4 DEF NotBefore
  <2>2. CASE ~Quoted(k)
    BY <1>3, <2>2
  <2> QED
    BY <2>1, <2>2
<1> HIDE DEF N
<1>6. Len(src) + 1 \in N
  BY <1>2, <1>4, <1>5, AllNaturals
<1>7. i > Len(src) - (Len(src) + 1)
  BY <1>2
<1> QED
  BY <1>6, <1>7 DEF N, g

LEMMA SpecialNotBefore ==
  ASSUME IsList(src), NEW i \in Nat \ {0}
  PROVE  NotBefore(SpecialEnd(i), i)
<1>1. /\ Len(<<"?", ">">>) \in Nat \ {0} /\ Len(<<"]", "]", ">">>) \in Nat \ {0}
      /\ Len(<<"-", "-", ">">>) \in Nat \ {0}
  OBVIOUS
<1>2. i + 1 \in Nat \ {0} /\ i + 2 \in Nat /\ i + 3 \in Nat \ {0}
  OBVIOUS
<1>3. /\ NotBefore(MarkerFrom(i + 1, <<"?", ">">>), i + 1)
      /\ NotBefore(MarkerFrom(i + 1, <<"]", "]", ">">>), i + 1)
      /\ NotBefore(MarkerFrom(i + 3, <<"-", "-", ">">>), i + 3)
  BY <1>1, <1>2, MarkerNotBefore
<1>4. NotBefore(TagEnd[i + 2], i + 2) /\ NotBefore(TagEnd[i + 3], i + 3)
  BY <1>2, TagNotBefore
<1>5. \A j : NotBefore(j, i + 1) \/ NotBefore(j, i + 2) \/ NotBefore(j, i + 3) => NotBefore(j, i)
  BY DEF NotBefore
<1> HIDE DEF NotBefore
<1>6. SpecialEnd(i) \in {MarkerFrom(i + 1, <<"?", ">">>), MarkerFrom(i + 1, <<"]", "]", ">">>), TagEnd[i + 2],
                         TagEnd[i + 3], MarkerFrom(i + 3, <<"-", "-", ">">>)}
  BY DEF SpecialEnd
<1> QED
  BY <1>3, <1>4, <1>5, <1>6

\* A scan that began at i.
Past(f, i) == IsReader(f) /\ f.pos >= i

LEMMA AtFrom ==
  ASSUME NEW f, IsReader(f), NEW i \in Nat \ {0}, NEW j, NotBefore(j, i) , i <= EndOfSource, IsList(src)
  PROVE  Past(At(f, j + 1), i)
<1>1. EndOfSource = Len(src) + 1 /\ Len(src) \in Nat
  BY SourceEnds
<1>2. j + 1 \in Nat \ {0} /\ j + 1 >= i
  BY <1>1 DEF NotBefore
<1> DEFINE n == j + 1
<1> HIDE DEF n
<1>3. n \in Nat \ {0} /\ n >= i
  BY <1>2 DEF n
<1>4. Past(At(f, n), i)
  BY <1>3, AtReader DEF Past
<1> QED
  BY <1>4 DEF n

LEMMA SkipSpecialFrom ==
  ASSUME IsList(src), NEW f, IsReader(f), NEW i \in Nat \ {0}, i <= EndOfSource
  PROVE  Past(SkipSpecial(f, i), i)
<1> DEFINE g == IF Sym(i) = "![CDATA[" /\ f.depth = 0 THEN CopyCdata(f, i) ELSE f
           n == SpecialEnd(i) + 1
<1>1. SkipSpecial(f, i) = At(g, n)
  BY DEF SkipSpecial
<1>2. IsReader(SkipSpecial(f, i))
  BY SkipSpecialReader
<1>3. n \in Nat \ {0} /\ n >= i
  <2>1. EndOfSource = Len(src) + 1 /\ Len(src) \in Nat
    BY SourceEnds
  <2>2. NotBefore(SpecialEnd(i), i)
    BY SpecialNotBefore
  <2> QED
    BY <2>1, <2>2 DEF NotBefore
<1> HIDE DEF g, n
<1>4. At(g, n).pos = n
  <2>1. "pos" \in DOMAIN g
    BY <1>1, <1>2 DEF At, IsReader, ReaderFields
  <2> QED
    BY <2>1 DEF At
<1> QED
  BY <1>1, <1>2, <1>3, <1>4 DEF Past

LEMMA ParseEntityFrom ==
  ASSUME IsList(src), NEW f, IsReader(f), NEW i \in Nat \ {0}, i <= EndOfSource
  PROVE  Past(ParseEntity(f, i), i)
<1> DEFINE end == IndexFrom(i, {";"})
           last == i + EntityMax - 1
           s == SubSeq(src, i, end - 1)
           a == AppendText(f, Unescape(s))
           b == AppendText(f, <<"&">> \o SubSeq(src, i, last))
           c == Finish(AppendText(f, <<"&">> \o SubSeq(src, i, Len(src))))
           n == IF end <= last /\ end # EndOfSource THEN end + 1
                ELSE IF last <= Len(src) THEN last + 1 ELSE EndOfSource
           g == IF end <= last /\ end # EndOfSource THEN a ELSE IF last <= Len(src) THEN b ELSE c
<1>1. ParseEntity(f, i) = At(g, n)
  BY DEF ParseEntity
<1>2. IsReader(ParseEntity(f, i))
  BY ParseEntityReader
<1>3. end \in Nat /\ (end >= i \/ end = EndOfSource)
  BY IndexFromIs
<1> HIDE DEF end
<1>4. n \in Nat \ {0} /\ n >= i
  <2>1. EndOfSource = Len(src) + 1 /\ Len(src) \in Nat
    BY SourceEnds
  <2>2. last \in Nat /\ last + 1 >= i
    BY EntityAssumption
  <2> HIDE DEF last
  <2> QED
    BY <1>3, <2>1, <2>2
<1> HIDE DEF g, n
<1>5. At(g, n).pos = n
  <2>1. "pos" \in DOMAIN g
    BY <1>1, <1>2 DEF At, IsReader, ReaderFields
  <2> QED
    BY <2>1 DEF At
<1> QED
  BY <1>1, <1>2, <1>4, <1>5 DEF Past

LEMMA ParseTagFrom ==
  ASSUME IsList(src), NEW f, IsReader(f), NEW i \in Nat \ {0}, i <= EndOfSource
  PROVE  Past(ParseTag(f, i), i)
<1> DEFINE u == AppendText(f, <<"<">>)
           a == At(Finish(u), i)
           v == EndTag(f, TagName(i + 1))
           b == At(v, TagEnd[i + 1] + 1)
           c == SkipSpecial(f, i)
           w == StartTag(f, TagName(i), SelfClosing(i))
           d == At(w, TagEnd[i] + 1)
           e == At(u, i)
<1>1. ParseTag(f, i) \in {a, b, c, d, e}
  BY DEF ParseTag
<1>2. IsReader(u) /\ IsReader(Finish(u))
  <2>1. IsReader(u)
    BY SingleIsList, AppendTextReader
  <2> QED
    BY <2>1, BreakLineReader
<1> HIDE DEF u
<1>3. Past(a, i) /\ Past(e, i)
  BY <1>2, AtReader DEF Past
<1>4. IsReader(v) /\ IsReader(w)
  BY TagReader
<1> HIDE DEF v, w
<1>5. NotBefore(TagEnd[i + 1], i) /\ NotBefore(TagEnd[i], i)
  <2>1. NotBefore(TagEnd[i + 1], i + 1) /\ NotBefore(TagEnd[i], i)
    BY TagNotBefore
  <2> QED
    BY <2>1 DEF NotBefore
<1>6. Past(b, i) /\ Past(d, i)
  BY <1>4, <1>5, AtFrom
<1>7. Past(c, i)
  BY SkipSpecialFrom
<1> HIDE DEF a, b, c, d, e
<1> QED
  BY <1>1, <1>3, <1>6, <1>7

\* A scan goes on, or is the last.
Onward(f, g) == IsReader(g) /\ (g.done \/ g.pos > f.pos)

LEMMA FinishedAt == ASSUME NEW f, IsReader(f), NEW i \in Nat \ {0} PROVE At(Finish(f), i).done
<1>1. IsReader(Finish(f)) /\ Finish(f).done
  <2>1. IsReader(Finish(f))
    BY BreakLineReader
  <2>2. Finish(f).done
    BY DEF Finish, IsReader, ReaderFields
  <2> QED
    BY <2>1, <2>2
<1> QED
  BY <1>1 DEF At, IsReader, ReaderFields

LEMMA ScanMarkupOnward ==
  ASSUME IsList(src), NEW f, IsReader(f)
  PROVE  /\ Onward(f, ScanMarkup(f))
         /\ f.pos > Len(src) => ScanMarkup(f).done
<1> DEFINE i == IndexFrom(f.pos, {"<", "&"})
           s == SubSeq(src, f.pos, i - 1)
           g == AppendText(f, s)
           a == ParseTag(g, i + 1)
           b == ParseEntity(g, i + 1)
           c == At(Finish(g), i)
<1>0. IsReader(ScanMarkup(f))
  BY ScanMarkupReader
<1>1. f.pos \in Nat /\ f.pos # 0
  BY DEF IsReader
<1>2. i \in Nat /\ i # 0 /\ (i >= f.pos \/ i = EndOfSource)
  BY <1>1, IndexFromIs
<1>3. ScanMarkup(f) = CASE Sym(i) = "<" -> a [] Sym(i) = "&" -> b [] OTHER -> c
  BY DEF ScanMarkup
<1>4. f.pos > Len(src) => Sym(i) = "EOF"
  <2> SUFFICES ASSUME f.pos > Len(src) PROVE Sym(i) = "EOF"
    OBVIOUS
  <2>1. i = EndOfSource
    BY <1>1, BeyondSource
  <2>2. i > Len(src)
    BY <2>1, SourceEnds
  <2> QED
    BY <1>2, <2>2, BeyondSource
<1>5. EndOfSource = Len(src) + 1 /\ Len(src) \in Nat
  BY SourceEnds
<1> HIDE DEF i
<1>6. IsReader(g)
  <2>1. i - 1 \in Int
    BY <1>2
  <2>2. IsList(s)
    BY <1>1, <2>1, PieceOfSource
  <2> HIDE DEF s
  <2> QED
    BY <2>2, AppendTextReader
<1> HIDE DEF g
<1>7. c.done
  BY <1>2, <1>6, FinishedAt
<1>8. CASE Sym(i) \in {"<", "&"}
  <2>1. i <= Len(src)
    BY <1>8 DEF Sym
  <2>2. i + 1 \in Nat \ {0} /\ i + 1 <= EndOfSource /\ i + 1 > f.pos
    BY <1>1, <1>2, <1>5, <2>1
  <2> DEFINE n == i + 1
  <2> HIDE DEF n
  <2>3. Past(ParseTag(g, n), n) /\ Past(ParseEntity(g, n), n)
    BY <1>6, <2>2, ParseTagFrom, ParseEntityFrom DEF n
  <2>4. ScanMarkup(f) \in {ParseTag(g, n), ParseEntity(g, n)}
    BY <1>3, <1>8 DEF n
  <2>5. Past(ScanMarkup(f), n)
    BY <2>3, <2>4
  <2>6. ScanMarkup(f).pos > f.pos
    BY <1>1, <2>2, <2>5 DEF Past, IsReader, n
  <2>7. ~(f.pos > Len(src))
    BY <1>4, <1>8
  <2> QED
    BY <1>0, <2>6, <2>7 DEF Onward
<1>9. CASE Sym(i) \notin {"<", "&"}
  <2>1. ScanMarkup(f) = c
    BY <1>3, <1>9
  <2> QED
    BY <1>0, <1>7, <2>1 DEF Onward
<1> QED
  BY <1>8, <1>9

LEMMA ScanSkippedOnward ==
  ASSUME IsList(src), NEW f, IsReader(f)
  PROVE  /\ Onward(f, ScanSkipped(f))
         /\ f.pos > Len(src) => ScanSkipped(f).done
<1> DEFINE k == IndexFrom(f.pos, {"<"})
           i == k + 1
           a == At(Finish(f), i)
           u == [f EXCEPT !.depth = @ - 1]
           b == At(u, TagEnd[i + 1] + 1)
           c == SkipSpecial(f, i)
           v == [f EXCEPT !.depth = IF SelfClosing(i) THEN @ ELSE @ + 1]
           d == At(v, TagEnd[i] + 1)
           e == At(f, i + 1)
<1>0. IsReader(ScanSkipped(f))
  BY ScanSkippedReader
<1>1. f.pos \in Nat /\ f.pos # 0
  BY DEF IsReader
<1>2. k \in Nat /\ k # 0 /\ (k >= f.pos \/ k = EndOfSource)
  BY <1>1, IndexFromIs
<1>3. ScanSkipped(f) \in {b, c, d, e} \/ ScanSkipped(f) = a
  BY DEF ScanSkipped
<1>4. Sym(i) = "EOF" => ScanSkipped(f) = a
  <2> DEFINE y == Sym(i)
  <2>1. ScanSkipped(f) =
          CASE y = "EOF" -> a [] y = "/" -> b [] y \in Specials -> c [] y \in NameSyms -> d [] OTHER -> e
    BY DEF ScanSkipped
  <2>2. y = "EOF" => y \notin NameSyms /\ y \notin Specials /\ y # "/"
    BY NamesAssumption DEF Specials
  <2> HIDE DEF y, a, b, c, d, e
  <2>3. y = "EOF" => ScanSkipped(f) = a
    BY <2>1, <2>2
  <2> QED
    BY <2>3 DEF y
<1>5. f.pos > Len(src) => k = EndOfSource
  BY <1>1, BeyondSource
<1>6. EndOfSource = Len(src) + 1 /\ Len(src) \in Nat
  BY SourceEnds
<1> HIDE DEF k
<1>7. i \in Nat \ {0} /\ i + 1 \in Nat \ {0}
  BY <1>2
<1> HIDE DEF i
<1>8. a.done
  BY <1>7, FinishedAt
<1>9. IsReader(u) /\ IsReader(v)
  BY PlainFieldsReader
<1> HIDE DEF u, v
<1>10. CASE Sym(i) = "EOF"
  BY <1>0, <1>4, <1>8, <1>10 DEF Onward
<1>11. CASE Sym(i) # "EOF"
  <2>1. i <= Len(src)
    <3>1. i > Len(src) => Sym(i) = "EOF"
      BY <1>7, BeyondSource
    <3> QED
      BY <1>6, <1>7, <1>11, <3>1
  <2>2. i <= EndOfSource /\ i > f.pos /\ ~(f.pos > Len(src))
    BY <1>1, <1>2, <1>5, <1>6, <2>1 DEF i
  <2>3. NotBefore(TagEnd[i + 1], i) /\ NotBefore(TagEnd[i], i)
    <3>1. NotBefore(TagEnd[i + 1], i + 1) /\ NotBefore(TagEnd[i], i)
      BY <1>7, TagNotBefore
    <3> QED
      BY <1>7, <3>1 DEF NotBefore
  <2>4. Past(b, i) /\ Past(d, i)
    BY <1>7, <1>9, <2>2, <2>3, AtFrom
  <2>5. Past(c, i)
    BY <1>7, <2>2, SkipSpecialFrom
  <2>6. Past(e, i)
    <3> DEFINE n == i + 1
    <3>1. n \in Nat \ {0} /\ n >= i
      BY <1>7
    <3> HIDE DEF n
    <3>2. Past(At(f, n), i)
      BY <3>1, AtReader DEF Past
    <3> QED
      BY <3>2 DEF n
  <2> HIDE DEF a, b, c, d, e
  <2>7. CASE ScanSkipped(f) = a
    BY <1>0, <1>8, <2>2, <2>7 DEF Onward
  <2>8. CASE ScanSkipped(f) \in {b, c, d, e}
    <3>1. Past(ScanSkipped(f), i)
      BY <2>4, <2>5, <2>6, <2>8
    <3>2. ScanSkipped(f).pos > f.pos
      BY <1>1, <1>7, <2>2, <3>1 DEF Past, IsReader
    <3> QED
      BY <1>0, <2>2, <3>2 DEF Onward
  <2> QED
    BY <1>3, <2>7, <2>8
<1> QED
  BY <1>10, <1>11

LEMMA MoveFrom ==
  ASSUME NEW f, IsReader(f), NEW i \in Nat \ {0}, NEW p, i >= p
  PROVE  Past(Move(f, i), p)
BY AtReader DEF Past

LEMMA WriteByteFrom ==
  ASSUME NEW p \in Nat, NEW f, Past(f, p), NEW c
  PROVE  Past(WriteByte(f, c), p)
<1> DEFINE q == IF Sym(f.pos) = NL THEN f.pos + 1 ELSE f.pos
           g == Move(f, q)
           before == IF f.emitted THEN Newlines(f.breaks) ELSE <<>>
           out == f.out \o before \o <<c>>
           h == [f EXCEPT !.out = out, !.breaks = 0, !.emitted = TRUE]
<1>1. IsReader(WriteByte(f, c)) /\ IsReader(f) /\ f.pos >= p
  BY WriteByteReader DEF Past
<1>2. WriteByte(f, c) \in {PmlBreak(g), PmlBreak(f), h}
  BY DEF WriteByte, Move
<1>3. q \in Nat \ {0} /\ q >= p
  BY <1>1 DEF IsReader
<1> HIDE DEF q
<1>4. Past(g, p)
  BY <1>1, <1>3, MoveFrom
<1> HIDE DEF g, out
<1>5. h.pos = f.pos
  BY <1>1 DEF IsReader, ReaderFields
<1> HIDE DEF h
<1>6. PmlBreak(g).pos = g.pos /\ PmlBreak(f).pos = f.pos
  BY <1>1, <1>4, PmlBreakReader DEF Past
<1>7. WriteByte(f, c).pos \in {g.pos, f.pos}
  BY <1>2, <1>5, <1>6
<1> QED
  BY <1>1, <1>4, <1>7 DEF Past

LEMMA EmitRawFrom ==
  ASSUME NEW p \in Nat, NEW f, Past(f, p), NEW s, IsList(s)
  PROVE  Past(EmitRaw(f, s), p)
<1> DEFINE A == ToSet(s)
           S == {r \in Seq(A) : Past(EmitRaw(f, r), p)}
<1>0. s \in Seq(A)
  BY DEF IsList
<1> HIDE DEF A
<1>1. <<>> \in S
  BY EmitRawNone, EmptySeq
<1>2. ASSUME NEW r \in Seq(A), NEW x \in A, r \in S PROVE Append(r, x) \in S
  <2>1. IsList(r) /\ Append(r, x) \in Seq(A)
    BY ListIsList, AppendProperties
  <2>2. EmitRaw(f, Append(r, x)) = WriteByte(EmitRaw(f, r), x)
    BY <2>1, EmitRawAppend
  <2>3. Past(EmitRaw(f, r), p)
    BY <1>2
  <2> QED
    BY <2>1, <2>2, <2>3, WriteByteFrom
<1> HIDE DEF S
<1>3. Seq(A) \subseteq S
  BY <1>1, <1>2, AllLists
<1> QED
  BY <1>0, <1>3 DEF S

LEMMA ParagraphFrom ==
  ASSUME NEW p, NEW f, Past(f, p)
  PROVE  Past(Paragraph(f), p)
<1>1. IsReader(f) /\ f.pos >= p
  BY DEF Past
<1>2. IsReader(PmlBreak(f)) /\ PmlBreak(f).pos = f.pos
  BY <1>1, PmlBreakReader
<1>3. IsReader(Paragraph(f)) /\ Paragraph(f).pos = f.pos
  BY <1>2, PmlBreakReader DEF Paragraph
<1> QED
  BY <1>1, <1>3 DEF Past

LEMMA ReadValueFrom ==
  ASSUME IsList(src), NEW p \in Nat, NEW f, Past(f, p)
  PROVE  Past(ReadValue(f), p) /\ Past(SkipDigit(f), p) /\ IsList(Value(f))
<1> DEFINE i == IndexFrom(f.pos + 2, {"\""})
<1>1. IsReader(f) /\ f.pos \in Nat \ {0} /\ f.pos >= p /\ Len(src) \in Nat /\ EndOfSource = Len(src) + 1
  BY SourceEnds DEF IsReader, Past
<1>2. i \in Nat /\ (i >= f.pos + 2 \/ i = EndOfSource)
  <2>1. f.pos + 2 \in Nat
    BY <1>1
  <2> DEFINE n == f.pos + 2
  <2> HIDE DEF n
  <2>2. IndexFrom(n, {"\""}) \in Nat /\ (IndexFrom(n, {"\""}) >= n \/ IndexFrom(n, {"\""}) = EndOfSource)
    BY <2>1, IndexFromIs DEF n
  <2> QED
    BY <2>2 DEF n
<1>3. HasValue(f) => f.pos + 1 <= Len(src)
  <2> DEFINE n == f.pos + 1
  <2>1. HasValue(f) => Sym(n) \in Quotes
    BY DEF HasValue, Quotes
  <2> HIDE DEF n
  <2>2. Sym(n) \in Quotes => n <= Len(src)
    BY DEF Sym, Quotes
  <2> QED
    BY <2>1, <2>2 DEF n
<1>4. ReadValue(f) \in {f, Move(f, f.pos + 2)} \/ (HasValue(f) /\ ReadValue(f) = Move(f, i + 1))
  <2>1. ASSUME ~HasValue(f) PROVE ReadValue(f) \in {f, Move(f, f.pos + 2)}
    BY <2>1 DEF ReadValue
  <2>2. ReadValue(f) \in {f, Move(f, f.pos + 2), Move(f, i + 1)}
    BY DEF ReadValue
  <2> HIDE DEF i
  <2> QED
    BY <2>1, <2>2
<1>5. SkipDigit(f) \in {f, Move(f, f.pos + 1)}
  BY DEF SkipDigit
<1> HIDE DEF i
<1>6. /\ f.pos + 2 \in Nat \ {0} /\ f.pos + 2 >= p /\ f.pos + 1 \in Nat \ {0} /\ f.pos + 1 >= p
      /\ i + 1 \in Nat \ {0} /\ (HasValue(f) => i + 1 >= p)
  BY <1>1, <1>2, <1>3
<1>7. Past(Move(f, f.pos + 2), p) /\ Past(Move(f, f.pos + 1), p) /\ (HasValue(f) => Past(Move(f, i + 1), p))
  BY <1>1, <1>6, MoveFrom
<1>8. IsList(Value(f))
  BY <1>1, ReadValueReader
<1> QED
  BY <1>4, <1>5, <1>7, <1>8

LEMMA ParseCodeFrom ==
  ASSUME IsList(src), NEW p \in Nat, NEW f, Past(f, p), f.pos <= EndOfSource, NEW lead, NEW n \in Nat \ {0}, NEW base
  PROVE  Past(ParseCode(f, lead, n, base), p)
<1> DEFINE end == f.pos + n - 1
           m == Min({end, Len(src)})
           digits == SubSeq(src, f.pos, m)
           g == Move(f, m + 1)
           a == <<Rune(Number(digits, base))>>
           b == <<"\\", lead>> \o digits
<1>1. IsReader(f) /\ f.pos \in Nat \ {0} /\ f.pos >= p /\ end \in Nat /\ end >= f.pos
      /\ Len(src) \in Nat /\ EndOfSource = Len(src) + 1
  BY SourceEnds DEF IsReader, Past
<1>2. ParseCode(f, lead, n, base) \in {EmitRaw(g, a), EmitRaw(g, b)}
  BY DEF ParseCode
<1>3. m \in Nat /\ m + 1 >= p
  <2> HIDE DEF end
  <2>1. {end, Len(src)} \in SUBSET Nat /\ {end, Len(src)} # {}
    BY <1>1
  <2>2. m \in {end, Len(src)}
    BY <2>1, MinFacts
  <2> QED
    BY <1>1, <2>2
<1> HIDE DEF m
<1>4. Past(g, p)
  <2>1. m + 1 \in Nat \ {0}
    BY <1>3
  <2> QED
    BY <1>1, <1>3, <2>1, MoveFrom
<1>5. IsList(digits)
  BY <1>1, <1>3, PieceOfSource
<1> HIDE DEF g, digits
<1>6. IsList(a) /\ IsList(b)
  <2>1. IsList(<<"\\", lead>>)
    BY PairIsList
  <2> QED
    BY <1>5, <2>1, SingleIsList, JoinList
<1> HIDE DEF a, b
<1>7. Past(EmitRaw(g, a), p) /\ Past(EmitRaw(g, b), p)
  BY <1>4, <1>6, EmitRawFrom
<1> QED
  BY <1>2, <1>7

LEMMA ChapterFrom ==
  ASSUME IsList(src), NEW p \in Nat, NEW f, Past(f, p)
  PROVE  Past(Chapter(f), p)
<1> DEFINE g == SkipDigit(f)
           u == Paragraph(ReadValue(g))
           a == EmitRaw(u, Value(g))
           b == ReadValue(g)
<1>1. Past(g, p)
  BY ReadValueFrom
<1>2. Chapter(f) \in {f, Paragraph(a), Paragraph(b)}
  BY DEF Chapter
<1> HIDE DEF g
<1>3. Past(b, p) /\ IsList(Value(g))
  BY <1>1, ReadValueFrom
<1>4. Past(u, p)
  BY <1>3, ParagraphFrom
<1> HIDE DEF u, b
<1>5. Past(a, p)
  BY <1>3, <1>4, EmitRawFrom
<1> HIDE DEF a
<1>6. Past(Paragraph(a), p) /\ Past(Paragraph(b), p)
  BY <1>3, <1>5, ParagraphFrom
<1> QED
  BY <1>2, <1>6

LEMMA SecondFrom ==
  ASSUME IsList(src), NEW p \in Nat, NEW f, Past(f, p), NEW letters
  PROVE  Past(Second(f, letters), p)
<1> DEFINE n == f.pos + 1
           g == Move(f, n)
<1>1. IsReader(f) /\ n \in Nat \ {0} /\ n >= p
  BY DEF IsReader, Past
<1> HIDE DEF n
<1>2. Past(g, p)
  BY <1>1, MoveFrom
<1>3. Second(f, letters) \in {ReadValue(g), f}
  BY DEF Second, n
<1> HIDE DEF g
<1> QED
  BY <1>2, <1>3, ReadValueFrom

LEMMA ParsePmlTagFrom ==
  ASSUME IsList(src), NEW f, IsReader(f)
  PROVE  Past(ParsePmlTag(f), f.pos)
<1> DEFINE p == f.pos
           y == Sym(p)
           i == p + 1
           g == Move(f, i)
           j == MarkerFrom(g.pos, <<"\\", "v">>)
           e == EmitRaw(f, <<"\\">>)
           q == EmitRaw(g, <<"\\">>)
           r == Move(g, j + 1)
           a == ParseCode(g, "a", 3, 10)
           u == ParseCode(g, "U", 4, 16)
           x == Paragraph(g)
           xx == Paragraph(SkipDigit(g))
           c == Chapter(g)
           w == Paragraph(ReadValue(g))
           n == Second(g, {"n"})
           s == Second(g, {"p", "b", "d"})
           v == ReadValue(g)
<1>1. ParsePmlTag(f) \in {e, q, x, xx, c, w, n, s, v} \/ (y \in {"v", "a", "U"} /\ ParsePmlTag(f) \in {r, a, u})
  BY DEF ParsePmlTag
<1>2. p \in Nat /\ i \in Nat \ {0} /\ i >= p /\ Len(src) \in Nat /\ EndOfSource = Len(src) + 1
  BY SourceEnds DEF IsReader
<1>3. y \in {"v", "a", "U"} => i <= EndOfSource
  <2>1. y \in {"v", "a", "U"} => p <= Len(src)
    BY DEF Sym
  <2> QED
    BY <1>2, <2>1
<1>4. Past(f, p)
  BY <1>2 DEF Past
<1> HIDE DEF p, y, i
<1>5. Past(g, p) /\ g.pos = i /\ IsReader(g)
  BY <1>2, MoveFrom, AtReader DEF Past
<1> HIDE DEF g
<1>6. y \in {"v", "a", "U"} => Past(r, p)
  <2> SUFFICES ASSUME y \in {"v", "a", "U"} PROVE Past(r, p)
    OBVIOUS
  <2>1. NotBefore(j, i)
    <3>1. Len(<<"\\", "v">>) \in Nat \ {0}
      OBVIOUS
    <3> QED
      BY <1>2, <1>5, <3>1, MarkerNotBefore
  <2> HIDE DEF j
  <2>2. j + 1 \in Nat \ {0} /\ j + 1 >= p
    BY <1>2, <1>3, <2>1 DEF NotBefore
  <2> DEFINE k == j + 1
  <2> HIDE DEF k
  <2>3. Past(Move(g, k), p)
    BY <1>5, <2>2, MoveFrom DEF k
  <2> QED
    BY <2>3 DEF k
<1> HIDE DEF r
<1>7. Past(e, p) /\ Past(q, p)
  BY <1>2, <1>4, <1>5, SingleIsList, EmitRawFrom
<1>8. y \in {"v", "a", "U"} => Past(a, p) /\ Past(u, p)
  BY <1>2, <1>3, <1>5, ParseCodeFrom
<1>9. Past(SkipDigit(g), p) /\ Past(v, p)
  BY <1>2, <1>5, ReadValueFrom
<1>10. Past(x, p) /\ Past(xx, p) /\ Past(w, p)
  BY <1>5, <1>9, ParagraphFrom
<1>11. Past(c, p)
  BY <1>2, <1>5, ChapterFrom
<1>12. Past(n, p) /\ Past(s, p)
  BY <1>2, <1>5, SecondFrom
<1> HIDE DEF e, q, a, u, x, xx, c, w, n, s, v
<1>13. Past(ParsePmlTag(f), p)
  BY <1>1, <1>6, <1>7, <1>8, <1>9, <1>10, <1>11, <1>12
<1> QED
  BY <1>13 DEF p

LEMMA ScanPmlOnward ==
  ASSUME IsList(src), NEW f, IsReader(f)
  PROVE  /\ Onward(f, ScanPml(f))
         /\ f.pos > Len(src) => ScanPml(f).done
<1> DEFINE y == Sym(f.pos)
           i == f.pos + 1
           g == Move(f, i)
           a == [f EXCEPT !.done = TRUE]
<1>1. ScanPml(f) \in {ParsePmlTag(g), WriteByte(g, y)} \/ ScanPml(f) = a
  BY DEF ScanPml
<1>2. y = "EOF" => ScanPml(f) = a
  BY DEF ScanPml
<1>3. f.pos \in Nat /\ i \in Nat \ {0} /\ i > f.pos /\ i \in Nat
  BY DEF IsReader
<1>4. f.pos > Len(src) => y = "EOF"
  BY <1>3, BeyondSource
<1>5. a.done
  BY DEF IsReader, ReaderFields
<1>6. IsReader(ScanPml(f))
  BY ScanPmlReader
<1> HIDE DEF a, y, i
<1>7. IsReader(g) /\ g.pos = i
  BY <1>3, AtReader
<1> HIDE DEF g
<1>8. Past(ParsePmlTag(g), i) /\ Past(WriteByte(g, y), i)
  <2>1. Past(g, i)
    BY <1>3, <1>7 DEF Past
  <2> QED
    BY <1>3, <1>7, <2>1, ParsePmlTagFrom, WriteByteFrom
<1>9. CASE ScanPml(f) = a
  BY <1>5, <1>6, <1>9 DEF Onward
<1>10. CASE ScanPml(f) # a
  <2>1. Past(ScanPml(f), i)
    BY <1>1, <1>8, <1>10
  <2>2. ScanPml(f).pos > f.pos
    BY <1>3, <2>1 DEF Past, IsReader
  <2> QED
    BY <1>2, <1>4, <1>6, <1>10, <2>2 DEF Onward
<1> QED
  BY <1>9, <1>10

LEMMA ScanLrfOnward ==
  ASSUME IsList(src), NEW f, IsReader(f)
  PROVE  /\ Onward(f, ScanLrf(f))
         /\ f.pos > Len(src) => ScanLrf(f).done
<1> DEFINE y == Sym(f.pos)
           i == f.pos + 1
           g == Move(f, i)
           h == (g.held + 1) % 3
           u == Release(f)
           a == [u EXCEPT !.done = TRUE]
           v == Release(g)
           b == AppendByte(g, y)
           d == AppendByte(v, y)
           e == [g EXCEPT !.held = h]
<1>1. ScanLrf(f) = a \/ ScanLrf(f) \in {b, d, e}
  BY DEF ScanLrf, Move
<1>2. y = "EOF" => ScanLrf(f) = a
  BY DEF ScanLrf
<1>3. f.pos \in Nat /\ i \in Nat \ {0} /\ i > f.pos
  BY DEF IsReader
<1>4. f.pos > Len(src) => y = "EOF"
  BY <1>3, BeyondSource
<1>5. IsReader(ScanLrf(f))
  BY ScanLrfReader
<1> HIDE DEF y, i
<1>6. IsReader(g) /\ g.pos = i
  BY <1>3, AtReader
<1> HIDE DEF g
<1>7. IsReader(u) /\ IsReader(v)
  BY <1>6, AppendByteReader
<1>8. v.pos = i
  BY <1>6 DEF Release, IsReader, ReaderFields
<1> HIDE DEF u, v
<1>9. a.done
  BY <1>7 DEF IsReader, ReaderFields
<1>10. b.pos = i /\ d.pos = i
  <2>1. ASSUME NEW w, IsReader(w) PROVE AppendByte(w, y).pos = w.pos
    BY <2>1 DEF AppendByte, IsReader, ReaderFields
  <2> QED
    BY <1>6, <1>7, <1>8, <2>1
<1>11. e.pos = i
  BY <1>6 DEF IsReader, ReaderFields
<1> HIDE DEF a, b, d, e
<1>12. CASE ScanLrf(f) = a
  BY <1>5, <1>9, <1>12 DEF Onward
<1>13. CASE ScanLrf(f) # a
  <2>1. ScanLrf(f).pos = i
    BY <1>1, <1>10, <1>11, <1>13
  <2> QED
    BY <1>2, <1>3, <1>4, <1>5, <1>13, <2>1 DEF Onward
<1> QED
  BY <1>12, <1>13

-----------------------------------------------------------------------------
(* A scan depends on the source alone *)

LEMMA PlacesKept ==
  ASSUME UNCHANGED src
  PROVE  /\ EndOfSource' = EndOfSource
         /\ \A i : Sym(i)' = Sym(i)
         /\ \A i, S : IndexFrom(i, S)' = IndexFrom(i, S)
         /\ \A i, m : MarkerFrom(i, m)' = MarkerFrom(i, m)
<1>1. EndOfSource' = EndOfSource
  BY DEF EndOfSource
<1>2. ASSUME NEW i PROVE Sym(i)' = Sym(i)
  BY DEF Sym
<1>3. ASSUME NEW i, NEW S PROVE IndexFrom(i, S)' = IndexFrom(i, S)
  BY <1>1 DEF IndexFrom
<1>4. ASSUME NEW i, NEW m PROVE MarkerFrom(i, m)' = MarkerFrom(i, m)
  BY <1>1 DEF MarkerFrom
<1> QED
  BY <1>1, <1>2, <1>3, <1>4

LEMMA TagEndKept ==
  ASSUME UNCHANGED src
  PROVE  TagEnd' = TagEnd
<1>1. ASSUME NEW i PROVE TagStop(i)' = TagStop(i)
  BY PlacesKept DEF TagStop
<1>2. ASSUME NEW i PROVE Quoted(i)' = Quoted(i)
  <2>1. Sym(TagStop(i))' = Sym(TagStop(i))
    BY <1>1, PlacesKept
  <2> QED
    BY <2>1 DEF Quoted
<1>3. ASSUME NEW i PROVE AfterQuote(i)' = AfterQuote(i)
  BY <1>1, PlacesKept DEF AfterQuote
<1>4. ASSUME NEW g PROVE TagEnds(g)' <=> TagEnds(g)
  BY <1>1, <1>2, <1>3 DEF TagEnds
<1>5. TagEnd = CHOOSE g : TagEnds(g)
  BY DEF TagEnd, TagEnds, Quoted, TagStop, AfterQuote
<1>6. TagEnd' = CHOOSE g : TagEnds(g)'
  BY DEF TagEnd, TagEnds, Quoted, TagStop, AfterQuote
<1> QED
  BY <1>4, <1>5, <1>6

LEMMA MarkupKept ==
  ASSUME UNCHANGED <<doc, src>>, NEW f
  PROVE  ScanSkipped(f)' = ScanSkipped(f) /\ ScanMarkup(f)' = ScanMarkup(f)
<1>1. /\ EndOfSource' = EndOfSource /\ TagEnd' = TagEnd /\ \A i : Sym(i)' = Sym(i)
      /\ \A i, S : IndexFrom(i, S)' = IndexFrom(i, S)
      /\ \A i, m : MarkerFrom(i, m)' = MarkerFrom(i, m)
  BY PlacesKept, TagEndKept
<1>2. ASSUME NEW i PROVE TagName(i)' = TagName(i)
  BY <1>1 DEF TagName
<1>3. ASSUME NEW i PROVE SelfClosing(i)' = SelfClosing(i)
  BY <1>1 DEF SelfClosing
<1>4. ASSUME NEW i PROVE SpecialEnd(i)' = SpecialEnd(i)
  BY <1>1 DEF SpecialEnd
<1>5. ASSUME NEW g, NEW i PROVE CopyCdata(g, i)' = CopyCdata(g, i)
  BY <1>1, <1>4 DEF CopyCdata
<1>6. ASSUME NEW g, NEW i PROVE SkipSpecial(g, i)' = SkipSpecial(g, i)
  BY <1>1, <1>4, <1>5 DEF SkipSpecial
<1>7. ASSUME NEW g, NEW i PROVE ParseEntity(g, i)' = ParseEntity(g, i)
  BY <1>1 DEF ParseEntity
<1>8. ASSUME NEW g, NEW n, NEW c PROVE StartTag(g, n, c)' = StartTag(g, n, c)
  BY DEF StartTag
<1>9. ASSUME NEW g, NEW n PROVE EndTag(g, n)' = EndTag(g, n)
  BY DEF EndTag
<1>10. ASSUME NEW g, NEW i PROVE ParseTag(g, i)' = ParseTag(g, i)
  BY <1>1, <1>2, <1>3, <1>6, <1>8, <1>9 DEF ParseTag
<1>11. ScanSkipped(f)' = ScanSkipped(f)
  BY <1>1, <1>3, <1>6 DEF ScanSkipped
<1>12. ScanMarkup(f)' = ScanMarkup(f)
  BY <1>1, <1>7, <1>10 DEF ScanMarkup
<1> QED
  BY <1>11, <1>12

LEMMA BytesKept ==
  ASSUME UNCHANGED src
  PROVE  /\ \A f, c : WriteByte(f, c)' = WriteByte(f, c)
         /\ \A f, s : EmitRaw(f, s)' = EmitRaw(f, s)
<1>1. ASSUME NEW f, NEW c PROVE WriteByte(f, c)' = WriteByte(f, c)
  BY PlacesKept DEF WriteByte
<1>2. ASSUME NEW f, NEW s PROVE EmitRaw(f, s)' = EmitRaw(f, s)
  <2>1. ASSUME NEW u PROVE Emitting(u, f, s)' <=> Emitting(u, f, s)
    BY <1>1 DEF Emitting
  <2>2. EmitRaw(f, s) = (CHOOSE u : Emitting(u, f, s))[Len(s)]
    BY DEF EmitRaw, Emitting
  <2>3. EmitRaw(f, s)' = (CHOOSE u : Emitting(u, f, s)')[Len(s)]
    BY DEF EmitRaw, Emitting
  <2> QED
    BY <2>1, <2>2, <2>3
<1> QED
  BY <1>1, <1>2

LEMMA PmlKept ==
  ASSUME UNCHANGED src, NEW f
  PROVE  ScanPml(f)' = ScanPml(f) /\ ScanLrf(f)' = ScanLrf(f) /\ ScanHtml(f)' = ScanHtml(f)
<1>1. /\ \A i : Sym(i)' = Sym(i)
      /\ \A i, S : IndexFrom(i, S)' = IndexFrom(i, S)
      /\ \A i, m : MarkerFrom(i, m)' = MarkerFrom(i, m)
      /\ \A g, c : WriteByte(g, c)' = WriteByte(g, c)
      /\ \A g, s : EmitRaw(g, s)' = EmitRaw(g, s)
  BY PlacesKept, BytesKept
<1>2. ASSUME NEW g PROVE HasValue(g)' = HasValue(g)
  BY <1>1 DEF HasValue
<1>3. ASSUME NEW g PROVE Value(g)' = Value(g)
  BY <1>1 DEF Value
<1>4. ASSUME NEW g PROVE ReadValue(g)' = ReadValue(g)
  BY <1>1, <1>2 DEF ReadValue
<1>5. ASSUME NEW g PROVE SkipDigit(g)' = SkipDigit(g)
  BY <1>1 DEF SkipDigit
<1>6. ASSUME NEW g, NEW lead, NEW n, NEW base PROVE ParseCode(g, lead, n, base)' = ParseCode(g, lead, n, base)
  BY <1>1 DEF ParseCode
<1>7. ASSUME NEW g PROVE Chapter(g)' = Chapter(g)
  BY <1>1, <1>2, <1>3, <1>4, <1>5 DEF Chapter
<1>8. ASSUME NEW g, NEW letters PROVE Second(g, letters)' = Second(g, letters)
  BY <1>1, <1>4 DEF Second
<1>9. ASSUME NEW g PROVE ParsePmlTag(g)' = ParsePmlTag(g)
  BY <1>1, <1>4, <1>5, <1>6, <1>7, <1>8 DEF ParsePmlTag
<1>10. ScanPml(f)' = ScanPml(f)
  BY <1>1, <1>9 DEF ScanPml
<1>11. ScanLrf(f)' = ScanLrf(f)
  BY <1>1 DEF ScanLrf
<1>12. ScanHtml(f)' = ScanHtml(f)
  BY DEF ScanHtml
<1> QED
  BY <1>10, <1>11, <1>12

Passing(u, n) == u = [k \in 0..n |-> IF k = 0 THEN [scanner |-> NewReader, text |-> <<>>] ELSE Advance(u[k - 1])]

LEMMA PassKept ==
  ASSUME UNCHANGED <<doc, src>>
  PROVE  /\ Pass' = Pass /\ WholeText' = WholeText /\ \A f : Ended(f)' <=> Ended(f)
         /\ Html' = Html /\ \A f : ScanNext(f)' = ScanNext(f)
<1>1. ASSUME NEW f PROVE ScanNext(f)' = ScanNext(f)
  BY <1>1, MarkupKept, PmlKept DEF ScanNext
<1>2. ASSUME NEW f PROVE Ended(f)' <=> Ended(f)
  BY DEF Ended, Html
<1>3. ASSUME NEW p PROVE Advance(p)' = Advance(p)
  BY <1>1, <1>2 DEF Advance
<1>4. ASSUME NEW u PROVE Passing(u, Len(src) + 1)' <=> Passing(u, Len(src) + 1)
  BY <1>3 DEF Passing
<1>5. Pass = CHOOSE u : Passing(u, Len(src) + 1)
  BY DEF Pass, Passing
<1>6. Pass' = CHOOSE u : Passing(u, Len(src) + 1)'
  BY DEF Pass, Passing
<1>7. Pass' = Pass
  BY <1>4, <1>5, <1>6
<1>8. WholeText' = WholeText
  BY <1>7 DEF WholeText
<1> QED
  BY <1>1, <1>2, <1>7, <1>8 DEF Html

-----------------------------------------------------------------------------
(* Pass after pass *)

\* A source of one of the converters.
Source ==
  /\ doc.format \in Formats /\ IsList(src)
  /\ Html => \A k \in 1..Len(src) : IsList(src[k].text)

\* Every scan goes on, and there are no more of them than symbols and the end.
LEMMA ScanNextOnward ==
  ASSUME Source, NEW f, IsReader(f), ~Ended(f)
  PROVE  /\ IsReader(ScanNext(f))
         /\ Ended(ScanNext(f)) \/ ScanNext(f).pos > f.pos
         /\ f.pos > Len(src) => Ended(ScanNext(f))
<1>1. IsList(src) /\ Len(src) \in Nat /\ f.pos \in Nat \ {0}
  BY SourceEnds DEF Source, IsReader
<1>2. CASE Html
  <2>1. ScanNext(f) = ScanHtml(f)
    BY <1>2 DEF ScanNext, Html
  <2>2. f.pos \in 1..Len(src)
    BY <1>1, <1>2 DEF Ended
  <2>3. IsReader(ScanHtml(f)) /\ ScanHtml(f).pos = f.pos + 1
    BY <1>2, <2>2, ScanHtmlReader DEF Source
  <2> DEFINE g == ScanHtml(f)
  <2> HIDE DEF g
  <2>4. IsReader(g) /\ g.pos = f.pos + 1 /\ ScanNext(f) = g
    BY <2>1, <2>3 DEF g
  <2>5. Ended(g) <=> g.pos > Len(src)
    BY <1>2 DEF Ended
  <2> QED
    BY <1>1, <2>2, <2>4, <2>5
<1>3. CASE ~Html
  <2> DEFINE g == ScanNext(f)
  <2>1. g \in {ScanSkipped(f), ScanMarkup(f), ScanPml(f), ScanLrf(f)}
    BY <1>3 DEF ScanNext, Source, Formats, Html
  <2> HIDE DEF g
  <2>2. Onward(f, g) /\ (f.pos > Len(src) => g.done)
    BY <1>1, <2>1, ScanSkippedOnward, ScanMarkupOnward, ScanPmlOnward, ScanLrfOnward
  <2>3. Ended(g) <=> g.done
    BY <1>3 DEF Ended
  <2> QED
    BY <1>3, <2>2, <2>3 DEF Onward, g
<1> QED
  BY <1>2, <1>3

LEMMA PassingExists == ASSUME NEW n \in Nat PROVE \E u : Passing(u, n)
<1> DEFINE start == [scanner |-> NewReader, text |-> <<>>]
           S == {m \in Nat : \E u : Passing(u, m)}
<1>1. 0 \in S
  <2> DEFINE v == [k \in 0..0 |-> start]
  <2>1. v = [k \in 0..0 |-> v[k]] /\ \A k \in 0..0 : k = 0 /\ v[k] = start
    OBVIOUS
  <2> HIDE DEF v
  <2>2. Passing(v, 0)
    BY <2>1 DEF Passing
  <2> QED
    BY <2>2
<1>2. ASSUME NEW m \in Nat, m \in S PROVE m + 1 \in S
  <2>1. PICK u : Passing(u, m)
    BY <1>2
  <2> HIDE DEF start
  <2>2. \A k \in 0..m : u[k] = IF k = 0 THEN start ELSE Advance(u[k - 1])
    BY <2>1 DEF Passing, start
  <2> DEFINE last == Advance(u[m])
             v == [k \in 0..m + 1 |-> IF k = m + 1 THEN last ELSE u[k]]
  <2>3. v[m + 1] = last /\ (\A k \in 0..m : v[k] = u[k]) /\ v = [k \in 0..m + 1 |-> v[k]]
    OBVIOUS
  <2> HIDE DEF v
  <2>4. ASSUME NEW k \in 0..m + 1 PROVE v[k] = IF k = 0 THEN start ELSE Advance(v[k - 1])
    <3>1. CASE k \in 0..m
      <4>1. v[k] = u[k] /\ (k # 0 => k - 1 \in 0..m /\ v[k - 1] = u[k - 1])
        BY <2>3, <3>1
      <4> QED
        BY <2>2, <3>1, <4>1
    <3>2. CASE k = m + 1
      <4>1. k - 1 = m /\ m \in 0..m /\ k # 0
        BY <3>2
      <4>2. v[k - 1] = u[m]
        BY <2>3, <4>1
      <4> QED
        BY <2>3, <3>2, <4>1, <4>2
    <3> QED
      BY <3>1, <3>2
  <2>5. Passing(v, m + 1)
    BY <2>3, <2>4 DEF Passing, start
  <2> QED
    BY <2>5
<1> HIDE DEF S
<1>3. n \in S
  BY <1>1, <1>2, AllNaturals
<1> QED
  BY <1>3 DEF S

LEMMA PassSteps ==
  ASSUME IsList(src)
  PROVE  /\ Pass[0] = [scanner |-> NewReader, text |-> <<>>]
         /\ \A k \in 0..Len(src) : Pass[k + 1] = Advance(Pass[k])
<1> DEFINE n == Len(src) + 1
           u == Pass
           start == [scanner |-> NewReader, text |-> <<>>]
<1>1. n \in Nat /\ Len(src) \in Nat
  BY SourceEnds
<1>2. Passing(u, n)
  <2>1. u = CHOOSE v : Passing(v, n)
    BY DEF Pass, Passing
  <2> HIDE DEF u, n
  <2> QED
    BY <1>1, <2>1, PassingExists
<1> HIDE DEF u, start
<1>3. \A k \in 0..n : u[k] = IF k = 0 THEN start ELSE Advance(u[k - 1])
  BY <1>2 DEF Passing, start
<1>4. u[0] = start
  BY <1>1, <1>3
<1>5. ASSUME NEW k \in 0..Len(src) PROVE u[k + 1] = Advance(u[k])
  <2>1. k + 1 \in 0..n /\ k + 1 # 0 /\ k + 1 - 1 = k
    BY <1>1
  <2> QED
    BY <1>3, <2>1
<1> QED
  BY <1>4, <1>5 DEF u, start

LEMMA NewIsReader == IsReader(NewReader) /\ NewReader.out = <<>> /\ NewReader.pos = 1
<1> DEFINE f == NewReader
           e == <<>>
<1>1. f = [pos |-> 1, out |-> e, cur |-> e, breaks |-> 0, emitted |-> FALSE,
           lineStart |-> TRUE, depth |-> 0, skipTag |-> "", held |-> 0, done |-> FALSE]
  BY DEF NewReader
<1>2. IsList(e)
  BY EmptyIsList
<1> HIDE DEF e, f
<1>3. f = [field \in ReaderFields |-> f[field]]
  BY <1>1 DEF ReaderFields
<1>4. f.pos = 1 /\ f.breaks = 0 /\ f.held = 0 /\ f.out = e /\ f.cur = e
  BY <1>1
<1>5. IsReader(f)
  BY <1>2, <1>3, <1>4 DEF IsReader
<1> QED
  BY <1>4, <1>5 DEF f, e

LEMMA CoverReader ==
  ASSUME NEW f, IsReader(f)
  PROVE  LET g == [f EXCEPT !.out = <<>>] IN
           IsReader(g) /\ g.out = <<>> /\ g.pos = f.pos /\ g.done = f.done /\ (Ended(g) <=> Ended(f))
<1> DEFINE g == [f EXCEPT !.out = <<>>]
<1>1. IsReader(g)
  BY PlainFieldsReader, EmptyIsList
<1>2. g.out = <<>> /\ g.pos = f.pos /\ g.done = f.done
  BY DEF IsReader, ReaderFields
<1> HIDE DEF g
<1>3. Ended(g) <=> Ended(f)
  BY <1>2 DEF Ended
<1> QED
  BY <1>1, <1>2, <1>3 DEF g

\* After k scans.
Sound(p, k) ==
  /\ IsReader(p.scanner) /\ p.scanner.out = <<>> /\ IsList(p.text)
  /\ Ended(p.scanner) \/ (k <= Len(src) /\ p.scanner.pos > k)

LEMMA AdvanceSound ==
  ASSUME Source, NEW k \in 0..Len(src), NEW p, Sound(p, k)
  PROVE  Sound(Advance(p), k + 1) /\ Grows(p.text, Advance(p).text)
<1>1. IsReader(p.scanner) /\ IsList(p.text) /\ Len(src) \in Nat
  BY SourceEnds DEF Sound, Source
<1>2. CASE Ended(p.scanner)
  <2>1. Advance(p) = p
    BY <1>2 DEF Advance
  <2> QED
    BY <1>1, <1>2, <2>1, GrowsSame DEF Sound
<1>3. CASE ~Ended(p.scanner)
  <2> DEFINE f == ScanNext(p.scanner)
             g == [f EXCEPT !.out = <<>>]
             t == p.text \o f.out
             a == [scanner |-> g, text |-> t]
  <2>1. Advance(p) = a
    BY <1>3 DEF Advance
  <2>2. /\ Ended(f) \/ f.pos > p.scanner.pos
        /\ p.scanner.pos > Len(src) => Ended(f)
    BY <1>1, <1>3, ScanNextOnward
  <2>3. k <= Len(src) /\ p.scanner.pos > k /\ p.scanner.pos \in Nat
    BY <1>1, <1>3 DEF Sound, IsReader
  <2> HIDE DEF f
  <2>4. IsReader(f)
    BY <1>1, <1>3, ScanNextOnward DEF f
  <2>5. IsReader(g) /\ g.out = <<>> /\ g.pos = f.pos /\ (Ended(g) <=> Ended(f))
    BY <2>4, CoverReader
  <2>6. IsList(t)
    BY <1>1, <2>4, JoinList DEF IsReader
  <2>7. Grows(p.text, t)
    BY <1>1, <2>4, JoinGrows DEF IsReader
  <2> HIDE DEF g, t
  <2>8. Ended(g) \/ (k + 1 <= Len(src) /\ g.pos > k + 1)
    <3>1. f.pos \in Nat
      BY <2>4 DEF IsReader
    <3> QED
      BY <1>1, <2>2, <2>3, <2>5, <3>1
  <2>9. a.scanner = g /\ a.text = t
    OBVIOUS
  <2> HIDE DEF a
  <2> QED
    BY <2>1, <2>5, <2>6, <2>7, <2>8, <2>9 DEF Sound
<1> QED
  BY <1>2, <1>3

LEMMA PassSound ==
  ASSUME Source, NEW k \in 0..Len(src) + 1
  PROVE  Sound(Pass[k], k)
<1> DEFINE S == {n \in Nat : n <= Len(src) + 1 => Sound(Pass[n], n)}
<1>1. IsList(src) /\ Len(src) \in Nat
  BY SourceEnds DEF Source
<1>2. 0 \in S
  <2> DEFINE p == [scanner |-> NewReader, text |-> <<>>]
  <2>1. p.scanner = NewReader /\ p.text = <<>> /\ Pass[0] = p
    BY <1>1, PassSteps
  <2> HIDE DEF p
  <2>2. Sound(p, 0)
    BY <1>1, <2>1, NewIsReader, EmptyIsList DEF Sound
  <2> QED
    BY <2>1, <2>2
<1>3. ASSUME NEW n \in Nat, n \in S PROVE n + 1 \in S
  <2> SUFFICES ASSUME n + 1 <= Len(src) + 1 PROVE Sound(Pass[n + 1], n + 1)
    OBVIOUS
  <2>1. n \in 0..Len(src)
    BY <1>1
  <2>2. Sound(Pass[n], n)
    BY <1>1, <1>3, <2>1
  <2>3. Pass[n + 1] = Advance(Pass[n])
    BY <1>1, <2>1, PassSteps
  <2> QED
    BY <2>1, <2>2, <2>3, AdvanceSound
<1> HIDE DEF S
<1>4. k \in S
  <2>1. k \in Nat
    BY <1>1
  <2>2. \A n \in Nat : n \in S
    BY <1>2, <1>3, AllNaturals
  <2> QED
    BY <2>1, <2>2
<1> QED
  BY <1>1, <1>4 DEF S

\* The whole text is what any number of scans has yielded and more, and nothing more at the end.
LEMMA PassWhole ==
  ASSUME Source, NEW k \in 0..Len(src) + 1
  PROVE  Grows(Pass[k].text, WholeText) /\ (Ended(Pass[k].scanner) => Pass[k].text = WholeText)
<1> DEFINE last == Len(src) + 1
           Right(n) == /\ Grows(Pass[k].text, Pass[n].text)
                       /\ Ended(Pass[k].scanner) => Pass[n] = Pass[k]
           S == {n \in Nat : k + n <= last => Right(k + n)}
<1>1. IsList(src) /\ Len(src) \in Nat
  BY SourceEnds DEF Source
<1>2. 0 \in S
  <2>1. IsList(Pass[k].text)
    BY PassSound DEF Sound
  <2>2. k + 0 = k
    BY <1>1
  <2> QED
    BY <2>1, <2>2, GrowsSame
<1>3. ASSUME NEW n \in Nat, n \in S PROVE n + 1 \in S
  <2> DEFINE m == k + n
  <2> SUFFICES ASSUME k + (n + 1) <= last PROVE Right(k + (n + 1))
    OBVIOUS
  <2>1. m \in 0..Len(src) /\ m <= last /\ m \in 0..last /\ k + (n + 1) = m + 1
    BY <1>1
  <2>2. Right(m)
    BY <1>3, <2>1
  <2> HIDE DEF m
  <2>3. Pass[m + 1] = Advance(Pass[m])
    BY <1>1, <2>1, PassSteps
  <2>4. Grows(Pass[m].text, Advance(Pass[m]).text)
    BY <2>1, PassSound, AdvanceSound
  <2>5. Ended(Pass[k].scanner) => Advance(Pass[m]) = Pass[m]
    BY <2>2 DEF Advance
  <2>6. Grows(Pass[k].text, Pass[m + 1].text)
    BY <2>2, <2>3, <2>4, GrowsOn
  <2> QED
    BY <2>1, <2>2, <2>3, <2>5, <2>6
<1> HIDE DEF S
<1>4. \A n \in Nat : n \in S
  BY <1>2, <1>3, AllNaturals
<1>5. last - k \in Nat /\ k + (last - k) = last
  BY <1>1
<1>6. Right(last)
  BY <1>1, <1>4, <1>5 DEF S
<1> QED
  BY <1>6 DEF WholeText

-----------------------------------------------------------------------------
(* What is read in pieces *)

LEMMA JoinThree ==
  ASSUME NEW s, NEW t, NEW u, IsList(s), IsList(t), IsList(u)
  PROVE  (s \o t) \o u = s \o (t \o u)
<1> DEFINE A == (ToSet(s) \cup ToSet(t)) \cup ToSet(u)
<1>1. s \in Seq(A) /\ t \in Seq(A) /\ u \in Seq(A)
  BY SeqMonotonic DEF IsList
<1> HIDE DEF A
<1> QED
  BY <1>1, ConcatAssociative

\* One list after another, under a name the provers do not look behind.
Then(s, t) == s \o t

LEMMA ThenParts ==
  ASSUME NEW s, NEW t, NEW u, IsList(s), IsList(t), IsList(u)
  PROVE  Then(Then(s, t), u) = Then(s, Then(t, u))
<1>1. (s \o t) \o u = s \o (t \o u)
  BY JoinThree, SMT
<1> QED
  BY <1>1 DEF Then

LEMMA JoinNone == ASSUME NEW s, IsList(s) PROVE s \o <<>> = s
BY ConcatEmptySeq DEF IsList

\* As much as fits, and the rest.
LEMMA CutInTwo ==
  ASSUME NEW s, IsList(s), NEW n \in Nat
  PROVE  LET a == SubSeq(s, 1, Min({n, Len(s)}))  b == SubSeq(s, n + 1, Len(s)) IN
           IsList(a) /\ IsList(b) /\ a \o b = s
<1> DEFINE m == Min({n, Len(s)})
           a == SubSeq(s, 1, m)
           b == SubSeq(s, n + 1, Len(s))
           j == a \o b
<1>1. Len(s) \in Nat
  BY ListFacts
<1>2. m = IF n <= Len(s) THEN n ELSE Len(s)
  <2>1. {n, Len(s)} \in SUBSET Nat /\ {n, Len(s)} # {}
    BY <1>1
  <2>2. m \in {n, Len(s)} /\ \A y \in {n, Len(s)} : m <= y
    BY <2>1, MinFacts
  <2> HIDE DEF m
  <2> QED
    BY <1>1, <2>2
<1> HIDE DEF m
<1>3. 1 \in Int /\ m \in Int /\ n + 1 \in Int /\ Len(s) \in Int
  BY <1>1, <1>2
<1>4. /\ IsList(a) /\ Len(a) = IF 1 <= m THEN m - 1 + 1 ELSE 0
      /\ \A i \in 1..Len(a) : a[i] = s[1 + i - 1]
  BY <1>3, PieceList, PiecePoints
<1>5. /\ IsList(b) /\ Len(b) = IF n + 1 <= Len(s) THEN Len(s) - (n + 1) + 1 ELSE 0
      /\ \A i \in 1..Len(b) : b[i] = s[n + 1 + i - 1]
  BY <1>3, PieceList, PiecePoints
<1> HIDE DEF a, b
<1>6. /\ IsList(j) /\ Len(j) = Len(a) + Len(b)
      /\ \A i \in 1..Len(a) : j[i] = a[i]
      /\ \A i \in 1..Len(b) : j[Len(a) + i] = b[i]
  BY <1>4, <1>5, JoinPoints
<1> HIDE DEF j
<1>7. Len(j) = Len(s) /\ Len(a) = m /\ (n <= Len(s) => m = n) /\ (n > Len(s) => m = Len(s) /\ Len(b) = 0)
  <2>1. Len(a) = m /\ m \in Nat
    BY <1>1, <1>2, <1>4
  <2>2. CASE n <= Len(s)
    <3>1. m = n
      BY <1>2, <2>2
    <3>2. Len(b) = Len(s) - n
      BY <1>1, <1>5, <2>2
    <3> QED
      BY <1>1, <1>6, <2>1, <2>2, <3>1, <3>2
  <2>3. CASE ~(n <= Len(s))
    <3>1. m = Len(s)
      BY <1>2, <2>3
    <3>2. Len(b) = 0
      BY <1>1, <1>5, <2>3
    <3> QED
      BY <1>1, <1>6, <2>1, <2>3, <3>1, <3>2
  <2> QED
    BY <2>2, <2>3
<1>8. ASSUME NEW i \in 1..Len(j) PROVE j[i] = s[i]
  <2>1. CASE i <= m
    <3>1. i \in 1..Len(a) /\ 1 + i - 1 = i
      BY <1>1, <1>3, <1>7, <2>1
    <3> QED
      BY <1>4, <1>6, <3>1
  <2>2. CASE i > m
    <3> DEFINE k == i - m
    <3>1. m = n /\ k \in 1..Len(b) /\ Len(a) + k = i /\ n + 1 + k - 1 = i
      BY <1>1, <1>3, <1>5, <1>7, <2>2
    <3> HIDE DEF k
    <3> QED
      BY <1>5, <1>6, <3>1
  <2> QED
    BY <1>1, <1>3, <2>1, <2>2
<1>9. j = s
  BY <1>6, <1>7, <1>8, ListsEqual
<1> QED
  BY <1>4, <1>5, <1>9 DEF j, a, b, m

LEMMA OutAgain ==
  ASSUME NEW f, IsReader(f), NEW a, NEW b
  PROVE  [[f EXCEPT !.out = a] EXCEPT !.out = b] = [f EXCEPT !.out = b] /\ [f EXCEPT !.out = a].out = a
<1>1. f = [field \in ReaderFields |-> f[field]]
  BY DEF IsReader
<1>2. "out" \in ReaderFields
  BY DEF ReaderFields
<1> DEFINE g == [f EXCEPT !.out = a]
           h == [g EXCEPT !.out = b]
           e == [f EXCEPT !.out = b]
<1>3. /\ g = [field \in ReaderFields |-> IF field = "out" THEN a ELSE f[field]]
      /\ e = [field \in ReaderFields |-> IF field = "out" THEN b ELSE f[field]]
  BY <1>1
<1> HIDE DEF g, e
<1>4. h = [field \in ReaderFields |-> IF field = "out" THEN b ELSE g[field]]
  BY <1>3
<1> HIDE DEF h
<1>5. h = e
  BY <1>3, <1>4
<1>6. g.out = a
  BY <1>2, <1>3
<1> QED
  BY <1>5, <1>6 DEF g, h, e

LEMMA OutTwice ==
  ASSUME NEW f, IsReader(f), NEW a, NEW b
  PROVE  /\ [[f EXCEPT !.out = a] EXCEPT !.out = b] = [f EXCEPT !.out = b]
         /\ f.out = b => [f EXCEPT !.out = b] = f
         /\ [f EXCEPT !.out = a].out = a
         /\ (Ended([f EXCEPT !.out = a]) <=> Ended(f))
<1>1. f = [field \in ReaderFields |-> f[field]]
  BY DEF IsReader
<1>2. "pos" \in ReaderFields /\ "done" \in ReaderFields
  BY DEF ReaderFields
<1> DEFINE g == [f EXCEPT !.out = a]
           e == [f EXCEPT !.out = b]
<1>3. /\ g = [field \in ReaderFields |-> IF field = "out" THEN a ELSE f[field]]
      /\ e = [field \in ReaderFields |-> IF field = "out" THEN b ELSE f[field]]
  BY <1>1
<1> HIDE DEF g, e
<1>4. f.out = b => e = f
  BY <1>1, <1>3
<1>5. g.pos = f.pos /\ g.done = f.done
  BY <1>2, <1>3
<1>6. Ended(g) <=> Ended(f)
  BY <1>5 DEF Ended
<1> QED
  BY <1>4, <1>6, OutAgain DEF g, e

-----------------------------------------------------------------------------
(* One text *)

LEMMA NoErrorYet == "" # "eof" /\ "cancelled" # "eof"
OBVIOUS

\* What Read has returned, has put in its buffer and has ready is what as many
\* scans yield, and the scanner stands where they leave it.
Yielded(p) == p.scanner = [reader EXCEPT !.out = <<>>] /\ p.text = (got \o filled) \o reader.out

OneInv ==
  doc.format # "isbn" =>
    /\ doc.format \in Formats
    /\ \E k \in 0..Len(src) + 1 : Yielded(Pass[k])
    /\ filled # <<>> => Html /\ room > 0
    /\ room > 0 => err # "eof"
    /\ err = "eof" => Ended(reader) /\ reader.out = <<>> /\ filled = <<>>

LEMMA OneSource ==
  ASSUME TextTypes, OneInv, doc.format # "isbn"
  PROVE  Source /\ Len(src) \in Nat
BY SourceEnds DEF TextTypes, OneInv, Source

\* One more scan.
LEMMA ScanYields ==
  ASSUME TextTypes, OneInv, doc.format # "isbn", reader.out = <<>>, ~Ended(reader)
  PROVE  LET f == ScanNext(reader) IN
           /\ IsReader(f)
           /\ \E k \in 0..Len(src) + 1 : /\ Pass[k].scanner = [f EXCEPT !.out = <<>>]
                                         /\ Pass[k].text = (got \o filled) \o f.out
<1> DEFINE f == ScanNext(reader)
           g == [f EXCEPT !.out = <<>>]
           t == got \o filled
<1>1. Source /\ IsReader(reader) /\ IsList(src) /\ Len(src) \in Nat /\ IsList(t)
  BY OneSource, JoinList DEF TextTypes
<1>2. PICK k \in 0..Len(src) + 1 : Yielded(Pass[k])
  BY DEF OneInv
<1>3. IsReader(f)
  BY <1>1, ScanNextOnward
<1> HIDE DEF t
<1>4. Pass[k].scanner = reader /\ Pass[k].text = t
  <2>1. [reader EXCEPT !.out = <<>>] = reader
    BY <1>1, OutTwice
  <2>2. t \o <<>> = t
    BY <1>1, JoinNone
  <2> QED
    BY <1>2, <2>1, <2>2 DEF Yielded, t
<1>5. k \in 0..Len(src)
  <2>1. Sound(Pass[k], k)
    BY <1>1, PassSound
  <2>2. k <= Len(src)
    BY <1>4, <2>1 DEF Sound
  <2> QED
    BY <1>1, <2>2
<1> DEFINE p == [scanner |-> g, text |-> t \o f.out]
<1>6. Pass[k + 1] = p
  <2>1. Pass[k + 1] = Advance(Pass[k])
    BY <1>1, <1>5, PassSteps
  <2> QED
    BY <1>4, <2>1 DEF Advance
<1>7. p.scanner = g /\ p.text = t \o f.out
  OBVIOUS
<1> HIDE DEF p, g, f
<1>8. k + 1 \in 0..Len(src) + 1
  BY <1>1, <1>5
<1> QED
  BY <1>3, <1>6, <1>7, <1>8 DEF f, g, t

LEMMA ReturnYields ==
  ASSUME TextTypes, OneInv, doc.format # "isbn", NEW chunk, NEW tail, NEW e, Return(chunk, tail, e),
         (got \o filled) \o reader.out = (got \o chunk) \o tail,
         e = "eof" => Ended(reader) /\ tail = <<>>,
         IsList(chunk)
  PROVE  OneInv'
<1>1. IsReader(reader) /\ IsList(src) /\ IsList(got) /\ Len(src) \in Nat
  BY SourceEnds DEF TextTypes
<1>2. got' = got \o chunk /\ room' = 0 /\ filled' = <<>> /\ reader' = [reader EXCEPT !.out = tail] /\ err' = e
      /\ UNCHANGED <<doc, src>>
  BY DEF Return
<1>3. PICK k \in 0..Len(src) + 1 : Yielded(Pass[k])
  BY DEF OneInv
<1>4. Pass' = Pass /\ \A f : Ended(f)' <=> Ended(f)
  BY <1>2, PassKept
<1>5. [reader' EXCEPT !.out = <<>>] = [reader EXCEPT !.out = <<>>] /\ reader'.out = tail
      /\ (Ended([reader EXCEPT !.out = tail]) <=> Ended(reader))
  BY <1>1, <1>2, OutTwice
<1>6. got' \o filled' = got'
  <2>1. IsList(got')
    BY <1>1, <1>2, JoinList
  <2> QED
    BY <1>2, <2>1, JoinNone
<1>7. Yielded(Pass[k])'
  <2>1. Pass'[k].scanner = [reader' EXCEPT !.out = <<>>]
    BY <1>3, <1>4, <1>5 DEF Yielded
  <2>2. Pass'[k].text = (got' \o filled') \o reader'.out
    BY <1>2, <1>3, <1>4, <1>5, <1>6 DEF Yielded
  <2> QED
    BY <2>1, <2>2 DEF Yielded
<1>8. Ended(reader)' <=> Ended(reader)
  BY <1>2, <1>4, <1>5
<1>9. (\E h \in 0..Len(src) + 1 : Yielded(Pass[h]))'
  BY <1>2, <1>3, <1>7
<1>10. (doc.format \in Formats)'
  BY <1>2 DEF OneInv
<1>11. ~(room' > 0)
  BY <1>2
<1> QED
  BY <1>2, <1>5, <1>8, <1>9, <1>10, <1>11 DEF OneInv

\* A step of a reader that returns nothing yet.
LEMMA StepYields ==
  ASSUME OneInv, doc.format # "isbn", UNCHANGED <<doc, src, room, err>>, room > 0,
         NEW k \in 0..Len(src) + 1, Pass[k].scanner = [reader' EXCEPT !.out = <<>>],
         Pass[k].text = (got' \o filled') \o reader'.out, filled' # <<>> => Html
  PROVE  OneInv'
<1>1. Pass' = Pass
  BY PassKept
<1>2. Yielded(Pass[k])'
  BY <1>1 DEF Yielded
<1>3. (\E h \in 0..Len(src) + 1 : Yielded(Pass[h]))'
  BY <1>2
<1>4. room' > 0 /\ err' # "eof" /\ (doc.format \in Formats)' /\ (filled' # <<>> => Html')
  BY DEF OneInv, Html
<1> QED
  BY <1>3, <1>4 DEF OneInv

LEMMA ReadYields ==
  ASSUME TextTypes, OneInv, doc.format # "isbn", ReadText
  PROVE  OneInv'
<1>1. IsReader(reader) /\ IsList(src) /\ room \in Nat /\ IsList(filled) /\ IsList(got) /\ IsList(reader.out)
  BY DEF TextTypes, IsReader
<1>2. /\ doc.format \in Formats /\ (filled # <<>> => Html /\ room > 0) /\ (room > 0 => err # "eof")
  BY DEF OneInv
<1>3. got \o <<>> = got
  BY <1>1, JoinNone
<1>4. ASSUME NEW n \in Rooms, CallRead(n) PROVE OneInv'
  <2>1. room = 0 /\ filled = <<>> /\ err # "eof"
    <3>1. room = 0 /\ err # "eof"
      BY <1>4, NoErrorYet DEF CallRead
    <3> QED
      BY <1>2, <3>1
  <2>2. CASE ContextFirst /\ cancelled
    <3>1. Return(<<>>, reader.out, "cancelled")
      BY <1>4, <2>2 DEF CallRead
    <3>2. (got \o filled) \o reader.out = (got \o <<>>) \o reader.out
      BY <2>1
    <3> QED
      BY <3>1, <3>2, EmptyIsList, NoErrorYet, ReturnYields
  <2>3. CASE ~(ContextFirst /\ cancelled)
    <3>1. room' = n /\ UNCHANGED <<doc, src, reader, filled, err, got>>
      BY <1>4, <2>3 DEF CallRead
    <3>2. Pass' = Pass
      BY <3>1, PassKept
    <3>3. PICK k \in 0..Len(src) + 1 : Yielded(Pass[k])
      BY DEF OneInv
    <3>4. Yielded(Pass[k])'
      BY <3>1, <3>2, <3>3 DEF Yielded
    <3>5. (\E h \in 0..Len(src) + 1 : Yielded(Pass[h]))'
      BY <3>1, <3>4
    <3>6. (doc.format \in Formats)' /\ filled' = <<>> /\ err' # "eof"
      BY <1>2, <2>1, <3>1
    <3> QED
      BY <3>5, <3>6 DEF OneInv
  <2> QED
    BY <2>2, <2>3
<1>5. ASSUME Copy PROVE OneInv'
  <2> DEFINE o == reader.out
             a == SubSeq(o, 1, Min({room, Len(o)}))
             b == SubSeq(o, room + 1, Len(o))
  <2>1. filled = <<>> /\ Return(a, b, "")
    BY <1>5 DEF Copy
  <2>2. IsList(a) /\ IsList(b) /\ a \o b = o
    BY <1>1, CutInTwo
  <2> HIDE DEF a, b
  <2>3. (got \o filled) \o o = (got \o a) \o b
    <3> HIDE DEF o
    <3>1. (got \o a) \o b = got \o o
      <4>1. Then(Then(got, a), b) = Then(got, Then(a, b))
        BY <1>1, <2>2, ThenParts
      <4>2. Then(a, b) = o
        BY <2>2 DEF Then
      <4>3. Then(Then(got, a), b) = Then(got, o)
        BY <4>1, <4>2
      <4> QED
        BY <4>3 DEF Then
    <3> QED
      BY <1>3, <2>1, <3>1
  <2> QED
    BY <2>1, <2>2, <2>3, NoErrorYet, ReturnYields
<1>6. ASSUME SeeCancel \/ ReadEnd PROVE OneInv'
  <2>1. /\ reader.out = <<>> /\ ~Html
        /\ Return(<<>>, <<>>, "cancelled") \/ (Return(<<>>, <<>>, "eof") /\ reader.done)
    BY <1>6 DEF SeeCancel, ReadEnd, Scanning, Html
  <2>2. filled = <<>> /\ (got \o filled) \o reader.out = (got \o <<>>) \o <<>>
    BY <1>2, <2>1
  <2>3. reader.done => Ended(reader)
    BY <2>1 DEF Ended
  <2> QED
    BY <2>1, <2>2, <2>3, EmptyIsList, NoErrorYet, ReturnYields
<1>7. ASSUME ReadFb2 \/ ReadFb3 \/ ReadPml \/ ReadLrf PROVE OneInv'
  <2> DEFINE f == ScanNext(reader)
  <2>1. Scan(f) /\ ~Html
    BY <1>7 DEF ReadFb2, ReadFb3, ReadPml, ReadLrf, ScanNext, Html
  <2> HIDE DEF f
  <2>2. room > 0 /\ reader.out = <<>> /\ ~Ended(reader)
    BY <2>1 DEF Scan, Scanning, Ended
  <2>3. reader' = f /\ UNCHANGED <<doc, src, room, filled, err, got>>
    BY <2>1 DEF Scan
  <2>4. PICK k \in 0..Len(src) + 1 : Pass[k].scanner = [f EXCEPT !.out = <<>>] /\ Pass[k].text = (got \o filled) \o f.out
    BY <2>2, ScanYields DEF f
  <2> QED
    BY <1>2, <2>2, <2>3, <2>4, StepYields
<1>8. ASSUME HtmlToken PROVE OneInv'
  <2> DEFINE f == ScanHtml(reader)
             all == filled \o f.out
             a == SubSeq(all, 1, Min({room, Len(all)}))
             b == SubSeq(all, room + 1, Len(all))
  <2>1. /\ Html /\ room > 0 /\ reader.out = <<>> /\ reader.pos <= Len(src)
        /\ filled' = a /\ reader' = [f EXCEPT !.out = b]
        /\ UNCHANGED <<doc, src, room, err, got>>
    BY <1>8 DEF HtmlToken, Filling
  <2>2. ScanNext(reader) = f
    BY <2>1 DEF Html, ScanNext
  <2>3. ~Ended(reader)
    BY <1>1, <2>1, SourceEnds DEF Ended, IsReader
  <2> HIDE DEF f
  <2>4. PICK k \in 0..Len(src) + 1 : Pass[k].scanner = [f EXCEPT !.out = <<>>] /\ Pass[k].text = (got \o filled) \o f.out
    BY <2>1, <2>2, <2>3, ScanYields
  <2>5. IsReader(f)
    BY <2>1, <2>2, <2>3, ScanYields
  <2>6. IsList(all) /\ IsList(f.out)
    BY <1>1, <2>5, JoinList DEF IsReader
  <2>7. (got \o filled) \o f.out = got \o all
    <3>1. Then(Then(got, filled), f.out) = Then(got, Then(filled, f.out))
      BY <1>1, <2>6, ThenParts
    <3>2. Then(filled, f.out) = all
      BY DEF all, Then
    <3>3. Then(Then(got, filled), f.out) = Then(got, all)
      BY <3>1, <3>2
    <3> HIDE DEF all
    <3> QED
      BY <3>3 DEF Then
  <2> HIDE DEF all
  <2>8. IsList(a) /\ IsList(b) /\ a \o b = all
    BY <1>1, <2>6, CutInTwo
  <2> HIDE DEF a, b
  <2>9. (got \o a) \o b = got \o all
    <3>1. Then(Then(got, a), b) = Then(got, Then(a, b))
      BY <1>1, <2>8, ThenParts
    <3>2. Then(a, b) = all
      BY <2>8 DEF Then
    <3>3. Then(Then(got, a), b) = Then(got, all)
      BY <3>1, <3>2
    <3> QED
      BY <3>3 DEF Then
  <2>10. [reader' EXCEPT !.out = <<>>] = [f EXCEPT !.out = <<>>] /\ reader'.out = b
    <3>1. [[f EXCEPT !.out = b] EXCEPT !.out = <<>>] = [f EXCEPT !.out = <<>>] /\ [f EXCEPT !.out = b].out = b
      BY <2>5, OutAgain
    <3> QED
      BY <2>1, <3>1
  <2>11. Pass[k].text = (got' \o filled') \o reader'.out
    BY <2>1, <2>4, <2>7, <2>9, <2>10
  <2> QED
    BY <2>1, <2>4, <2>10, <2>11, StepYields
<1>9. ASSUME HtmlStop PROVE OneInv'
  <2> DEFINE e == IF cancelled THEN "cancelled" ELSE SourceEnd
  <2>1. Html /\ reader.out = <<>> /\ Return(filled, <<>>, e) /\ (~cancelled => reader.pos > Len(src))
    BY <1>9 DEF HtmlStop, Filling
  <2>2. e = "eof" => Ended(reader)
    BY <2>1, NoErrorYet DEF Ended
  <2> HIDE DEF e
  <2> QED
    BY <1>1, <2>1, <2>2, ReturnYields
<1>10. ASSUME HtmlFull PROVE OneInv'
  <2>1. Return(filled, reader.out, "")
    BY <1>10 DEF HtmlFull
  <2> QED
    BY <1>1, <2>1, NoErrorYet, ReturnYields
<1> QED
  BY <1>4, <1>5, <1>6, <1>7, <1>8, <1>9, <1>10 DEF ReadText, ReadHtml

LEMMA InitYields == Init => OneInv
<1> SUFFICES ASSUME Init, doc.format # "isbn" PROVE OneInv
  BY DEF OneInv
<1>1. doc.format \in Formats
  BY DocsAssumption DEF Init, InitText
<1>2. reader = NewReader /\ room = 0 /\ filled = <<>> /\ err = "" /\ got = <<>>
  BY DEF Init, InitText
<1>3. IsList(src) /\ Len(src) \in Nat
  BY InitTypes, SourceEnds DEF Init, TextTypes
<1> DEFINE p == [scanner |-> NewReader, text |-> <<>>]
<1>4. p.scanner = NewReader /\ p.text = <<>> /\ Pass[0] = p
  BY <1>3, PassSteps
<1> HIDE DEF p
<1>5. Yielded(Pass[0])
  <2>1. [NewReader EXCEPT !.out = <<>>] = NewReader
    BY NewIsReader, OutTwice
  <2>2. <<>> \o <<>> = <<>>
    BY EmptyIsList, JoinNone
  <2> QED
    BY <1>2, <1>4, <2>1, <2>2, NewIsReader DEF Yielded
<1>6. 0 \in 0..Len(src) + 1 /\ ~(room > 0)
  <2>1. room = 0
    BY <1>2
  <2> QED
    BY <1>3, <2>1
<1>7. filled = <<>> /\ err # "eof"
  BY <1>2, NoErrorYet
<1>8. \E k \in 0..Len(src) + 1 : Yielded(Pass[k])
  BY <1>5, <1>6
<1> QED
  BY <1>1, <1>6, <1>7, <1>8 DEF OneInv

LEMMA YieldedIsOne == TextTypes /\ OneInv => OneText
<1> SUFFICES ASSUME TextTypes, OneInv, doc.format # "isbn"
             PROVE  IsPrefix(got, WholeText) /\ (err = "eof" => got = WholeText)
  BY DEF OneText
<1>1. Source /\ IsList(got) /\ IsList(filled) /\ IsList(reader.out) /\ IsReader(reader)
  BY OneSource DEF TextTypes, IsReader
<1>2. PICK k \in 0..Len(src) + 1 : Yielded(Pass[k])
  BY DEF OneInv
<1> DEFINE t == Pass[k].text
<1>3. Grows(t, WholeText) /\ (Ended(Pass[k].scanner) => t = WholeText)
  BY <1>1, PassWhole
<1>4. t = (got \o filled) \o reader.out /\ (Ended(Pass[k].scanner) <=> Ended(reader))
  <2>1. Pass[k].scanner = [reader EXCEPT !.out = <<>>] /\ t = (got \o filled) \o reader.out
    BY <1>2 DEF Yielded
  <2>2. Ended([reader EXCEPT !.out = <<>>]) <=> Ended(reader)
    BY <1>1, OutTwice
  <2> QED
    BY <2>1, <2>2
<1> HIDE DEF t
<1>5. Grows(got, t)
  <2>1. IsList(got \o filled) /\ Grows(got, got \o filled)
    BY <1>1, JoinList, JoinGrows
  <2>2. Grows(got \o filled, t)
    BY <1>1, <1>4, <2>1, JoinGrows
  <2> QED
    BY <2>1, <2>2, GrowsOn
<1>6. Grows(got, WholeText)
  BY <1>3, <1>5, GrowsOn
<1>7. IsPrefix(got, WholeText)
  BY <1>6, PrefixPoints DEF Grows
<1>8. err = "eof" => got = WholeText
  <2> SUFFICES ASSUME err = "eof" PROVE got = WholeText
    OBVIOUS
  <2>1. Ended(reader) /\ reader.out = <<>> /\ filled = <<>>
    BY DEF OneInv
  <2>2. (got \o <<>>) \o <<>> = got
    BY <1>1, JoinNone
  <2> QED
    BY <1>3, <1>4, <2>1, <2>2
<1> QED
  BY <1>7, <1>8

(* What Read returns is the one text of its source, whatever the sizes of the
   buffers, wherever a buffer was full and whenever the client came back: always
   its start, and all of it once Read has ended (htmltotext.go:74-171,
   fb2totext.go:77-107, fb3totext.go:61-91, pmltotext.go:48-69,
   lrftotext.go:45-69). *)
THEOREM ReadsAreOneText == Spec => []OneText
<1> DEFINE Inv == TextTypes /\ OneInv
<1>1. Init => Inv
  BY InitTypes, InitYields DEF Init
<1>2. ASSUME Inv, [Next]_vars PROVE Inv'
  <2>1. CASE Read
    <3>1. TextTypes' /\ ReadText
      BY <1>2, <2>1, ReadTypes DEF Read
    <3>2. CASE doc.format = "isbn"
      <4>1. UNCHANGED doc
        BY <2>1 DEF Read, ReadText, CallRead, Copy, SeeCancel, ReadEnd, ReadFb2, ReadFb3, ReadHtml, ReadPml, ReadLrf,
                    HtmlToken, HtmlStop, HtmlFull, Scan, Return
      <4> QED
        BY <3>1, <3>2, <4>1 DEF OneInv
    <3> QED
      BY <1>2, <3>1, <3>2, ReadYields
  <2>2. CASE Cancel \/ Result \/ SearchIsbns \/ UNCHANGED vars
    <3>1. UNCHANGED <<doc, src, reader, room, filled, got>> /\ (doc.format = "isbn" \/ UNCHANGED err)
      BY <2>2 DEF Cancel, Result, SearchIsbns, vars, textvars
    <3>2. TextTypes'
      BY <1>2, <3>1 DEF TextTypes, Html
    <3>3. CASE doc.format = "isbn"
      BY <3>1, <3>2, <3>3 DEF OneInv
    <3>4. CASE doc.format # "isbn"
      <4>1. Pass' = Pass /\ \A f : Ended(f)' <=> Ended(f)
        BY <3>1, PassKept
      <4>2. PICK k \in 0..Len(src) + 1 : Yielded(Pass[k])
        BY <1>2, <3>4 DEF OneInv
      <4>3. Yielded(Pass[k])'
        BY <3>1, <4>1, <4>2 DEF Yielded
      <4>4. (\E h \in 0..Len(src) + 1 : Yielded(Pass[h]))'
        BY <3>1, <4>3
      <4>5. (Ended(reader)' <=> Ended(reader)) /\ (Html' <=> Html)
        BY <3>1, <4>1 DEF Html
      <4> QED
        <5>1. (doc.format \in Formats)'
          <6>1. doc.format \in Formats /\ doc' = doc
            BY <1>2, <3>1, <3>4 DEF OneInv
          <6> QED
            BY <6>1 DEF Formats
        <5>2. (filled # <<>> => Html /\ room > 0)'
          BY <1>2, <3>1, <3>4, <4>5 DEF OneInv
        <5>3. (room > 0 => err # "eof")'
          <6>1. (room > 0 => err # "eof") /\ err' = err /\ room' = room
            BY <1>2, <3>1, <3>4 DEF OneInv
          <6> QED
            BY <6>1
        <5>4. (err = "eof" => Ended(reader) /\ reader.out = <<>> /\ filled = <<>>)'
          BY <1>2, <3>1, <3>4, <4>5 DEF OneInv
        <5>5. OneInv'
          BY <4>4, <5>1, <5>2, <5>3, <5>4 DEF OneInv
        <5> QED
          BY <3>2, <5>5
    <3> QED
      BY <3>3, <3>4
  <2> QED
    BY <1>2, <2>1, <2>2 DEF Next
<1>3. Inv => OneText
  BY YieldedIsOne
<1> QED
  BY <1>1, <1>2, <1>3, PTL DEF Spec

-----------------------------------------------------------------------------
(* The fingerprint *)

\* Until the fingerprint is taken the shingler has been written all that Read
\* has returned; from then on it has emitted the shingles of what that was.
FingerInv ==
  /\ finalized \in BOOLEAN
  /\ doc.hashed /\ ~finalized => Written(sh, got)
  /\ finalized => sh.emitted = RunsOf(Words(hashed))
  /\ IsList(sh.emitted) /\ Hashed(sh.emitted, minHash, simHash)

IInv == TextTypes /\ FingerInv

LEMMA InitFinger == Init => IInv
<1> SUFFICES ASSUME Init PROVE IInv
  OBVIOUS
<1>1. TextTypes
  BY InitTypes DEF Init
<1>2. /\ IsShingler(sh) /\ sh.leftover = <<>> /\ sh.cur = NoWord /\ sh.recent = [i \in 0..K - 1 |-> NoWord]
      /\ sh.pos = 0 /\ sh.total = 0 /\ sh.prefix = <<>> /\ sh.emitted = <<>> /\ sh.flushed = FALSE
  BY DEF Init, InitHashers, IsShingler, ShinglerFields
<1>3. Written(sh, <<>>)
  BY <1>2, NothingWritten
<1>4. got = <<>> /\ finalized = FALSE /\ minHash = [s \in Seeds |-> {}] /\ simHash = [b \in HashBits |-> 0]
  BY DEF Init, InitText, InitHashers
<1> QED
  BY <1>1, <1>2, <1>3, <1>4, HashesNone, EmptyIsList DEF IInv, FingerInv

LEMMA ShinglesHashed ==
  ASSUME HashIsNumber, FingerInv, NEW w, Grows(sh.emitted, w.emitted), OnShingles(w)
  PROVE  sh' = w /\ IsList(sh'.emitted) /\ Hashed(sh'.emitted, minHash', simHash')
<1> DEFINE e == sh.emitted
           f == w.emitted
           n == SubSeq(f, Len(e) + 1, Len(f))
<1>1. sh' = w /\ minHash' = NextMins(minHash, n) /\ simHash' = NextSums(simHash, n)
  BY DEF OnShingles, New, NextMins, NextSums
<1>2. Grows(e, f) /\ Hashed(e, minHash, simHash)
  BY DEF FingerInv
<1>3. Hashed(f, NextMins(minHash, n), NextSums(simHash, n))
  <2> HIDE DEF e, f
  <2> QED
    BY <1>2, HashesNext DEF n
<1> HIDE DEF n
<1>4. IsList(f)
  BY <1>2 DEF Grows
<1> QED
  BY <1>1, <1>3, <1>4

LEMMA ChunkHashed ==
  ASSUME HashIsNumber, IInv, doc.hashed, Grows(got, got'), UNCHANGED doc, HashChunk
  PROVE  FingerInv'
<1> DEFINE chunk == SubSeq(got', Len(got) + 1, Len(got'))
           w == IF finalized \/ chunk = <<>> THEN sh ELSE WriteChunk(sh, chunk)
<1>1. IsList(chunk) /\ got' = got \o chunk /\ IsList(got)
  BY GrowsJoin DEF Grows
<1>2. OnShingles(w) /\ UNCHANGED <<finalized, hashed>>
  BY DEF HashChunk
<1> HIDE DEF chunk
<1>3. /\ finalized \in BOOLEAN /\ IsList(sh.emitted) /\ (~finalized => Written(sh, got))
      /\ finalized => sh.emitted = RunsOf(Words(hashed))
  BY DEF IInv, FingerInv
<1>4. Grows(sh.emitted, w.emitted) /\ (~finalized => Written(w, got')) /\ (finalized => w = sh)
  <2>1. CASE finalized
    BY <1>3, <2>1, GrowsSame
  <2>2. CASE ~finalized /\ chunk = <<>>
    <3>1. got' = got
      BY <1>1, <2>2, ConcatEmptySeq DEF IsList
    <3> QED
      BY <1>3, <2>2, <3>1, GrowsSame
  <2>3. CASE ~finalized /\ chunk # <<>>
    <3>1. Written(WriteChunk(sh, chunk), got \o chunk) /\ Grows(sh.emitted, WriteChunk(sh, chunk).emitted)
      BY <1>1, <1>3, <2>3, WriteWritten
    <3> QED
      BY <1>1, <2>3, <3>1
  <2> QED
    BY <2>1, <2>2, <2>3
<1> HIDE DEF w
<1>5. sh' = w /\ IsList(sh'.emitted) /\ Hashed(sh'.emitted, minHash', simHash')
  BY <1>2, <1>4, ShinglesHashed DEF IInv
<1> QED
  BY <1>2, <1>3, <1>4, <1>5 DEF FingerInv

LEMMA ResultHashed ==
  ASSUME HashIsNumber, IInv, Result
  PROVE  IInv'
<1> DEFINE w == IF finalized THEN sh ELSE Flush(sh)
<1>1. /\ doc.hashed /\ OnShingles(w) /\ finalized' = TRUE /\ (hashed' = IF finalized THEN hashed ELSE got)
      /\ UNCHANGED textvars
  BY DEF Result
<1>2. /\ finalized \in BOOLEAN /\ IsList(sh.emitted) /\ (~finalized => Written(sh, got))
      /\ finalized => sh.emitted = RunsOf(Words(hashed))
  BY <1>1 DEF IInv, FingerInv
<1>3. Grows(sh.emitted, w.emitted) /\ w.emitted = RunsOf(Words(hashed'))
  <2>1. CASE finalized
    BY <1>1, <1>2, <2>1, GrowsSame
  <2>2. CASE ~finalized
    <3>1. Flush(sh).emitted = RunsOf(Words(got)) /\ Grows(sh.emitted, Flush(sh).emitted)
      BY <1>2, <2>2, FlushEmits
    <3> QED
      BY <1>1, <2>2, <3>1
  <2> QED
    BY <2>1, <2>2
<1> HIDE DEF w
<1>4. sh' = w /\ IsList(sh'.emitted) /\ Hashed(sh'.emitted, minHash', simHash')
  BY <1>1, <1>3, ShinglesHashed DEF IInv
<1>5. FingerInv'
  BY <1>1, <1>3, <1>4 DEF FingerInv
<1>6. TextTypes'
  BY <1>1 DEF IInv, TextTypes, textvars, Html
<1> QED
  BY <1>5, <1>6 DEF IInv

LEMMA UnhashedStep ==
  ASSUME IInv, UNCHANGED <<hashvars, doc>>, doc.hashed => UNCHANGED got
  PROVE  FingerInv'
BY DEF IInv, FingerInv, hashvars

LEMMA StepFinger ==
  ASSUME HashIsNumber, IInv, [Next]_vars
  PROVE  IInv'
<1>1. ASSUME Read PROVE IInv'
  <2>1. TextTypes' /\ Grows(got, got') /\ UNCHANGED doc
    <3>1. ReadText /\ TextTypes
      BY <1>1 DEF Read, IInv
    <3>2. UNCHANGED doc
      BY <3>1 DEF ReadText, CallRead, Copy, SeeCancel, ReadEnd, ReadFb2, ReadFb3, ReadHtml, HtmlToken, HtmlStop,
                  HtmlFull, ReadPml, ReadLrf, Return, Scan
    <3> QED
      BY <3>1, <3>2, ReadTypes
  <2>2. CASE doc.hashed
    <3>1. HashChunk
      BY <1>1, <2>2 DEF Read
    <3>2. FingerInv'
      BY <2>1, <2>2, <3>1, ChunkHashed
    <3> QED
      BY <2>1, <3>2 DEF IInv
  <2>3. CASE ~doc.hashed
    <3>1. UNCHANGED hashvars
      BY <1>1, <2>3 DEF Read
    <3>2. FingerInv'
      BY <2>1, <2>3, <3>1, UnhashedStep
    <3> QED
      BY <2>1, <3>2 DEF IInv
  <2> QED
    BY <2>2, <2>3
<1>2. ASSUME Cancel /\ UNCHANGED hashvars PROVE IInv'
  <2>1. UNCHANGED <<doc, src, reader, room, filled, got, hashvars>>
    BY <1>2 DEF Cancel
  <2>2. FingerInv'
    BY <2>1, UnhashedStep
  <2>3. TextTypes'
    BY <2>1 DEF IInv, TextTypes, Html
  <2> QED
    BY <2>2, <2>3 DEF IInv
<1>3. ASSUME SearchIsbns \/ UNCHANGED vars PROVE IInv'
  <2>1. UNCHANGED <<doc, src, reader, room, filled, got, hashvars>>
    BY <1>3 DEF SearchIsbns, vars, textvars
  <2>2. FingerInv'
    BY <2>1, UnhashedStep
  <2>3. TextTypes'
    BY <2>1 DEF IInv, TextTypes, Html
  <2> QED
    BY <2>2, <2>3 DEF IInv
<1> QED
  BY <1>1, <1>2, <1>3, ResultHashed DEF Next

LEMMA FingerExact == IInv => FingerprintExact
<1> SUFFICES ASSUME IInv, finalized PROVE FingerprintOf(RunsOf(Words(hashed)))
  BY DEF FingerprintExact
<1> DEFINE all == RunsOf(Words(hashed))
<1>1. sh.emitted = all /\ IsList(all) /\ Hashed(all, minHash, simHash)
  BY DEF IInv, FingerInv
<1> HIDE DEF all
<1>2. ASSUME NEW s \in Seeds
      PROVE  minHash[s] = IF all = <<>> THEN {} ELSE {Min({Hash(x, s) : x \in ToSet(all)})}
  <2>1. minHash[s] = LeastOf(HashesOf(all, s))
    BY <1>1 DEF Hashed
  <2>2. all = <<>> <=> ToSet(all) = {}
    <3>1. all \in Seq(ToSet(all))
      BY <1>1 DEF IsList
    <3>2. all = <<>> <=> Of(all) = {}
      BY <3>1, OfEmpty
    <3> QED
      BY <3>1, <3>2, OfIsToSet
  <2>3. HashesOf(all, s) = {} <=> ToSet(all) = {}
    BY DEF HashesOf
  <2> QED
    BY <2>1, <2>2, <2>3 DEF LeastOf, HashesOf
<1>3. ASSUME NEW b \in HashBits
      PROVE  simHash[b] + Len(all) = 2 * Cardinality({i \in DOMAIN all : BitSet(all[i], b)})
  <2>1. simHash[b] = Votes(all, b)
    BY <1>1 DEF Hashed
  <2>2. Votes(all, b) + Len(all) = 2 * Cardinality(Having(all, b))
    BY <1>1, VoteCount
  <2> QED
    BY <2>1, <2>2 DEF Having
<1>4. FingerprintOf(all)
  BY <1>1, <1>2, <1>3 DEF FingerprintOf
<1> QED
  BY <1>4 DEF all

(* The fingerprint taken of a text is that of its words: every run of K of them
   in order, or all of them when they are fewer, the least hash of these for
   every seed and the votes of each for every bit, whatever the sizes of the
   chunks Write was given and wherever they cut a character, a word or a run
   (wordShingler.Write, flushWord and Flush in tools/processor.go, onShingle in
   minhash.go and simhash.go).  A hash need only be a number. *)
THEOREM FingerprintsAreExact == ASSUME HashIsNumber PROVE Spec => []FingerprintExact
<1>1. Init => IInv
  BY InitFinger
<1>2. IInv /\ [Next]_vars => IInv'
  BY StepFinger
<1>3. IInv => FingerprintExact
  BY FingerExact
<1> QED
  BY <1>1, <1>2, <1>3, PTL DEF Spec
-----------------------------------------------------------------------------
(* Check digits *)

Weighing(u, s, w) == u = [k \in 0..Len(s) |-> IF k = 0 THEN 0 ELSE u[k - 1] + w[k] * s[k]]

\* The summands of a weighted sum are t[1], t[2], ...
Summands(s, w, t, n) == Len(s) = n /\ \A k \in 1..n : t[k] \in Int /\ w[k] * s[k] = t[k]
Adding(u, t, n) == u[0] = 0 /\ \A k \in 1..n : u[k - 1] \in Int /\ u[k] = u[k - 1] + t[k]

LEMMA WeightedSteps ==
  ASSUME NEW s, NEW w, NEW t, NEW n \in Nat, Summands(s, w, t, n)
  PROVE  \E u : Adding(u, t, n) /\ Weighted(s, w) = u[n]
<1>0. Len(s) = n /\ \A k \in 1..n : t[k] \in Int /\ w[k] * s[k] = t[k]
  BY DEF Summands
<1> DEFINE F == [p \in Nat \X Int |-> IF p[1] \in 1..n THEN p[2] + t[p[1]] ELSE 0]
<1>1. F \in [Nat \X Int -> Int] /\ \A k \in 1..n, x \in Int : F[<<k, x>>] = x + t[k]
  <2>1. \A p \in Nat \X Int : (IF p[1] \in 1..n THEN p[2] + t[p[1]] ELSE 0) \in Int
    BY <1>0
  <2> QED
    BY <2>1
<1> HIDE DEF F
<1>2. \E f \in [0..n -> Int] : f[0] = 0 /\ \A k \in 1..n : f[k] = F[<<k, f[k - 1]>>]
  <2> DEFINE S == Int
             a == 0
  <2>1. a \in S /\ F \in [Nat \X S -> S]
    BY <1>1
  <2> HIDE DEF a, S
  <2>2. HasRun(S, a, F, n)
    BY <2>1, Iterates
  <2> QED
    BY <2>2 DEF HasRun, Repeats, a, S
<1>3. PICK f \in [0..n -> Int] : f[0] = 0 /\ \A k \in 1..n : f[k] = F[<<k, f[k - 1]>>]
  BY <1>2
<1>4. \A k \in 1..n : k \in 0..n /\ k - 1 \in 0..n
  OBVIOUS
<1>5. ASSUME NEW k \in 1..n PROVE f[k] = f[k - 1] + t[k]
  <2>1. f[k - 1] \in Int
    BY <1>4
  <2> QED
    BY <1>1, <1>3, <2>1
<1>6. Weighing(f, s, w)
  <2>1. \A k \in 0..n : f[k] = IF k = 0 THEN 0 ELSE f[k - 1] + w[k] * s[k]
    <3> TAKE k \in 0..n
    <3>1. CASE k = 0
      BY <1>3, <3>1
    <3>2. CASE k # 0
      <4>1. k \in 1..n
        BY <3>2
      <4> QED
        BY <1>0, <1>5, <3>2, <4>1
    <3> QED
      BY <3>1, <3>2
  <2>2. f = [k \in 0..n |-> f[k]]
    OBVIOUS
  <2> QED
    BY <1>0, <2>1, <2>2 DEF Weighing
<1>7. PICK u : Weighing(u, s, w) /\ Weighted(s, w) = u[n]
  <2>1. Weighted(s, w) = (CHOOSE u : Weighing(u, s, w))[n]
    BY <1>0 DEF Weighted, Weighing
  <2> QED
    BY <1>6, <2>1
<1>8. \A k \in 0..n : u[k] = IF k = 0 THEN 0 ELSE u[k - 1] + w[k] * s[k]
  BY <1>0, <1>7 DEF Weighing
<1>9. u[0] = 0 /\ \A k \in 1..n : u[k] = u[k - 1] + t[k]
  <2>1. 0 \in 0..n
    OBVIOUS
  <2>2. ASSUME NEW k \in 1..n PROVE u[k] = u[k - 1] + t[k]
    <3>1. k \in 0..n /\ k # 0
      OBVIOUS
    <3>2. u[k] = u[k - 1] + w[k] * s[k]
      BY <1>8, <3>1
    <3> QED
      BY <1>0, <3>2
  <2> QED
    BY <1>8, <2>1, <2>2
<1>10. \A k \in 0..n : u[k] \in Int
  <2> DEFINE S == {k \in Nat : k <= n => u[k] \in Int}
  <2>1. 0 \in S
    BY <1>9
  <2>2. \A k \in Nat : k \in S => k + 1 \in S
    <3> SUFFICES ASSUME NEW k \in Nat, k + 1 <= n, u[k] \in Int PROVE u[k + 1] \in Int
      OBVIOUS
    <3>1. k + 1 \in 1..n /\ (k + 1) - 1 = k
      OBVIOUS
    <3>2. u[k + 1] = u[k] + t[k + 1]
      BY <1>9, <3>1
    <3>3. t[k + 1] \in Int
      BY <1>0, <3>1
    <3> QED
      BY <3>2, <3>3
  <2> HIDE DEF S
  <2>3. Nat \subseteq S
    BY <2>1, <2>2, AllNaturals
  <2> QED
    BY <2>3 DEF S
<1> QED
  BY <1>4, <1>7, <1>9, <1>10 DEF Adding

LEMMA Products == \A x, y \in Int : x * y \in Int
OBVIOUS

LEMMA WeightedSum ==
  ASSUME NEW s, NEW w, NEW n \in Nat, Len(s) = n, \A k \in 1..n : s[k] \in Int /\ w[k] \in Int
  PROVE  /\ \E u : Adding(u, [k \in 1..n |-> w[k] * s[k]], n) /\ Weighted(s, w) = u[n]
         /\ Weighted(s, w) \in Int
<1> DEFINE t == [k \in 1..n |-> w[k] * s[k]]
<1>1. ASSUME NEW k \in 1..n PROVE t[k] \in Int /\ w[k] * s[k] = t[k]
  BY Products
<1> HIDE DEF t
<1>2. Summands(s, w, t, n)
  BY <1>1 DEF Summands
<1>3. PICK u : Adding(u, t, n) /\ Weighted(s, w) = u[n]
  BY <1>2, WeightedSteps
<1>4. u[n] \in Int
  <2>1. CASE n = 0
    BY <1>3, <2>1 DEF Adding
  <2>2. CASE n # 0
    <3>1. n \in 1..n
      BY <2>2
    <3> QED
      BY <1>1, <1>3, <3>1 DEF Adding
  <2> QED
    BY <2>1, <2>2
<1> QED
  BY <1>3, <1>4 DEF t

\* One digit more.
LEMMA WeightedAppend ==
  ASSUME NEW s, NEW w, NEW n \in Nat, IsList(s), Len(s) = n, NEW x \in Int,
         \A k \in 1..n : s[k] \in Int, \A k \in 1..n + 1 : w[k] \in Int
  PROVE  Weighted(Append(s, x), w) = Weighted(s, w) + w[n + 1] * x
<1> DEFINE r == Append(s, x)
           a == [k \in 1..n |-> w[k] * s[k]]
           b == [k \in 1..n + 1 |-> w[k] * r[k]]
<1>1. Len(r) = n + 1 /\ r[n + 1] = x /\ \A k \in 1..n : r[k] = s[k]
  BY AppendPoints
<1> HIDE DEF r
<1>2. n + 1 \in Nat /\ n + 1 \in 1..n + 1 /\ \A k \in 1..n + 1 : r[k] \in Int /\ w[k] \in Int
  BY <1>1
<1>3. PICK u : Adding(u, a, n) /\ Weighted(s, w) = u[n]
  <2>1. \A k \in 1..n : w[k] \in Int
    OBVIOUS
  <2> QED
    BY <2>1, WeightedSum
<1>4. PICK v : Adding(v, b, n + 1) /\ Weighted(r, w) = v[n + 1]
  <2> DEFINE m == n + 1
  <2>1. m \in Nat /\ Len(r) = m /\ \A k \in 1..m : r[k] \in Int /\ w[k] \in Int
    BY <1>1, <1>2
  <2>2. b = [k \in 1..m |-> w[k] * r[k]]
    OBVIOUS
  <2> HIDE DEF m, b
  <2>3. \E v : Adding(v, b, m) /\ Weighted(r, w) = v[m]
    BY <2>1, <2>2, WeightedSum
  <2> QED
    BY <2>3 DEF m
<1>5. (\A k \in 1..n : b[k] = a[k]) /\ b[n + 1] = w[n + 1] * x
  BY <1>1, <1>2
<1> HIDE DEF a, b
<1>6. \A k \in 0..n : u[k] = v[k]
  <2>1. u[0] = v[0]
    BY <1>3, <1>4 DEF Adding
  <2>2. \A k \in 1..n : u[k - 1] = v[k - 1] => u[k] = v[k]
    BY <1>3, <1>4, <1>5 DEF Adding
  <2> QED
    BY <2>1, <2>2, RunsAgree
<1>7. v[n + 1] = v[n] + w[n + 1] * x
  <2>1. (n + 1) - 1 = n
    OBVIOUS
  <2> QED
    BY <1>2, <1>4, <1>5, <2>1 DEF Adding
<1> QED
  BY <1>3, <1>4, <1>6, <1>7 DEF r

\* One digit changed.
LEMMA WeightedChange ==
  ASSUME NEW s, NEW w, NEW n \in Nat, IsList(s), Len(s) = n,
         \A k \in 1..n : s[k] \in Int /\ w[k] \in Int, NEW i \in 1..n, NEW d \in Int
  PROVE  Weighted([s EXCEPT ![i] = d], w) = Weighted(s, w) + (w[i] * d - w[i] * s[i])
<1> DEFINE r == [s EXCEPT ![i] = d]
           a == [k \in 1..n |-> w[k] * s[k]]
           b == [k \in 1..n |-> w[k] * r[k]]
           e == w[i] * d - w[i] * s[i]
<1>1. Len(r) = n /\ r[i] = d /\ \A k \in 1..n : k # i => r[k] = s[k]
  <2>1. s = [k \in 1..n |-> s[k]]
    BY ListFacts
  <2>2. r = [k \in 1..n |-> IF k = i THEN d ELSE s[k]]
    BY <2>1
  <2>3. \A k \in 1..n : r[k] = IF k = i THEN d ELSE s[k]
    BY <2>2
  <2>4. r = [k \in 1..n |-> r[k]]
    BY <2>2
  <2> HIDE DEF r
  <2>5. Len(r) = n
    BY <2>4, FunctionIsList
  <2> QED
    BY <2>3, <2>5
<1> HIDE DEF r
<1>2. \A k \in 1..n : r[k] \in Int /\ w[k] \in Int
  BY <1>1
<1>3. PICK u : Adding(u, a, n) /\ Weighted(s, w) = u[n]
  BY WeightedSum
<1>4. PICK v : Adding(v, b, n) /\ Weighted(r, w) = v[n]
  BY <1>1, <1>2, WeightedSum
<1>5. e \in Int /\ b[i] = a[i] + e /\ \A k \in 1..n : a[k] \in Int /\ (k # i => b[k] = a[k])
  <2>1. b[i] = w[i] * d /\ a[i] = w[i] * s[i]
    BY <1>1
  <2>2. w[i] * d \in Int /\ w[i] * s[i] \in Int
    BY Products
  <2> DEFINE p == w[i] * d
             q == w[i] * s[i]
  <2> HIDE DEF p, q
  <2>3. p - q \in Int /\ p = q + (p - q)
    BY <2>2 DEF p, q
  <2>4. \A k \in 1..n : a[k] \in Int
    BY Products
  <2>5. \A k \in 1..n : k # i => b[k] = a[k]
    BY <1>1
  <2> QED
    BY <2>1, <2>3, <2>4, <2>5 DEF p, q
<1> HIDE DEF a, b, e
<1>6. 0..n \subseteq {k \in 0..n : v[k] = u[k] + IF k < i THEN 0 ELSE e}
  <2> DEFINE S == {k \in 0..n : v[k] = u[k] + IF k < i THEN 0 ELSE e}
  <2>1. 0 \in S
    BY <1>3, <1>4 DEF Adding
  <2>2. ASSUME NEW k \in 1..n, k - 1 \in S PROVE k \in S
    <3>1. /\ u[k - 1] \in Int /\ u[k] = u[k - 1] + a[k] /\ v[k] = v[k - 1] + b[k]
          /\ v[k - 1] = u[k - 1] + IF k - 1 < i THEN 0 ELSE e
      BY <1>3, <1>4, <2>2 DEF Adding
    <3>2. CASE k = i
      BY <1>5, <3>1, <3>2
    <3>3. CASE k < i
      BY <1>5, <3>1, <3>3
    <3>4. CASE k > i
      BY <1>5, <3>1, <3>4
    <3> QED
      BY <3>2, <3>3, <3>4
  <2> HIDE DEF S
  <2>3. 0..n \subseteq S
    BY <2>1, <2>2, UpTo
  <2> QED
    BY <2>3 DEF S
<1>7. v[n] = u[n] + e
  BY <1>6
<1> QED
  BY <1>3, <1>4, <1>7 DEF r, e

LEMMA Elevens == \A m \in Int : m % 11 = 0 <=> \E q \in Int : m = 11 * q
OBVIOUS

LEMMA Tens == \A m \in Int : m % 10 = 0 <=> \E q \in Int : m = 10 * q
OBVIOUS

LEMMA Near11 ==
  ASSUME NEW m \in Int, m % 11 = 0, NEW c \in 1..10, NEW x \in 0..10, NEW y \in 0..10, x # y
  PROVE  (m + (c * y - c * x)) % 11 # 0
<1>1. PICK q \in Int : m = 11 * q
  BY Elevens
<1>2. CASE c \in 1..2
  BY <1>2
<1>3. CASE c \in 3..4
  BY <1>3
<1>4. CASE c \in 5..6
  BY <1>4
<1>5. CASE c \in 7..8
  BY <1>5
<1>6. CASE c \in 9..10
  BY <1>6
<1> QED
  BY <1>2, <1>3, <1>4, <1>5, <1>6

LEMMA Near10 ==
  ASSUME NEW m \in Int, m % 10 = 0, NEW c \in {1, 3}, NEW x \in 0..9, NEW y \in 0..9, x # y
  PROVE  (m + (c * y - c * x)) % 10 # 0
<1>1. CASE c = 1
  BY <1>1
<1>2. CASE c = 3
  BY <1>2
<1> QED
  BY <1>1, <1>2

LEMMA Completes11 ==
  ASSUME NEW m \in Int
  PROVE  /\ (11 - (m % 11)) % 11 \in 0..10
         /\ (m + 1 * ((11 - (m % 11)) % 11)) % 11 = 0
         /\ \A x \in 0..10 : (m + 1 * x) % 11 = 0 => x = (11 - (m % 11)) % 11
OBVIOUS

LEMMA Completes10 ==
  ASSUME NEW m \in Int
  PROVE  /\ (10 - (m % 10)) % 10 \in 0..9
         /\ (m + 1 * ((10 - (m % 10)) % 10)) % 10 = 0
         /\ \A x \in 0..9 : (m + 1 * x) % 10 = 0 => x = (10 - (m % 10)) % 10
OBVIOUS

LEMMA WeightPoints ==
  /\ \A k \in 1..10 : Weights10[k] = 11 - k /\ Weights10[k] \in 1..10 /\ Weights10[k] \in Int
  /\ \A k \in 1..13 : Weights13[k] \in {1, 3} /\ Weights13[k] \in Int
  /\ Weights10[9 + 1] = 1 /\ Weights13[12 + 1] = 1
<1>1. \A k \in 1..10 : Weights10[k] = 11 - k
  BY DEF Weights10
<1>2. \A k \in 1..13 : Weights13[k] = IF k % 2 = 1 THEN 1 ELSE 3
  BY DEF Weights13
<1>3. Weights13[12 + 1] = 1
  BY <1>2
<1>4. Weights10[9 + 1] = 1
  BY <1>1
<1> QED
  BY <1>1, <1>2, <1>3, <1>4

\* What Digital says, digit by digit.
Tenfold(d) == Len(d) = 10 /\ (\A i \in 1..9 : d[i] \in 0..9) /\ d[10] \in 0..10
Thirteen(d) == Len(d) = 13 /\ \A i \in 1..13 : d[i] \in 0..9
Bookland(d) == d[1] = 9 /\ d[2] = 7 /\ d[3] \in {8, 9}

LEMMA ListDomain ==
  ASSUME NEW s, IsList(s)
  PROVE  Len(s) \in Nat /\ DOMAIN s = 1..Len(s)
BY ListFacts

LEMMA DigitalPoints ==
  ASSUME NEW d, IsList(d)
  PROVE  Digital(d) <=> Tenfold(d) \/ Thirteen(d)
<1>1. Len(d) \in Nat /\ DOMAIN d = 1..Len(d)
  BY ListDomain
<1>2. ASSUME Digital(d) PROVE Tenfold(d) \/ Thirteen(d)
  <2>1. CASE Len(d) = 10
    BY <1>1, <1>2, <2>1 DEF Digital, Tenfold, Decimal, LetterX
  <2>2. CASE Len(d) = 13
    BY <1>1, <1>2, <2>2 DEF Digital, Thirteen, Decimal
  <2> QED
    BY <1>2, <2>1, <2>2 DEF Digital
<1>3. ASSUME Tenfold(d) PROVE Digital(d)
  BY <1>1, <1>3 DEF Digital, Tenfold, Decimal, LetterX
<1>4. ASSUME Thirteen(d) PROVE Digital(d)
  BY <1>1, <1>4 DEF Digital, Thirteen, Decimal
<1> QED
  BY <1>2, <1>3, <1>4

LEMMA FirstThree ==
  ASSUME NEW d, IsList(d), Len(d) >= 3
  PROVE  SubSeq(d, 1, 3) \in {<<9, 7, 8>>, <<9, 7, 9>>} <=> Bookland(d)
<1> DEFINE p == SubSeq(d, 1, 3)
<1>1. p = [k \in 1..3 |-> d[k]]
  <2>1. Len(p) = 3 /\ IsList(p)
    BY PieceList
  <2>2. \A k \in 1..3 : p[k] = d[k]
    BY <2>1, PiecePoints
  <2> QED
    BY <2>1, <2>2, ListFacts
<1> HIDE DEF p
<1>2. p = <<d[1], d[2], d[3]>>
  BY <1>1
<1> QED
  BY <1>2 DEF Bookland, p

LEMMA ValidPoints ==
  ASSUME NEW d, IsList(d)
  PROVE  Valid(d) <=> \/ Tenfold(d) /\ Weighted(d, Weights10) % 11 = 0
                      \/ Thirteen(d) /\ Bookland(d) /\ Weighted(d, Weights13) % 10 = 0
<1>1. Digital(d) <=> Tenfold(d) \/ Thirteen(d)
  BY DigitalPoints
<1>2. CASE Tenfold(d)
  BY <1>1, <1>2 DEF Valid, ValidISBN10, Sum10, Tenfold, Thirteen
<1>3. CASE Thirteen(d)
  <2>1. Len(d) = 13 /\ Len(d) >= 3 /\ ~Tenfold(d) /\ Digital(d)
    BY <1>1, <1>3 DEF Tenfold, Thirteen
  <2>2. ValidISBN13(d) <=> Bookland(d) /\ Weighted(d, Weights13) % 10 = 0
    BY <2>1, FirstThree DEF ValidISBN13, Sum13
  <2>3. Valid(d) <=> ValidISBN13(d)
    BY <2>1 DEF Valid
  <2> QED
    BY <1>3, <2>1, <2>2, <2>3
<1> QED
  BY <1>1, <1>2, <1>3 DEF Valid

\* The places of a list in which one entry is changed.
LEMMA ChangePoints ==
  ASSUME NEW s, NEW i, NEW d, IsList(s), i \in 1..Len(s)
  PROVE  /\ IsList([s EXCEPT ![i] = d]) /\ Len([s EXCEPT ![i] = d]) = Len(s)
         /\ [s EXCEPT ![i] = d][i] = d
         /\ \A k \in 1..Len(s) : k # i => [s EXCEPT ![i] = d][k] = s[k]
<1> DEFINE r == [s EXCEPT ![i] = d]
           n == Len(s)
<1>1. n \in Nat /\ s = [k \in 1..n |-> s[k]]
  BY ListFacts
<1>2. r = [k \in 1..n |-> IF k = i THEN d ELSE s[k]]
  BY <1>1
<1>3. \A k \in 1..n : r[k] = IF k = i THEN d ELSE s[k]
  BY <1>2
<1>4. r = [k \in 1..n |-> r[k]]
  BY <1>2
<1> HIDE DEF r
<1>5. IsList(r) /\ Len(r) = n
  BY <1>1, <1>4, FunctionIsList
<1> QED
  BY <1>3, <1>5 DEF r

\* A wrong digit in place of another changes the sum by less than a multiple.
LEMMA WrongDigit ==
  ASSUME NEW isbn, IsList(isbn), Valid(isbn), NEW i \in 1..Len(isbn), NEW d \in Decimal, d # isbn[i]
  PROVE  ~Valid([isbn EXCEPT ![i] = d])
<1> DEFINE r == [isbn EXCEPT ![i] = d]
<1>1. IsList(r) /\ Len(r) = Len(isbn)
  BY ChangePoints
<1>2. CASE Tenfold(isbn)
  <2>1. /\ Len(isbn) = 10 /\ i \in 1..10 /\ isbn[i] \in 0..10 /\ d \in 0..10 /\ d \in Int
        /\ \A k \in 1..10 : isbn[k] \in Int
    BY <1>2 DEF Tenfold, Decimal
  <2>2. Weighted(isbn, Weights10) % 11 = 0
    BY <1>2, ValidPoints DEF Tenfold, Thirteen
  <2>3. /\ Weighted(r, Weights10) = Weighted(isbn, Weights10) + (Weights10[i] * d - Weights10[i] * isbn[i])
        /\ Weighted(isbn, Weights10) \in Int
    <3> DEFINE n == 10
               w == Weights10
    <3>1. n \in Nat /\ Len(isbn) = n /\ i \in 1..n /\ \A k \in 1..n : isbn[k] \in Int /\ w[k] \in Int
      BY <2>1, WeightPoints
    <3> HIDE DEF n, w
    <3>2. Weighted(r, w) = Weighted(isbn, w) + (w[i] * d - w[i] * isbn[i])
      BY <2>1, <3>1, WeightedChange
    <3>3. Weighted(isbn, w) \in Int
      BY <3>1, WeightedSum
    <3> QED
      BY <3>2, <3>3 DEF w
  <2>4. Weights10[i] \in 1..10
    BY <2>1, WeightPoints
  <2>5. Weighted(r, Weights10) % 11 # 0
    BY <2>1, <2>2, <2>3, <2>4, Near11
  <2>6. ~Thirteen(r)
    BY <1>1, <2>1 DEF Thirteen
  <2> QED
    BY <1>1, <2>5, <2>6, ValidPoints
<1>3. CASE Thirteen(isbn)
  <2>1. /\ Len(isbn) = 13 /\ i \in 1..13 /\ isbn[i] \in 0..9 /\ d \in 0..9 /\ d \in Int
        /\ \A k \in 1..13 : isbn[k] \in Int
    BY <1>3 DEF Thirteen, Decimal
  <2>2. Weighted(isbn, Weights13) % 10 = 0
    BY <1>3, ValidPoints DEF Tenfold, Thirteen
  <2>3. /\ Weighted(r, Weights13) = Weighted(isbn, Weights13) + (Weights13[i] * d - Weights13[i] * isbn[i])
        /\ Weighted(isbn, Weights13) \in Int
    <3> DEFINE n == 13
               w == Weights13
    <3>1. n \in Nat /\ Len(isbn) = n /\ i \in 1..n /\ \A k \in 1..n : isbn[k] \in Int /\ w[k] \in Int
      BY <2>1, WeightPoints
    <3> HIDE DEF n, w
    <3>2. Weighted(r, w) = Weighted(isbn, w) + (w[i] * d - w[i] * isbn[i])
      BY <2>1, <3>1, WeightedChange
    <3>3. Weighted(isbn, w) \in Int
      BY <3>1, WeightedSum
    <3> QED
      BY <3>2, <3>3 DEF w
  <2>4. Weights13[i] \in {1, 3}
    BY <2>1, WeightPoints
  <2>5. Weighted(r, Weights13) % 10 # 0
    BY <2>1, <2>2, <2>3, <2>4, Near10
  <2>6. ~Tenfold(r)
    BY <1>1, <2>1 DEF Tenfold
  <2> QED
    BY <1>1, <2>5, <2>6, ValidPoints
<1> QED
  BY <1>2, <1>3, ValidPoints

\* The sum of the digits and a check digit, which weighs one.
LEMMA LastWeighs ==
  ASSUME NEW body, IsList(body), NEW n \in Nat, Len(body) = n, NEW w, w[n + 1] = 1, NEW x \in Int,
         \A k \in 1..n : body[k] \in Int, \A k \in 1..n + 1 : w[k] \in Int
  PROVE  /\ Weighted(body, w) \in Int
         /\ Weighted(Append(body, x), w) = Weighted(body, w) + 1 * x
<1>1. \A k \in 1..n : k \in 1..n + 1
  OBVIOUS
<1>2. Weighted(body, w) \in Int
  BY <1>1, WeightedSum
<1>3. Weighted(Append(body, x), w) = Weighted(body, w) + w[n + 1] * x
  BY WeightedAppend
<1> QED
  BY <1>2, <1>3

\* A list is all but its last entry, and that.
LEMMA LastApart ==
  ASSUME NEW s, IsList(s), NEW n \in Nat, Len(s) = n + 1, NEW body, IsList(body), Len(body) = n,
         \A k \in 1..n : body[k] = s[k]
  PROVE  s = Append(body, s[n + 1])
<1> DEFINE u == Append(body, s[n + 1])
<1>1. IsList(u) /\ Len(u) = Len(s) /\ u[n + 1] = s[n + 1] /\ \A k \in 1..n : u[k] = s[k]
  BY AppendPoints
<1> HIDE DEF u
<1>2. \A k \in 1..Len(s) : k \in 1..n \/ k = n + 1
  OBVIOUS
<1>3. \A k \in 1..Len(s) : s[k] = u[k]
  BY <1>1, <1>2
<1>4. s = u
  BY <1>1, <1>3, ListsEqual
<1> QED
  BY <1>4 DEF u

LEMMA AppendAt ==
  ASSUME NEW s, NEW x, IsList(s), NEW n, Len(s) = n
  PROVE  /\ IsList(Append(s, x)) /\ Len(Append(s, x)) = n + 1
         /\ Append(s, x)[n + 1] = x /\ \A k \in 1..n : Append(s, x)[k] = s[k]
<1>1. /\ IsList(Append(s, x)) /\ Len(Append(s, x)) = Len(s) + 1
      /\ Append(s, x)[Len(s) + 1] = x /\ \A k \in 1..Len(s) : Append(s, x)[k] = s[k]
    BY AppendPoints
<1> QED
  BY <1>1

\* The check digit makes an ISBN of its first digits, and is the only one that
\* does.
LEMMA Complete10 ==
  ASSUME NEW body, IsList(body), Len(body) = 9, \A k \in 1..9 : body[k] \in 0..9
  PROVE  /\ IsList(WithCheckDigit10(body)) /\ Len(WithCheckDigit10(body)) = 10 /\ Valid(WithCheckDigit10(body))
         /\ \A k \in 1..9 : WithCheckDigit10(body)[k] = body[k]
         /\ \A isbn : IsList(isbn) /\ Tenfold(isbn) /\ Valid(isbn) /\ (\A k \in 1..9 : body[k] = isbn[k])
                        => isbn = WithCheckDigit10(body)
<1> DEFINE c == CheckDigit10(body)
           m == Weighted(body, Weights10)
           t == WithCheckDigit10(body)
<1>1. \A x \in Int : m \in Int /\ Weighted(Append(body, x), Weights10) = m + 1 * x
  <2> DEFINE n == 9
             w == Weights10
  <2>1. /\ n \in Nat /\ Len(body) = n /\ w[n + 1] = 1 /\ (\A k \in 1..n : body[k] \in Int)
        /\ \A k \in 1..n + 1 : w[k] \in Int
    BY WeightPoints
  <2> HIDE DEF n, w
  <2>2. \A x \in Int : Weighted(body, w) \in Int /\ Weighted(Append(body, x), w) = Weighted(body, w) + 1 * x
    BY <2>1, LastWeighs
  <2> QED
    BY <2>2 DEF w
<1>2. m \in Int
  BY <1>1
<1>3. c = (11 - (m % 11)) % 11
  BY DEF CheckDigit10, Sum10
<1> HIDE DEF m
<1>4. c \in 0..10 /\ c \in Int /\ (m + 1 * c) % 11 = 0 /\ \A x \in 0..10 : (m + 1 * x) % 11 = 0 => x = c
  BY <1>2, <1>3, Completes11
<1> HIDE DEF c
<1>5. t = Append(body, c)
  BY DEF WithCheckDigit10, c
<1> HIDE DEF t
<1>6. IsList(t) /\ Len(t) = 10 /\ t[10] = c /\ \A k \in 1..9 : t[k] = body[k]
  <2>1. /\ IsList(Append(body, c)) /\ Len(Append(body, c)) = 9 + 1
        /\ Append(body, c)[9 + 1] = c /\ \A k \in 1..9 : Append(body, c)[k] = body[k]
    <3> DEFINE n == 9
    <3>1. Len(body) = n
      OBVIOUS
    <3> HIDE DEF n
    <3>2. /\ IsList(Append(body, c)) /\ Len(Append(body, c)) = n + 1
          /\ Append(body, c)[n + 1] = c /\ \A k \in 1..n : Append(body, c)[k] = body[k]
      BY <3>1, AppendAt
    <3> QED
      BY <3>2 DEF n
  <2>2. 9 + 1 = 10
    OBVIOUS
  <2> QED
    BY <1>5, <2>1, <2>2
<1>7. Tenfold(t)
  BY <1>4, <1>6 DEF Tenfold
<1>8. Weighted(t, Weights10) % 11 = 0
  BY <1>1, <1>4, <1>5
<1>9. Valid(t)
  BY <1>6, <1>7, <1>8, ValidPoints
<1>10. ASSUME NEW isbn, IsList(isbn), Tenfold(isbn), Valid(isbn), \A k \in 1..9 : body[k] = isbn[k]
       PROVE  isbn = t
  <2>1. Len(isbn) = 10 /\ isbn[10] \in 0..10 /\ isbn[10] \in Int
    BY <1>10 DEF Tenfold
  <2>2. isbn = Append(body, isbn[10])
    <3> DEFINE n == 9
    <3>1. n \in Nat /\ Len(isbn) = n + 1 /\ Len(body) = n /\ (\A k \in 1..n : body[k] = isbn[k]) /\ n + 1 = 10
      BY <1>10, <2>1
    <3> HIDE DEF n
    <3>2. isbn = Append(body, isbn[n + 1])
      BY <1>10, <3>1, LastApart
    <3> QED
      BY <3>1, <3>2
  <2>3. Weighted(isbn, Weights10) % 11 = 0
    BY <1>10, <2>1, ValidPoints DEF Thirteen
  <2>4. Weighted(isbn, Weights10) = m + 1 * isbn[10]
    BY <1>1, <2>1, <2>2
  <2>5. isbn[10] = c
    BY <1>4, <2>1, <2>3, <2>4
  <2> QED
    BY <1>5, <2>2, <2>5
<1> QED
  BY <1>6, <1>9, <1>10 DEF t

LEMMA Complete13 ==
  ASSUME NEW body, IsList(body), Len(body) = 12, Bookland(body), \A k \in 1..12 : body[k] \in 0..9
  PROVE  /\ IsList(WithCheckDigit13(body)) /\ Len(WithCheckDigit13(body)) = 13 /\ Valid(WithCheckDigit13(body))
         /\ \A k \in 1..12 : WithCheckDigit13(body)[k] = body[k]
         /\ \A isbn : IsList(isbn) /\ Thirteen(isbn) /\ Valid(isbn) /\ (\A k \in 1..12 : body[k] = isbn[k])
                        => isbn = WithCheckDigit13(body)
<1> DEFINE c == CheckDigit13(body)
           m == Weighted(body, Weights13)
           t == WithCheckDigit13(body)
<1>1. \A x \in Int : m \in Int /\ Weighted(Append(body, x), Weights13) = m + 1 * x
  <2> DEFINE n == 12
             w == Weights13
  <2>1. /\ n \in Nat /\ Len(body) = n /\ w[n + 1] = 1 /\ (\A k \in 1..n : body[k] \in Int)
        /\ \A k \in 1..n + 1 : w[k] \in Int
    BY WeightPoints
  <2> HIDE DEF n, w
  <2>2. \A x \in Int : Weighted(body, w) \in Int /\ Weighted(Append(body, x), w) = Weighted(body, w) + 1 * x
    BY <2>1, LastWeighs
  <2> QED
    BY <2>2 DEF w
<1>2. m \in Int
  BY <1>1
<1>3. c = (10 - (m % 10)) % 10
  BY DEF CheckDigit13, Sum13
<1> HIDE DEF m
<1>4. c \in 0..9 /\ c \in Int /\ (m + 1 * c) % 10 = 0 /\ \A x \in 0..9 : (m + 1 * x) % 10 = 0 => x = c
  BY <1>2, <1>3, Completes10
<1> HIDE DEF c
<1>5. t = Append(body, c)
  BY DEF WithCheckDigit13, c
<1> HIDE DEF t
<1>6. IsList(t) /\ Len(t) = 13 /\ t[13] = c /\ \A k \in 1..12 : t[k] = body[k]
  <2>1. /\ IsList(Append(body, c)) /\ Len(Append(body, c)) = 12 + 1
        /\ Append(body, c)[12 + 1] = c /\ \A k \in 1..12 : Append(body, c)[k] = body[k]
    <3> DEFINE n == 12
    <3>1. Len(body) = n
      OBVIOUS
    <3> HIDE DEF n
    <3>2. /\ IsList(Append(body, c)) /\ Len(Append(body, c)) = n + 1
          /\ Append(body, c)[n + 1] = c /\ \A k \in 1..n : Append(body, c)[k] = body[k]
      BY <3>1, AppendAt
    <3> QED
      BY <3>2 DEF n
  <2>2. 12 + 1 = 13
    OBVIOUS
  <2> QED
    BY <1>5, <2>1, <2>2
<1>7. Thirteen(t) /\ Bookland(t)
  <2>1. \A k \in 1..13 : k \in 1..12 \/ k = 13
    OBVIOUS
  <2>2. Thirteen(t)
    BY <1>4, <1>6, <2>1 DEF Thirteen
  <2> QED
    BY <1>6, <2>2 DEF Bookland
<1>8. Weighted(t, Weights13) % 10 = 0
  BY <1>1, <1>4, <1>5
<1>9. Valid(t)
  BY <1>6, <1>7, <1>8, ValidPoints
<1>10. ASSUME NEW isbn, IsList(isbn), Thirteen(isbn), Valid(isbn), \A k \in 1..12 : body[k] = isbn[k]
       PROVE  isbn = t
  <2>1. Len(isbn) = 13 /\ isbn[13] \in 0..9 /\ isbn[13] \in Int
    BY <1>10 DEF Thirteen
  <2>2. isbn = Append(body, isbn[13])
    <3> DEFINE n == 12
    <3>1. n \in Nat /\ Len(isbn) = n + 1 /\ Len(body) = n /\ (\A k \in 1..n : body[k] = isbn[k]) /\ n + 1 = 13
      BY <1>10, <2>1
    <3> HIDE DEF n
    <3>2. isbn = Append(body, isbn[n + 1])
      BY <1>10, <3>1, LastApart
    <3> QED
      BY <3>1, <3>2
  <2>3. Weighted(isbn, Weights13) % 10 = 0
    BY <1>10, <2>1, ValidPoints DEF Tenfold
  <2>4. Weighted(isbn, Weights13) = m + 1 * isbn[13]
    BY <1>1, <2>1, <2>2
  <2>5. isbn[13] = c
    BY <1>4, <2>1, <2>3, <2>4
  <2> QED
    BY <1>5, <2>2, <2>5
<1> QED
  BY <1>6, <1>9, <1>10 DEF t

\* The nine digits an ISBN-10 and its ISBN-13 share.
LEMMA Middle ==
  ASSUME NEW isbn, IsList(isbn), Thirteen(isbn)
  PROVE  /\ IsList(SubSeq(isbn, 4, 12)) /\ Len(SubSeq(isbn, 4, 12)) = 9
         /\ \A k \in 1..9 : SubSeq(isbn, 4, 12)[k] = isbn[k + 3] /\ SubSeq(isbn, 4, 12)[k] \in 0..9
<1> DEFINE p == SubSeq(isbn, 4, 12)
<1>1. IsList(p) /\ Len(p) = 9
  BY PieceList
<1>2. \A k \in 1..9 : p[k] = isbn[4 + k - 1]
  BY <1>1, PiecePoints
<1> HIDE DEF p
<1>3. \A k \in 1..9 : 4 + k - 1 = k + 3 /\ k + 3 \in 1..13
  OBVIOUS
<1> QED
  BY <1>1, <1>2, <1>3 DEF p, Thirteen

LEMMA Nine ==
  ASSUME NEW isbn, IsList(isbn), Tenfold(isbn)
  PROVE  /\ IsList(SubSeq(isbn, 1, 9)) /\ Len(SubSeq(isbn, 1, 9)) = 9
         /\ \A k \in 1..9 : SubSeq(isbn, 1, 9)[k] = isbn[k] /\ SubSeq(isbn, 1, 9)[k] \in 0..9
<1> DEFINE p == SubSeq(isbn, 1, 9)
<1>1. IsList(p) /\ Len(p) = 9
  BY PieceList
<1>2. \A k \in 1..9 : p[k] = isbn[1 + k - 1]
  BY <1>1, PiecePoints
<1> HIDE DEF p
<1>3. \A k \in 1..9 : 1 + k - 1 = k
  OBVIOUS
<1> QED
  BY <1>1, <1>2, <1>3 DEF p, Tenfold

LEMMA Prefixed ==
  ASSUME NEW p, IsList(p), Len(p) = 9, \A k \in 1..9 : p[k] \in 0..9
  PROVE  /\ IsList(<<9, 7, 8>> \o p) /\ Len(<<9, 7, 8>> \o p) = 12 /\ Bookland(<<9, 7, 8>> \o p)
         /\ (<<9, 7, 8>> \o p)[3] = 8
         /\ \A k \in 1..12 : (<<9, 7, 8>> \o p)[k] \in 0..9
         /\ \A k \in 1..9 : (<<9, 7, 8>> \o p)[k + 3] = p[k]
<1> DEFINE h == <<9, 7, 8>>
           u == h \o p
<1>1. IsList(h) /\ Len(h) = 3 /\ h[1] = 9 /\ h[2] = 7 /\ h[3] = 8
  <2>1. h \in Seq(Nat)
    OBVIOUS
  <2>2. IsList(h)
    BY <2>1, ListIsList
  <2> QED
    BY <2>2
<1> HIDE DEF h
<1>2. /\ IsList(u) /\ Len(u) = 3 + 9 /\ (\A i \in 1..3 : u[i] = h[i])
      /\ \A i \in 1..9 : u[3 + i] = p[i]
  <2> DEFINE m == 3
             n == 9
  <2>1. Len(h) = m /\ Len(p) = n
    BY <1>1
  <2> HIDE DEF m, n
  <2>2. IsList(h) /\ IsList(p)
    BY <1>1
  <2>3. IsList(u) /\ Len(u) = m + n
    BY <2>1, <2>2, JoinPoints
  <2>4. \A i \in 1..m : u[i] = h[i]
    BY <2>1, <2>2, JoinPoints
  <2>5. \A i \in 1..n : u[m + i] = p[i]
    BY <2>1, <2>2, JoinPoints
  <2> QED
    BY <2>3, <2>4, <2>5 DEF m, n
<1> HIDE DEF u
<1>3. u[1] = 9 /\ u[2] = 7 /\ u[3] = 8
  BY <1>1, <1>2
<1>4. \A k \in 1..9 : u[k + 3] = p[k]
  <2>1. \A k \in 1..9 : k + 3 = 3 + k
    OBVIOUS
  <2> QED
    BY <1>2, <2>1
<1>5. ASSUME NEW k \in 1..12 PROVE u[k] \in 0..9
  <2>1. CASE k \in 1..3
    BY <1>3, <2>1
  <2>2. CASE k \in 4..12
    <3>1. k - 3 \in 1..9 /\ 3 + (k - 3) = k
      BY <2>2
    <3>2. u[k] = p[k - 3]
      BY <1>2, <3>1
    <3> QED
      BY <3>1, <3>2
  <2> QED
    BY <2>1, <2>2
<1>6. Bookland(u)
  BY <1>3 DEF Bookland
<1>7. Len(u) = 12
  BY <1>2
<1> QED
  BY <1>2, <1>3, <1>4, <1>5, <1>6, <1>7 DEF h, u

LEMMA FromTen ==
  ASSUME NEW isbn, IsList(isbn), Tenfold(isbn), Valid(isbn)
  PROVE  /\ Valid(ToISBN13(isbn)) /\ ToISBN10(ToISBN13(isbn)) = isbn
         /\ ToISBN10(isbn) = isbn
<1> DEFINE p == SubSeq(isbn, 1, 9)
           b == <<9, 7, 8>> \o p
           t == WithCheckDigit13(b)
           q == SubSeq(t, 4, 12)
<1>1. Len(isbn) = 10
  BY DEF Tenfold
<1>2. ToISBN10(isbn) = isbn /\ ToISBN13(isbn) = t
  BY <1>1 DEF ToISBN10, ToISBN13
<1>3. IsList(p) /\ Len(p) = 9 /\ \A k \in 1..9 : p[k] = isbn[k] /\ p[k] \in 0..9
  BY Nine
<1> HIDE DEF p
<1>4. /\ IsList(b) /\ Len(b) = 12 /\ Bookland(b) /\ b[3] = 8 /\ (\A k \in 1..12 : b[k] \in 0..9)
      /\ \A k \in 1..9 : b[k + 3] = p[k]
  BY <1>3, Prefixed
<1> HIDE DEF b
<1>5. IsList(t) /\ Len(t) = 13 /\ Valid(t) /\ \A k \in 1..12 : t[k] = b[k]
  BY <1>4, Complete13
<1> HIDE DEF t
<1>6. Thirteen(t)
  BY <1>5, ValidPoints DEF Tenfold
<1>7. IsList(q) /\ Len(q) = 9 /\ \A k \in 1..9 : q[k] = t[k + 3] /\ q[k] \in 0..9
  BY <1>5, <1>6, Middle
<1>8. ToISBN10(t) = WithCheckDigit10(q)
  <2>1. t[3] = 8
    BY <1>4, <1>5
  <2> QED
    BY <1>5, <2>1 DEF ToISBN10
<1> HIDE DEF q
<1>9. \A k \in 1..9 : q[k] = isbn[k]
  <2>1. \A k \in 1..9 : k + 3 \in 1..12
    OBVIOUS
  <2> QED
    BY <1>3, <1>4, <1>5, <1>7, <2>1
<1>10. isbn = WithCheckDigit10(q)
  BY <1>7, <1>9, Complete10
<1> QED
  BY <1>2, <1>5, <1>8, <1>10

LEMMA FromThirteen ==
  ASSUME NEW isbn, IsList(isbn), Thirteen(isbn), Valid(isbn)
  PROVE  /\ ToISBN13(isbn) = isbn
         /\ ToISBN10(isbn) # None => Valid(ToISBN10(isbn)) /\ ToISBN13(ToISBN10(isbn)) = isbn
<1>1. Len(isbn) = 13
  BY DEF Thirteen
<1>2. ToISBN13(isbn) = isbn
  BY <1>1 DEF ToISBN13
<1>3. CASE isbn[3] = 8
  <2> DEFINE p == SubSeq(isbn, 4, 12)
             t == WithCheckDigit10(p)
             q == SubSeq(t, 1, 9)
             b == <<9, 7, 8>> \o q
  <2>1. ToISBN10(isbn) = t
    BY <1>1, <1>3 DEF ToISBN10
  <2>2. IsList(p) /\ Len(p) = 9 /\ \A k \in 1..9 : p[k] = isbn[k + 3] /\ p[k] \in 0..9
    BY Middle
  <2> HIDE DEF p
  <2>3. IsList(t) /\ Len(t) = 10 /\ Valid(t) /\ \A k \in 1..9 : t[k] = p[k]
    BY <2>2, Complete10
  <2> HIDE DEF t
  <2>4. Tenfold(t)
    BY <2>3, ValidPoints DEF Thirteen
  <2>5. IsList(q) /\ Len(q) = 9 /\ \A k \in 1..9 : q[k] = t[k] /\ q[k] \in 0..9
    BY <2>3, <2>4, Nine
  <2>6. ToISBN13(t) = WithCheckDigit13(b)
    BY <2>3 DEF ToISBN13
  <2> HIDE DEF q
  <2>7. /\ IsList(b) /\ Len(b) = 12 /\ Bookland(b) /\ b[3] = 8 /\ (\A k \in 1..12 : b[k] \in 0..9)
        /\ \A k \in 1..9 : b[k + 3] = q[k]
    BY <2>5, Prefixed
  <2> HIDE DEF b
  <2>8. Bookland(isbn)
    BY <1>1, ValidPoints DEF Tenfold
  <2>9. ASSUME NEW k \in 1..12 PROVE b[k] = isbn[k]
    <3>1. CASE k \in 1..3
      BY <1>3, <2>7, <2>8, <3>1 DEF Bookland
    <3>2. CASE k \in 4..12
      <4>1. k - 3 \in 1..9 /\ (k - 3) + 3 = k
        BY <3>2
      <4>2. b[k] = q[k - 3] /\ isbn[k] = p[k - 3] /\ q[k - 3] = t[k - 3] /\ t[k - 3] = p[k - 3]
        BY <2>2, <2>3, <2>5, <2>7, <4>1
      <4> QED
        BY <4>2
    <3> QED
      BY <3>1, <3>2
  <2>10. isbn = WithCheckDigit13(b)
    BY <2>7, <2>9, Complete13
  <2> QED
    BY <1>2, <2>1, <2>3, <2>6, <2>10
<1>4. CASE isbn[3] # 8
  BY <1>1, <1>2, <1>4 DEF ToISBN10
<1> QED
  BY <1>3, <1>4

LEMMA EveryIsbnChecks == ASSUME NEW isbn, IsList(isbn), Valid(isbn) PROVE Checked(isbn)
<1>1. \A i \in DOMAIN isbn : \A d \in Decimal \ {isbn[i]} : ~Valid([isbn EXCEPT ![i] = d])
  BY ListDomain, WrongDigit
<1>2. CASE Tenfold(isbn)
  BY <1>1, <1>2, FromTen DEF Checked
<1>3. CASE Thirteen(isbn)
  BY <1>1, <1>3, FromThirteen DEF Checked
<1> QED
  BY <1>2, <1>3, ValidPoints

-----------------------------------------------------------------------------
(* What a set in ascending order lists *)

\* a lists the members of S in ascending order.
Enumerates(a, S) == IsList(a) /\ Of(a) = S /\ \A i, j \in 1..Len(a) : i < j => a[i] < a[j]

LEMMA EnumeratesMore ==
  ASSUME NEW a, NEW S \in SUBSET Nat, Enumerates(a, S), NEW n \in Nat, \A x \in S : x < n
  PROVE  Enumerates(Append(a, n), S \cup {n})
<1> DEFINE b == Append(a, n)
           m == Len(a)
<1>1. /\ IsList(b) /\ Len(b) = m + 1 /\ b[m + 1] = n /\ (\A k \in 1..m : b[k] = a[k])
      /\ m \in Nat
  BY AppendPoints, ListFacts DEF Enumerates
<1>2. (\A k \in 1..m : a[k] \in S) /\ \A x \in S : \E k \in 1..m : x = a[k]
  BY DEF Enumerates, Of
<1> HIDE DEF b
<1>3. \A i, j \in 1..m : i < j => a[i] < a[j]
  BY DEF Enumerates
<1> HIDE DEF m
<1>4. \A k \in 1..m + 1 : k \in 1..m \/ k = m + 1
  BY <1>1
<1>5. Of(b) = S \cup {n}
  <2>1. \A x \in S \cup {n} : \E k \in 1..m + 1 : b[k] = x
    BY <1>1, <1>2
  <2>2. \A k \in 1..m + 1 : b[k] \in S \cup {n}
    BY <1>1, <1>2, <1>4
  <2> QED
    BY <1>1, <2>1, <2>2 DEF Of
<1>6. ASSUME NEW i \in 1..m + 1, NEW j \in 1..m + 1, i < j PROVE b[i] < b[j]
  <2>1. i \in 1..m
    BY <1>1, <1>6
  <2>2. CASE j \in 1..m
    BY <1>1, <1>3, <1>6, <2>1, <2>2
  <2>3. CASE j = m + 1
    BY <1>1, <1>2, <2>1, <2>3
  <2> QED
    BY <1>4, <2>2, <2>3
<1> QED
  BY <1>1, <1>5, <1>6 DEF Enumerates, b

LEMMA AscendingFacts ==
  ASSUME NEW n \in Nat, NEW S \in SUBSET (0..n)
  PROVE  Enumerates(Ascending(S), S)
<1> DEFINE Q == {m \in Nat : \A T \in SUBSET Nat : (\A x \in T : x < m) => Enumerates(Ascending(T), T)}
<1>1. 0 \in Q
  <2> SUFFICES ASSUME NEW T \in SUBSET Nat, \A x \in T : x < 0 PROVE Enumerates(Ascending(T), T)
    OBVIOUS
  <2>1. T = {}
    OBVIOUS
  <2>2. Enumerates(<<>>, {})
    BY EmptyList, EmptyIsList, EmptySeq DEF Enumerates
  <2> QED
    BY <2>1, <2>2, AscendingEmpty
<1>2. \A m \in Nat : m \in Q => m + 1 \in Q
  <2> SUFFICES ASSUME NEW m \in Nat, m \in Q, NEW T \in SUBSET Nat, \A x \in T : x < m + 1
               PROVE  Enumerates(Ascending(T), T)
    OBVIOUS
  <2> DEFINE R == T \ {m}
  <2>1. R \in SUBSET Nat /\ \A x \in R : x < m
    OBVIOUS
  <2>2. Enumerates(Ascending(R), R)
    BY <2>1
  <2>3. IsFiniteSet(R)
    <3>1. R \subseteq 0..m
      OBVIOUS
    <3>2. IsFiniteSet(0..m)
      BY FS_Interval
    <3> HIDE DEF R
    <3> QED
      BY <3>1, <3>2, FS_Subset
  <2> HIDE DEF Q
  <2>4. CASE m \in T
    <3>1. T = R \cup {m}
      BY <2>4
    <3> HIDE DEF R
    <3>2. Ascending(R \cup {m}) = Append(Ascending(R), m)
      BY <2>1, <2>3, AscendingAppend
    <3>3. Enumerates(Append(Ascending(R), m), R \cup {m})
      BY <2>1, <2>2, EnumeratesMore
    <3> QED
      BY <3>1, <3>2, <3>3
  <2>5. CASE m \notin T
    <3>1. T = R
      BY <2>5
    <3> QED
      BY <2>2, <3>1
  <2> QED
    BY <2>4, <2>5
<1> HIDE DEF Q
<1>3. n + 1 \in Q
  BY <1>1, <1>2, AllNaturals
<1>4. S \in SUBSET Nat /\ \A x \in S : x < n + 1
  OBVIOUS
<1> QED
  BY <1>3, <1>4 DEF Q

-----------------------------------------------------------------------------
(* What NormalizeISBN makes of a text *)

LEMMA FromList == ASSUME NEW s, IsList(s), NEW full \in SUBSET (DOMAIN s) PROVE IsList(From(s, full))
<1>1. Len(s) \in Nat /\ DOMAIN s \subseteq Nat
  BY ListFacts
<1>2. CASE full = {}
  BY <1>2, EmptyIsList DEF From
<1>3. CASE full # {}
  <2>1. Min(full) \in Int
    BY <1>1, <1>3, MinFacts
  <2> QED
    BY <1>1, <1>3, <2>1, PieceList DEF From
<1> QED
  BY <1>2, <1>3

LEMMA TrimmedList == ASSUME NEW s, IsList(s), NEW C PROVE IsList(TrimWhile(s, C)) /\ IsList(SkipSeps(s))
<1>1. \A D : {i \in DOMAIN s : s[i] \notin D} \in SUBSET (DOMAIN s)
  OBVIOUS
<1>2. \A D : IsList(TrimWhile(s, D))
  BY <1>1, FromList DEF TrimWhile
<1> QED
  BY <1>2 DEF SkipSeps

LEMMA RestList == ASSUME NEW s, IsList(s), s # <<>> PROVE IsList(Tail(s))
<1> DEFINE A == ToSet(s)
<1>1. s \in Seq(A)
  BY DEF IsList
<1> HIDE DEF A
<1>2. Tail(s) \in Seq(A)
  BY <1>1, HeadTailProperties
<1> QED
  BY <1>2, ListIsList

LEMMA PrefixTrimmed == ASSUME NEW s, IsList(s) PROVE IsList(TrimPrefix(s))
<1>1. IsList(TrimWhile(s, {Space}))
  BY TrimmedList
<1>2. ASSUME NEW t, IsList(t) PROVE IsList(WithoutUrn(t))
  BY <1>2, RestList, TrimmedList DEF WithoutUrn
<1> QED
  BY <1>1, <1>2 DEF TrimPrefix

LEMMA LabelTrimmed == ASSUME NEW s, IsList(s) PROVE IsList(TrimLabel(s))
<1>1. ASSUME NEW t, IsList(t) PROVE IsList(WithoutNumber(t))
  <2>1. Len(t) \in Int
    BY <1>1, ListFacts
  <2>2. IsList(SubSeq(t, 3, Len(t)))
    BY <2>1, PieceList
  <2>3. IsList(SkipSeps(SubSeq(t, 3, Len(t))))
    BY <2>2, TrimmedList
  <2> QED
    BY <1>1, <2>3 DEF WithoutNumber
<1>2. ASSUME NEW t, IsList(t) PROVE IsList(WithoutColon(t))
  BY <1>2, RestList DEF WithoutColon
<1>3. ASSUME NEW t, IsList(t) PROVE IsList(SkipSeps(t))
  BY <1>3, TrimmedList
<1>4. CASE s = <<>>
  BY <1>4 DEF TrimLabel
<1>5. CASE s # <<>>
  <2> DEFINE a == SkipSeps(Tail(s))
             b == WithoutNumber(a)
             c == WithoutColon(b)
  <2>1. IsList(a)
    BY <1>3, <1>5, RestList
  <2> HIDE DEF a
  <2>2. IsList(b)
    BY <1>1, <2>1
  <2> HIDE DEF b
  <2>3. IsList(c)
    BY <1>2, <2>2
  <2> HIDE DEF c
  <2>4. IsList(SkipSeps(c))
    BY <1>3, <2>3
  <2> QED
    BY <2>4 DEF TrimLabel, a, b, c
<1> QED
  BY <1>4, <1>5

LEMMA KeptList == ASSUME NEW s, IsList(s) PROVE IsList(Kept(s))
<1> DEFINE A == ToSet(s)
           P == {x \in {s[i] : i \in DOMAIN s} : x \notin Separator}
<1>1. s \in Seq(A)
  BY DEF IsList
<1>2. Kept(s) = Chosen(s, P)
  BY DEF Kept, Where
<1> HIDE DEF A, P
<1>3. Chosen(s, P) \in Seq(A)
  BY <1>1, ChosenList
<1> QED
  BY <1>2, <1>3, ListIsList

LEMMA Normalized ==
  ASSUME NEW s, IsList(s), ValidateBookISBN(s) # None
  PROVE  IsList(ValidateBookISBN(s)) /\ Valid(ValidateBookISBN(s)) /\ ~Placeholder(ValidateBookISBN(s))
<1> DEFINE k == Kept(TrimLabel(TrimPrefix(s)))
           d == NormalizeISBN(s)
<1>1. IsList(k)
  BY PrefixTrimmed, LabelTrimmed, KeptList
<1>2. d = ValidOnly(k)
  BY DEF NormalizeISBN
<1> HIDE DEF d, k
<1>3. ValidateBookISBN(s) = BookISBN(d)
  BY DEF ValidateBookISBN, d
<1>4. d # None /\ ~Placeholder(d) /\ BookISBN(d) = d
  BY <1>3 DEF BookISBN
<1>5. d = k /\ Valid(k)
  BY <1>2, <1>4 DEF ValidOnly
<1> QED
  BY <1>1, <1>3, <1>4, <1>5

-----------------------------------------------------------------------------
(* Where FindISBNs looks *)

LEMMA FirstPlace ==
  ASSUME NEW t, IsList(t), NEW i \in Nat \ {0}, NEW C
  PROVE  /\ FirstOf(t, NotIn(t, i, C)) \in Nat \ {0}
         /\ i <= Len(t) + 1 => FirstOf(t, NotIn(t, i, C)) \in i..Len(t) + 1
<1> DEFINE T == NotIn(t, i, C) \cup {Len(t) + 1}
<1>1. Len(t) \in Nat
  BY ListFacts
<1>2. T \in SUBSET (Nat \ {0}) /\ Len(t) + 1 \in T
  BY <1>1 DEF NotIn
<1>3. i <= Len(t) + 1 => \A x \in T : i <= x
  BY <1>1 DEF NotIn
<1> HIDE DEF T
<1>4. T \in SUBSET Nat /\ T # {}
  BY <1>2
<1>5. Min(T) \in T /\ Min(T) <= Len(t) + 1
  BY <1>2, <1>4, MinFacts
<1> DEFINE m == Min(T)
<1>6. m \in Nat \ {0} /\ m <= Len(t) + 1 /\ (i <= Len(t) + 1 => i <= m)
  BY <1>2, <1>3, <1>5
<1> HIDE DEF m
<1>7. m \in Nat \ {0} /\ (i <= Len(t) + 1 => m \in i..Len(t) + 1)
  BY <1>1, <1>6
<1> QED
  BY <1>7 DEF FirstOf, T, m

LEMMA PastPlaces ==
  ASSUME NEW t, IsList(t), NEW i \in Nat \ {0}
  PROVE  PastColon(t, i) \in Nat \ {0} /\ PastDash(t, i) \in Nat \ {0}
<1>1. \A j \in Nat \ {0} : PastSpace(t, j) \in Nat \ {0}
  BY FirstPlace DEF PastSpace
<1>2. ASSUME NEW j \in Nat \ {0}, NEW C PROVE PastOneOf(t, j, C) \in Nat \ {0}
  <2>1. j + 1 \in Nat \ {0}
    OBVIOUS
  <2> QED
    BY <1>1, <2>1 DEF PastOneOf
<1> QED
  BY <1>1, <1>2 DEF PastColon, PastDash

LEMMA StartsList ==
  ASSUME NEW t, IsList(t), NEW i \in 1..Len(t), NEW marked
  PROVE  Starts(t, i, marked) \in Seq(Nat \ {0})
<1> DEFINE A == Nat \ {0}
<1>1. i \in A /\ i + 1 \in A
  BY ListFacts
<1>2. ASSUME NEW k \in A PROVE AfterNumber(t, k) \in Seq(A)
  <2>1. k + 2 \in A
    OBVIOUS
  <2>2. PastColon(t, k + 2) \in A
    BY <2>1, PastPlaces
  <2> DEFINE x == PastColon(t, k + 2)
  <2> HIDE DEF x, A
  <2>3. <<x>> \in Seq(A) /\ <<>> \in Seq(A)
    BY <2>2 DEF x
  <2> QED
    BY <2>3 DEF AfterNumber, x
<1>3. AfterMarker(t, i) \in Seq(A)
  <2> DEFINE k == PastDash(t, i + 1)
             x == PastColon(t, i + 1)
  <2>1. k \in A /\ x \in A
    BY <1>1, PastPlaces
  <2> HIDE DEF k, x
  <2>2. AfterNumber(t, k) \in Seq(A)
    BY <1>2, <2>1
  <2> HIDE DEF A
  <2>3. Append(AfterNumber(t, k), x) \in Seq(A)
    BY <2>1, <2>2, AppendList
  <2> QED
    BY <2>3 DEF AfterMarker, k, x
<1> HIDE DEF A
<1>4. <<i>> \in Seq(A) /\ <<>> \in Seq(A)
  BY <1>1
<1>5. Starts(t, i, marked) \in Seq(A)
  BY <1>3, <1>4 DEF Starts
<1> QED
  BY <1>5 DEF A

\* A pattern that matches at i ends in the text, not before i.
LEMMA NthPlace ==
  ASSUME NEW t, IsList(t), NEW i \in Nat \ {0}, NEW n \in Nat \ {0}
  PROVE  NthDigit(t, i, n) = 0 \/ (NthDigit(t, i, n) \in i..Len(t))
<1>1. Len(t) \in Nat
  BY ListFacts
<1>2. CASE i > Len(t)
  BY <1>2 DEF NthDigit
<1>3. CASE i <= Len(t)
  <2> DEFINE stop == FirstOf(t, NotIn(t, i, Decimal \cup PatternSep))
             u == [k \in 1..stop - i |-> i + k - 1]
             P == {j \in {u[k] : k \in DOMAIN u} : t[j] \in Decimal}
             A == i..Len(t)
  <2>1. stop \in i..Len(t) + 1
    BY <1>1, <1>3, FirstPlace
  <2> HIDE DEF stop
  <2>2. u \in Seq(A)
    <3> DEFINE m == stop - i
    <3>1. m \in Nat
      BY <1>1, <2>1
    <3>2. \A k \in 1..m : u[k] \in A
      BY <1>1, <2>1
    <3>3. u \in [1..m -> A]
      BY <3>2
    <3> HIDE DEF m, u, A
    <3> QED
      BY <3>1, <3>3
  <2>3. DigitsUpTo(t, i, stop) = Chosen(u, P)
    BY DEF DigitsUpTo, Where
  <2> DEFINE c == Chosen(u, P)
  <2> HIDE DEF u, P, A
  <2>4. c \in Seq(A)
    BY <2>2, ChosenList
  <2> HIDE DEF c
  <2>5. Nth(c, n) = 0 \/ Nth(c, n) \in A
    <3>1. CASE Len(c) < n
      BY <3>1 DEF Nth
    <3>2. CASE ~(Len(c) < n)
      <4>1. n \in 1..Len(c)
        BY <2>4, <3>2, LenProperties
      <4>2. c[n] \in A
        BY <2>4, <4>1, ElementOfSeq
      <4> QED
        BY <3>2, <4>2 DEF Nth
    <3> QED
      BY <3>1, <3>2
  <2> QED
    BY <2>3, <2>5 DEF NthDigit, c, stop, A
<1> QED
  BY <1>1, <1>2, <1>3

LEMMA CorePlace ==
  ASSUME NEW t, IsList(t), NEW i \in Nat \ {0}, NEW n
  PROVE  CoreEnd(t, i, n) = 0 \/ (CoreEnd(t, i, n) \in i..Len(t))
<1>1. Len(t) \in Nat
  BY ListFacts
<1>2. Core13(t, i) = 0 \/ Core13(t, i) \in i..Len(t)
  <2>1. NthDigit(t, i, 13) = 0 \/ (NthDigit(t, i, 13) \in i..Len(t))
    <3> DEFINE m == 13
    <3>1. m \in Nat \ {0}
      OBVIOUS
    <3> HIDE DEF m
    <3>2. NthDigit(t, i, m) = 0 \/ (NthDigit(t, i, m) \in i..Len(t))
      BY <3>1, NthPlace
    <3> QED
      BY <3>2 DEF m
  <2> QED
    BY <2>1 DEF Core13
<1>3. Core10(t, i) = 0 \/ Core10(t, i) \in i..Len(t)
  <2> DEFINE j == NthDigit(t, i, 9)
             s == FirstOf(t, NotIn(t, j + 1, PatternSep))
  <2>1. j = 0 \/ j \in i..Len(t)
    <3> DEFINE m == 9
    <3>1. m \in Nat \ {0}
      OBVIOUS
    <3> HIDE DEF m
    <3>2. NthDigit(t, i, m) = 0 \/ (NthDigit(t, i, m) \in i..Len(t))
      BY <3>1, NthPlace
    <3> QED
      BY <3>2 DEF m
  <2> HIDE DEF j
  <2>2. CASE j = 0
    BY <2>2 DEF Core10, Tenth, j
  <2>3. CASE j # 0
    <3>1. j + 1 \in Nat \ {0} /\ j + 1 <= Len(t) + 1 /\ i <= j
      BY <1>1, <2>1, <2>3
    <3>2. s \in j + 1..Len(t) + 1
      BY <3>1, FirstPlace
    <3> HIDE DEF s
    <3>3. TenthAt(t, s) = 0 \/ (TenthAt(t, s) = s /\ s <= Len(t))
      BY DEF TenthAt
    <3>4. Core10(t, i) = TenthAt(t, s)
      BY <2>3 DEF Core10, Tenth, j, s
    <3> QED
      BY <1>1, <2>1, <2>3, <3>1, <3>2, <3>3, <3>4
  <2> QED
    BY <2>2, <2>3
<1> QED
  BY <1>2, <1>3 DEF CoreEnd

-----------------------------------------------------------------------------
(* Matches and candidates *)

Piece(t) == {m \in [start : 1..Len(t), end : 1..Len(t)] : m.start <= m.end}

LEMMA CoresList ==
  ASSUME NEW t, IsList(t), NEW starts \in Seq(Nat \ {0}), NEW n
  PROVE  Cores(t, starts, n) \in Seq(Piece(t))
<1> DEFINE u == [k \in DOMAIN starts |-> [start |-> starts[k], end |-> CoreEnd(t, starts[k], n)]]
           A == Of(u)
           P == {m \in {u[k] : k \in DOMAIN u} : m.end # 0}
           N == Len(starts)
<1>1. Len(t) \in Nat /\ N \in Nat /\ DOMAIN starts = 1..N /\ \A k \in 1..N : starts[k] \in Nat \ {0}
  <2>1. N \in Nat /\ DOMAIN starts = 1..N
    BY LenProperties
  <2>2. \A k \in 1..N : starts[k] \in Nat \ {0}
    BY ElementOfSeq
  <2> QED
    BY <2>1, <2>2, ListFacts
<1>2. \A k \in 1..N : u[k].end # 0 => u[k] \in Piece(t)
  <2> SUFFICES ASSUME NEW k \in 1..N, CoreEnd(t, starts[k], n) # 0
               PROVE  [start |-> starts[k], end |-> CoreEnd(t, starts[k], n)] \in Piece(t)
    BY <1>1
  <2> DEFINE x == starts[k]
             y == CoreEnd(t, x, n)
  <2>1. x \in Nat \ {0}
    BY <1>1
  <2>2. y \in x..Len(t)
    BY <2>1, CorePlace
  <2> HIDE DEF x, y
  <2>3. x \in 1..Len(t) /\ y \in 1..Len(t) /\ x <= y
    BY <1>1, <2>1, <2>2
  <2>4. [start |-> x, end |-> y] \in Piece(t)
    BY <2>3 DEF Piece
  <2> QED
    BY <2>4 DEF x, y
<1>3. u = [k \in 1..N |-> u[k]]
  BY <1>1
<1>4. Cores(t, starts, n) = Chosen(u, P)
  BY DEF Cores, Where
<1>5. DOMAIN u = 1..N
  BY <1>1
<1> HIDE DEF u, N
<1>6. IsList(u) /\ Len(u) = N
  BY <1>1, <1>3, FunctionIsList
<1>7. u \in Seq(A)
  BY <1>6, ListIsList DEF IsList
<1>8. A \cap P \subseteq Piece(t)
  BY <1>2, <1>5
<1> HIDE DEF A, P
<1> DEFINE c == Chosen(u, P)
<1>9. c \in Seq(A) /\ Of(c) = Of(u) \cap P
  BY <1>7, ChosenList
<1>10. Of(u) \subseteq A
  BY <1>7, OfList
<1> HIDE DEF c
<1>11. IsList(c) /\ ToSet(c) = Of(c)
  BY <1>9, ListIsList
<1>12. c \in Seq(Piece(t))
  BY <1>8, <1>9, <1>10, <1>11, SeqMonotonic DEF IsList
<1> QED
  BY <1>4, <1>12 DEF c

Matching(u, t, n, marked) ==
  u = [i \in 0..Len(t) |-> IF i = 0 THEN [end |-> 0, matches |-> <<>>]
                           ELSE NextMatch(u[i - 1], i, Cores(t, Starts(t, i, marked), n))]

LEMMA MatchesList ==
  ASSUME NEW t, IsList(t), NEW n, NEW marked
  PROVE  Matches(t, n, marked) \in Seq(Piece(t))
<1> DEFINE N == Len(t)
           a == [end |-> 0, matches |-> <<>>]
           S == [end : 0..N, matches : Seq(Piece(t))]
           C(i) == Cores(t, Starts(t, i, marked), n)
           F == [p \in Nat \X S |-> IF p[1] \in 1..N THEN NextMatch(p[2], p[1], C(p[1])) ELSE a]
<1>1. N \in Nat
  BY ListFacts
<1>2. a \in S
  <2>1. <<>> \in Seq(Piece(t))
    BY EmptySeq
  <2> QED
    BY <1>1, <2>1
<1>3. ASSUME NEW i \in 1..N, NEW x \in S PROVE NextMatch(x, i, C(i)) \in S
  <2> DEFINE c == C(i)
  <2>1. c \in Seq(Piece(t))
    BY StartsList, CoresList
  <2> HIDE DEF c
  <2>2. ASSUME c = <<>> \/ i <= x.end PROVE NextMatch(x, i, c) \in S
    <3>1. NextMatch(x, i, c) = x
      BY <2>2 DEF NextMatch
    <3> HIDE DEF S
    <3> QED
      BY <3>1
  <2>3. ASSUME c # <<>> /\ ~(i <= x.end) PROVE NextMatch(x, i, c) \in S
    <3>1. c[1] \in Piece(t)
      <4>1. 1 \in 1..Len(c)
        BY <2>1, <2>3, EmptySeq
      <4> QED
        BY <2>1, <4>1, ElementOfSeq
    <3>2. c[1].end \in 0..N
      BY <1>1, <3>1 DEF Piece
    <3>3. x.matches \in Seq(Piece(t))
      OBVIOUS
    <3>4. Append(x.matches, c[1]) \in Seq(Piece(t))
      BY <3>1, <3>3, AppendList
    <3>5. NextMatch(x, i, c) = [end |-> c[1].end, matches |-> Append(x.matches, c[1])]
      BY <2>3 DEF NextMatch
    <3> DEFINE e == c[1].end
               m == Append(x.matches, c[1])
    <3> HIDE DEF e, m
    <3>6. e \in 0..N /\ m \in Seq(Piece(t))
      BY <3>2, <3>4 DEF e, m
    <3> HIDE DEF N
    <3>7. [end |-> e, matches |-> m] \in S
      BY <3>6
    <3> QED
      BY <3>5, <3>7 DEF e, m
  <2> HIDE DEF S
  <2>4. NextMatch(x, i, c) \in S
    BY <2>2, <2>3
  <2> QED
    BY <2>4 DEF c
<1> HIDE DEF S, C, a
<1>4. F \in [Nat \X S -> S] /\ \A i \in 1..N, x \in S : F[<<i, x>>] = NextMatch(x, i, C(i))
  <2>1. \A p \in Nat \X S : (IF p[1] \in 1..N THEN NextMatch(p[2], p[1], C(p[1])) ELSE a) \in S
    BY <1>2, <1>3
  <2> QED
    BY <2>1
<1> HIDE DEF F
<1>5. \E f \in [0..N -> S] : f[0] = a /\ \A k \in 1..N : f[k] = F[<<k, f[k - 1]>>]
  <2> HIDE DEF N
  <2>1. HasRun(S, a, F, N)
    BY <1>1, <1>2, <1>4, Iterates
  <2> QED
    BY <2>1 DEF HasRun, Repeats
<1>6. PICK f \in [0..N -> S] : f[0] = a /\ \A k \in 1..N : f[k] = F[<<k, f[k - 1]>>]
  BY <1>5
<1>7. ASSUME NEW k \in 1..N PROVE f[k] = NextMatch(f[k - 1], k, C(k))
  <2>1. k - 1 \in 0..N
    BY <1>1
  <2>2. f[k - 1] \in S
    BY <2>1
  <2> QED
    BY <1>4, <1>6, <2>2
<1>8. Matching(f, t, n, marked)
  <2>1. \A k \in 0..N : f[k] = IF k = 0 THEN a ELSE NextMatch(f[k - 1], k, C(k))
    <3> TAKE k \in 0..N
    <3>1. CASE k = 0
      BY <1>6, <3>1
    <3>2. CASE k # 0
      <4>1. k \in 1..N
        BY <1>1, <3>2
      <4> QED
        BY <1>7, <3>2, <4>1
    <3> QED
      BY <3>1, <3>2
  <2>2. f = [k \in 0..N |-> f[k]]
    OBVIOUS
  <2> QED
    BY <2>1, <2>2 DEF Matching, a, C
<1>9. PICK u : Matching(u, t, n, marked) /\ Matches(t, n, marked) = u[N].matches
  <2>1. Matches(t, n, marked) = (CHOOSE u : Matching(u, t, n, marked))[N].matches
    BY DEF Matches, Matching
  <2> QED
    BY <1>8, <2>1
<1>10. \A k \in 0..N : u[k] = IF k = 0 THEN a ELSE NextMatch(u[k - 1], k, C(k))
  BY <1>9 DEF Matching, a, C
<1>11. \A k \in 0..N : f[k] = u[k]
  <2>1. f[0] = u[0]
    <3>1. 0 \in 0..N
      BY <1>1
    <3> QED
      BY <1>6, <1>10, <3>1
  <2>2. ASSUME NEW k \in 1..N, f[k - 1] = u[k - 1] PROVE f[k] = u[k]
    <3>1. k \in 0..N /\ k # 0
      BY <1>1
    <3> QED
      BY <1>7, <1>10, <2>2, <3>1
  <2> HIDE DEF N
  <2> QED
    BY <1>1, <2>1, <2>2, RunsAgree
<1>12. N \in 0..N
  BY <1>1
<1>13. u[N] \in S
  BY <1>11, <1>12
<1> QED
  BY <1>9, <1>13 DEF S

Spelt(t, isbn) == \E p \in DOMAIN t : \E q \in p..Len(t) : isbn = ValidateBookISBN(SubSeq(t, p, q))
IsCandidate(t, c) == c.pos \in 1..Len(t) /\ c.isbn # None /\ Spelt(t, c.isbn)
AreCandidates(t, s) == IsList(s) /\ \A c \in Of(s) : IsCandidate(t, c)

LEMMA CandidatesList ==
  ASSUME NEW t, IsList(t), NEW n, NEW marked
  PROVE  AreCandidates(t, Candidates(t, n, marked))
<1> DEFINE ms == Matches(t, n, marked)
           u == [k \in DOMAIN ms |-> Candidate(t, ms[k], marked)]
           P == {c \in {u[k] : k \in DOMAIN u} : c.isbn # None}
           N == Len(ms)
           A == Of(u)
<1>1. N \in Nat /\ DOMAIN ms = 1..N /\ \A k \in 1..N : ms[k] \in Piece(t)
  <2>1. ms \in Seq(Piece(t))
    BY MatchesList
  <2> HIDE DEF ms
  <2> QED
    BY <2>1, LenProperties, ElementOfSeq
<1>2. Candidates(t, n, marked) = Chosen(u, P)
  BY DEF Candidates, ValidCandidates, Where
<1> HIDE DEF ms
<1>3. ASSUME NEW k \in 1..N, u[k].isbn # None PROVE IsCandidate(t, u[k])
  <2> DEFINE m == ms[k]
             s == SubSeq(t, m.start, m.end)
  <2>1. m \in Piece(t) /\ u[k] = Candidate(t, m, marked)
    BY <1>1
  <2> HIDE DEF m
  <2>2. m.start \in 1..Len(t) /\ m.end \in 1..Len(t) /\ m.start <= m.end /\ DOMAIN t = 1..Len(t) /\ Len(t) \in Nat
    BY <2>1, ListFacts DEF Piece
  <2>3. u[k] = [pos |-> m.start, isbn |-> IF Bounded(t, m, marked) THEN ValidateBookISBN(s) ELSE None]
    BY <2>1 DEF Candidate
  <2> HIDE DEF u
  <2>4. u[k].pos = m.start /\ u[k].isbn = ValidateBookISBN(s)
    BY <1>3, <2>3
  <2>5. m.start \in DOMAIN t /\ m.end \in m.start..Len(t)
    BY <2>2
  <2>6. Spelt(t, u[k].isbn)
    BY <2>4, <2>5 DEF Spelt
  <2> QED
    BY <1>3, <2>2, <2>4, <2>6 DEF IsCandidate
<1>4. DOMAIN u = 1..N /\ u = [k \in 1..N |-> u[k]]
  BY <1>1
<1> HIDE DEF u, N
<1>5. IsList(u)
  BY <1>1, <1>4, FunctionIsList
<1>6. u \in Seq(A)
  BY <1>5, ListIsList DEF IsList
<1>7. \A c \in P : IsCandidate(t, c)
  BY <1>3, <1>4
<1> HIDE DEF A, P
<1>8. Chosen(u, P) \in Seq(A) /\ Of(Chosen(u, P)) = Of(u) \cap P
  BY <1>6, ChosenList
<1>9. IsList(Chosen(u, P))
  BY <1>8, ListIsList
<1> QED
  BY <1>2, <1>7, <1>8, <1>9 DEF AreCandidates

LEMMA JoinOf ==
  ASSUME NEW s, NEW t, IsList(s), IsList(t)
  PROVE  IsList(s \o t) /\ Of(s \o t) = Of(s) \cup Of(t)
<1> DEFINE A == ToSet(s) \cup ToSet(t)
<1>1. s \in Seq(A) /\ t \in Seq(A)
  BY SeqMonotonic DEF IsList
<1> HIDE DEF A
<1> QED
  BY <1>1, ConcatList, JoinList

LEMMA AllCandidatesList == ASSUME NEW t, IsList(t) PROVE AreCandidates(t, AllCandidates(t))
<1>1. ASSUME NEW a, NEW b, AreCandidates(t, a), AreCandidates(t, b) PROVE AreCandidates(t, a \o b)
  BY <1>1, JoinOf DEF AreCandidates
<1> DEFINE a == Candidates(t, 13, TRUE)
           b == Candidates(t, 10, TRUE)
           c == Candidates(t, 13, FALSE)
           d == Candidates(t, 10, FALSE)
<1>2. AreCandidates(t, a) /\ AreCandidates(t, b) /\ AreCandidates(t, c) /\ AreCandidates(t, d)
  BY CandidatesList
<1> HIDE DEF a, b, c, d
<1>3. AreCandidates(t, a \o b)
  BY <1>1, <1>2
<1>4. AreCandidates(t, (a \o b) \o c)
  BY <1>1, <1>2, <1>3
<1>5. AreCandidates(t, ((a \o b) \o c) \o d)
  BY <1>1, <1>2, <1>4
<1> QED
  BY <1>5 DEF AllCandidates, a, b, c, d

\* Sorted by position, the candidates are what they were.
LEMMA PositionsSorted ==
  ASSUME NEW t, IsList(t), NEW all, AreCandidates(t, all)
  PROVE  /\ AreCandidates(t, ByPosition(t, all)) /\ Of(ByPosition(t, all)) = Of(all)
         /\ \A i, j \in 1..Len(ByPosition(t, all)) : i <= j => ByPosition(t, all)[i].pos <= ByPosition(t, all)[j].pos
<1> DEFINE A == Of(all)
           key == [c \in A |-> c.pos]
           m == Len(t)
           b == InClasses(all, A, key, m)
<1>1. m \in Nat /\ all \in Seq(A) /\ IsList(all) /\ DOMAIN all = 1..Len(all)
  BY ListFacts, ListIsList DEF AreCandidates, IsList
<1>2. \A c \in A : c.pos \in 1..m /\ c.pos \in Nat
  BY <1>1 DEF AreCandidates, IsCandidate
<1>3. key \in [A -> Nat] /\ \A c \in A : key[c] = c.pos
  BY <1>2
<1> DEFINE w == [p \in 1..m |-> Where(all, LAMBDA c : c.pos = p)]
<1>4. ByPosition(t, all) = FlattenSeq(w)
  BY DEF ByPosition
<1>5. b = FlattenSeq([p \in 1..m |-> Chosen(all, Class(A, key, p))])
  BY DEF InClasses
<1>6. \A p \in 1..m : w[p] = Chosen(all, Class(A, key, p))
  <2> TAKE p \in 1..m
  <2> DEFINE P == {c \in {all[i] : i \in DOMAIN all} : c.pos = p}
             Q == Class(A, key, p)
  <2>1. w[p] = Chosen(all, P)
    BY DEF Where
  <2>2. \A c \in Of(all) : c \in P <=> c \in Q
    BY <1>1, <1>3 DEF Class, Of
  <2> HIDE DEF P, Q, A
  <2>3. Chosen(all, P) = Chosen(all, Q)
    BY <1>1, <2>2, ChosenSame
  <2> QED
    BY <2>1, <2>3 DEF Q
<1>7. ByPosition(t, all) = b
  <2>1. w = [p \in 1..m |-> Chosen(all, Class(A, key, p))]
    BY <1>6
  <2> HIDE DEF w
  <2> QED
    BY <1>4, <1>5, <2>1
<1>8. Of(all) = A
  OBVIOUS
<1> HIDE DEF key, m, w, A
<1>9. b \in Seq(A) /\ Of(b) = Keyed(all, key, m) /\ Sorted(b, key)
  BY <1>1, <1>3, SortedList
<1>10. Keyed(all, key, m) = Of(all)
  BY <1>2, <1>3, <1>8 DEF Keyed
<1>11. ASSUME NEW i \in 1..Len(b), NEW j \in 1..Len(b), i <= j PROVE b[i].pos <= b[j].pos
  <2>1. key[b[i]] <= key[b[j]]
    BY <1>9, <1>11 DEF Sorted
  <2>2. b[i] \in A /\ b[j] \in A
    BY <1>9, ElementOfSeq
  <2> QED
    BY <1>3, <2>1, <2>2
<1>12. IsList(b)
  BY <1>9, ListIsList
<1> QED
  BY <1>7, <1>9, <1>10, <1>11, <1>12 DEF AreCandidates

-----------------------------------------------------------------------------
(* The first of every book *)

\* Of a list sorted by position, the first candidate of every book.
LEMMA FirstsInOrder ==
  ASSUME NEW t, NEW s, AreCandidates(t, s),
         \A i, j \in 1..Len(s) : i <= j => s[i].pos <= s[j].pos
  PROVE  \E a : /\ IsList(a) /\ (\A k \in 1..Len(a) : a[k] \in Firsts(s))
                /\ (\A i, j \in 1..Len(a) : i < j => a[i] < a[j])
                /\ (\A f \in Firsts(s) : \E k \in 1..Len(a) : f = a[k])
                /\ IsList(OncePerBook(s)) /\ Len(OncePerBook(s)) = Len(a)
                /\ \A k \in 1..Len(a) : OncePerBook(s)[k] = s[a[k]].isbn
<1> DEFINE F == Firsts(s)
           a == Ascending(F)
           u == OncePerBook(s)
           n == Len(a)
<1>1. Len(s) \in Nat /\ DOMAIN s = 1..Len(s)
  BY ListFacts DEF AreCandidates
<1>2. F \in SUBSET (0..Len(s))
  BY <1>1 DEF Firsts
<1>3. Enumerates(a, F)
  BY <1>1, <1>2, AscendingFacts
<1> HIDE DEF F, n
<1>4. IsList(a) /\ DOMAIN a = 1..n /\ n \in Nat
  BY <1>3, ListFacts DEF Enumerates, n
<1>5. u = [k \in 1..n |-> s[a[k]].isbn]
  BY <1>4 DEF OncePerBook, IsbnsAt, F
<1> HIDE DEF u, a
<1>6. \A k \in 1..n : u[k] = s[a[k]].isbn
  BY <1>5
<1>7. IsList(u) /\ Len(u) = n
  <2>1. u = [k \in 1..n |-> u[k]]
    BY <1>5
  <2> QED
    BY <1>4, <2>1, FunctionIsList
<1>8. /\ \A k \in 1..n : a[k] \in F
      /\ \A i, j \in 1..n : i < j => a[i] < a[j]
      /\ \A f \in F : \E k \in 1..n : f = a[k]
  BY <1>3 DEF Enumerates, Of, n
<1> QED
  BY <1>4, <1>6, <1>7, <1>8 DEF u, F, n

LEMMA FirstAppears ==
  ASSUME NEW t, IsList(t), NEW all, NEW s, AreCandidates(t, s), Of(s) = Of(all), IsList(all),
         \A i, j \in 1..Len(s) : i <= j => s[i].pos <= s[j].pos,
         NEW f \in Firsts(s)
  PROVE  Appears(all, s[f].isbn) = s[f].pos
<1>1. Len(s) \in Nat /\ DOMAIN s = 1..Len(s) /\ f \in 1..Len(s)
  BY ListFacts DEF AreCandidates, Firsts
<1> DEFINE T == {c.pos : c \in {x \in ToSet(all) : SameBook(x, s[f].isbn)}}
<1>2. ToSet(all) = Of(s)
  <2>1. all \in Seq(ToSet(all))
    BY DEF IsList
  <2> QED
    BY <2>1, OfIsToSet
<1>3. \A k \in 1..Len(s) : s[k].pos \in Nat /\ s[k] \in Of(s)
  BY ListFacts DEF AreCandidates, IsCandidate, Of
<1>4. s[f].pos \in T
  BY <1>1, <1>2, <1>3 DEF SameBook
<1>5. ASSUME NEW y \in T PROVE y \in Nat /\ s[f].pos <= y
  <2>1. PICK k \in 1..Len(s) : y = s[k].pos /\ SameBook(s[k], s[f].isbn)
    BY <1>2 DEF Of
  <2>2. f <= k
    <3> SUFFICES ASSUME ~(f <= k) PROVE FALSE
      OBVIOUS
    <3>1. k \in 1..f - 1
      BY <1>1
    <3> QED
      BY <2>1, <3>1 DEF Firsts, SameBook
  <2> QED
    BY <1>1, <1>3, <2>1, <2>2
<1> HIDE DEF T
<1>6. T \in SUBSET Nat /\ T # {}
  BY <1>4, <1>5
<1>7. Min(T) \in T /\ Min(T) <= s[f].pos
  BY <1>4, <1>6, MinFacts
<1>8. s[f].pos <= Min(T) /\ Min(T) \in Nat
  BY <1>5, <1>7
<1>9. s[f].pos \in Nat
  BY <1>1, <1>3
<1>10. Min(T) = s[f].pos
  BY <1>7, <1>8, <1>9
<1> QED
  BY <1>10 DEF Appears, T

\* Every candidate is of the book of a first one.
LEMMA FirstOfBook ==
  ASSUME NEW s, IsList(s), NEW k \in 1..Len(s)
  PROVE  \E f \in Firsts(s) : SameBook(s[k], s[f].isbn)
<1> DEFINE T == {i \in 1..Len(s) : SameBook(s[k], s[i].isbn)}
<1>1. Len(s) \in Nat /\ DOMAIN s = 1..Len(s)
  BY ListFacts
<1>2. T \in SUBSET Nat /\ k \in T
  BY <1>1 DEF SameBook
<1>3. PICK f \in T : \A i \in T : f <= i
  BY <1>2, LeastMember
<1>4. \A j \in 1..f - 1 : ToISBN13(s[j].isbn) # ToISBN13(s[f].isbn)
  <2> SUFFICES ASSUME NEW j \in 1..f - 1, ToISBN13(s[j].isbn) = ToISBN13(s[f].isbn) PROVE FALSE
    OBVIOUS
  <2>1. j \in 1..Len(s) /\ ~(f <= j)
    BY <1>1
  <2>2. j \in T
    BY <2>1, <1>3 DEF SameBook
  <2> QED
    BY <1>3, <2>1, <2>2
<1>5. f \in Firsts(s)
  BY <1>1, <1>4 DEF Firsts
<1> QED
  BY <1>5

LEMMA BooksFound == ASSUME NEW t, IsList(t) PROVE OncePerBookInOrder(t, FindISBNs(t))
<1> DEFINE all == AllCandidates(t)
           s == ByPosition(t, all)
           u == OncePerBook(s)
<1>1. AreCandidates(t, all)
  BY AllCandidatesList
<1> HIDE DEF all
<1>2. /\ AreCandidates(t, s) /\ Of(s) = Of(all)
      /\ \A i, j \in 1..Len(s) : i <= j => s[i].pos <= s[j].pos
  BY <1>1, PositionsSorted
<1> HIDE DEF s
<1>3. PICK a : /\ IsList(a) /\ (\A k \in 1..Len(a) : a[k] \in Firsts(s))
               /\ (\A i, j \in 1..Len(a) : i < j => a[i] < a[j])
               /\ (\A f \in Firsts(s) : \E k \in 1..Len(a) : f = a[k])
               /\ IsList(u) /\ Len(u) = Len(a)
               /\ \A k \in 1..Len(a) : u[k] = s[a[k]].isbn
  BY <1>2, FirstsInOrder
<1>4. DOMAIN u = 1..Len(u)
  BY <1>3, ListFacts
<1> HIDE DEF u
<1> DEFINE n == Len(u)
<1>5. \A k \in 1..n : a[k] \in Firsts(s) /\ a[k] \in 1..Len(s) /\ u[k] = s[a[k]].isbn
  <2>1. DOMAIN s = 1..Len(s)
    BY <1>2, ListFacts DEF AreCandidates
  <2> QED
    BY <1>3, <2>1 DEF Firsts
<1>6. n \in Nat /\ Len(s) \in Nat /\ IsList(s) /\ IsList(all)
  BY <1>1, <1>2, <1>3, ListFacts DEF AreCandidates
<1> HIDE DEF n
<1>7. ASSUME NEW k \in 1..n PROVE Spelt(t, u[k])
  <2>1. s[a[k]] \in Of(s)
    BY <1>5 DEF Of
  <2> QED
    BY <1>2, <1>5, <2>1 DEF AreCandidates, IsCandidate
<1>8. \A k \in 1..n : Appears(all, u[k]) = s[a[k]].pos
  <2> TAKE k \in 1..n
  <2> DEFINE f == a[k]
  <2>1. f \in Firsts(s) /\ u[k] = s[f].isbn
    BY <1>5
  <2> HIDE DEF f
  <2>2. Appears(all, s[f].isbn) = s[f].pos
    BY <1>2, <1>6, <2>1, FirstAppears
  <2> QED
    BY <2>1, <2>2 DEF f
<1>9. ASSUME NEW i \in 1..n, NEW j \in 1..i - 1
      PROVE  ToISBN13(u[j]) # ToISBN13(u[i]) /\ Appears(all, u[j]) <= Appears(all, u[i])
  <2>1. j \in 1..n /\ j < i
    BY <1>6
  <2>2. a[j] < a[i]
    BY <1>3, <2>1 DEF n
  <2>3. a[j] \in 1..a[i] - 1
    BY <1>5, <1>6, <2>1, <2>2
  <2>4. ToISBN13(s[a[j]].isbn) # ToISBN13(s[a[i]].isbn)
    BY <1>5, <2>3 DEF Firsts
  <2>5. s[a[j]].pos <= s[a[i]].pos
    BY <1>2, <1>5, <1>6, <2>1, <2>2
  <2> QED
    BY <1>5, <1>8, <2>1, <2>4, <2>5
<1>10. ASSUME NEW c \in Of(all) PROVE \E i \in 1..n : SameBook(c, u[i])
  <2>1. PICK k \in 1..Len(s) : c = s[k]
    BY <1>2 DEF Of
  <2>2. PICK f \in Firsts(s) : SameBook(s[k], s[f].isbn)
    BY <1>6, FirstOfBook
  <2>3. PICK i \in 1..n : f = a[i]
    BY <1>3 DEF n
  <2> QED
    BY <1>5, <2>1, <2>2, <2>3
<1>11. ToSet(all) = Of(all)
  <2>1. all \in Seq(ToSet(all))
    BY <1>6 DEF IsList
  <2> QED
    BY <2>1, OfIsToSet
<1>12. u = FindISBNs(t)
  BY DEF FindISBNs, u, s, all
<1>13. OncePerBookInOrder(t, u)
  BY <1>4, <1>7, <1>9, <1>10, <1>11 DEF OncePerBookInOrder, Spelt, n, all
<1> QED
  BY <1>12, <1>13

-----------------------------------------------------------------------------
(* The search *)

\* What is found is book-valid, and checks.
LEMMA FoundCheck ==
  ASSUME NEW t, IsList(t), NEW isbn \in ToSet(FindISBNs(t))
  PROVE  Valid(isbn) /\ ~Placeholder(isbn) /\ Checked(isbn)
<1> DEFINE all == AllCandidates(t)
           s == ByPosition(t, all)
           u == OncePerBook(s)
<1>1. AreCandidates(t, s) /\ \A i, j \in 1..Len(s) : i <= j => s[i].pos <= s[j].pos
  BY AllCandidatesList, PositionsSorted
<1> HIDE DEF s
<1>2. PICK a : /\ \A k \in 1..Len(a) : a[k] \in Firsts(s)
               /\ IsList(u) /\ Len(u) = Len(a)
               /\ \A k \in 1..Len(a) : u[k] = s[a[k]].isbn
  BY <1>1, FirstsInOrder
<1>3. u = FindISBNs(t)
  BY DEF FindISBNs, s
<1> HIDE DEF u
<1>4. PICK k \in 1..Len(u) : isbn = u[k]
  <2>1. DOMAIN u = 1..Len(u)
    BY <1>2, ListFacts
  <2> QED
    BY <1>3, <2>1 DEF ToSet
<1> DEFINE f == a[k]
<1>5. f \in Firsts(s) /\ isbn = s[f].isbn
  BY <1>2, <1>4
<1> HIDE DEF f
<1>6. s[f] \in Of(s)
  <2>1. DOMAIN s = 1..Len(s)
    BY <1>1, ListFacts DEF AreCandidates
  <2> QED
    BY <1>5, <2>1 DEF Firsts, Of
<1>7. isbn # None /\ Spelt(t, isbn)
  BY <1>1, <1>5, <1>6 DEF AreCandidates, IsCandidate
<1>8. PICK p \in DOMAIN t : \E q \in p..Len(t) : isbn = ValidateBookISBN(SubSeq(t, p, q))
  BY <1>7 DEF Spelt
<1>9. PICK q \in p..Len(t) : isbn = ValidateBookISBN(SubSeq(t, p, q))
  BY <1>8
<1>10. p \in Int /\ q \in Int
  BY ListFacts
<1>11. IsList(SubSeq(t, p, q))
  BY <1>10, PieceList
<1>12. IsList(isbn) /\ Valid(isbn) /\ ~Placeholder(isbn)
  BY <1>7, <1>9, <1>11, Normalized
<1> QED
  BY <1>12, EveryIsbnChecks

\* A text is searched at once, and not read.
SearchInv ==
  /\ IsList(doc.digits)
  /\ doc.format = "isbn" => room = 0 /\ (err = "eof" => found = FindISBNs(doc.digits))

LEMMA SearchStep == SearchInv /\ [Next]_vars => SearchInv'
<1> SUFFICES ASSUME SearchInv, [Next]_vars PROVE SearchInv'
  OBVIOUS
<1>1. CASE Read
  <2>1. doc.format # "isbn" /\ doc' = doc
    <3>1. CASE \E n \in Rooms : doc.format # "isbn" /\ CallRead(n)
      BY <3>1 DEF CallRead, Return
    <3>2. CASE Copy \/ SeeCancel \/ ReadEnd
      <4>1. room > 0
        BY <3>2 DEF Copy, SeeCancel, ReadEnd, Scanning
      <4>2. doc' = doc
        BY <3>2, Zenon DEF Copy, SeeCancel, ReadEnd, Return
      <4> QED
        BY <4>1, <4>2 DEF SearchInv
    <3>3. CASE ReadFb2 \/ ReadFb3 \/ ReadPml \/ ReadLrf
      BY <3>3 DEF ReadFb2, ReadFb3, ReadPml, ReadLrf, Scan
    <3>4. CASE ReadHtml
      BY <3>4 DEF ReadHtml, HtmlToken, HtmlStop, HtmlFull, Filling, Html, Return
    <3> QED
      BY <1>1, <3>1, <3>2, <3>3, <3>4 DEF Read, ReadText
  <2> QED
    BY <2>1 DEF SearchInv
<1>2. CASE SearchIsbns
  BY <1>2 DEF SearchInv, SearchIsbns
<1>3. CASE Cancel /\ UNCHANGED found
  BY <1>3 DEF SearchInv, Cancel
<1>4. CASE (Result /\ UNCHANGED found) \/ UNCHANGED vars
  BY <1>4 DEF SearchInv, Result, vars, textvars
<1> QED
  BY <1>1, <1>2, <1>3, <1>4 DEF Next

(* What FindISBNs yields, on any text, are valid ISBNs and no placeholders, each
   spelt in the text, one for each book among the candidates and these in order
   of first appearance (tools/isbn_find.go).  No single wrong digit turns one into
   another, because every weight is prime to the modulus; its check digit is the
   only one its other digits have, so that it is what ToISBN10 makes of its
   ISBN-13, and the other way round (validISBN10, validISBN13 and the check
   digits of tools/isbn.go). *)
THEOREM FoundIsbnsAreSound == Spec => []IsbnsSound
<1>1. Init => SearchInv
  BY DocsAssumption DEF Init, InitText, SearchInv
<1>2. SearchInv => IsbnsSound
  BY FoundCheck, BooksFound DEF SearchInv, IsbnsSound
<1> QED
  BY <1>1, <1>2, SearchStep, PTL DEF Spec
=============================================================================
