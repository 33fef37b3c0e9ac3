------------------------------ MODULE ListLemmas ------------------------------
(***************************************************************************)
(* Induction over the natural numbers, as facts about sets of naturals,    *)
(* and what a filtered, a sorted and a flattened list hold.                *)
(***************************************************************************)
EXTENDS Selection, SequencesExt, SequenceTheorems, FiniteSetTheorems, WellFoundedInduction, TLAPS

NatRelation == {ss \in Nat \X Nat : ss[1] < ss[2]}

\* The library's theorem, with its operator expanded.
LEMMA NatWellFounded == IsWellFoundedOn(NatRelation, Nat)
BY NatLessThanWellFounded DEF OpToRel, NatRelation

\* A non-empty set of naturals has a least member.
LEMMA LeastMember ==
  ASSUME NEW T \in SUBSET Nat, T # {}
  PROVE  \E x \in T : \A y \in T : x <= y
<1>1. PICK x \in T : \A y \in T : ~ (<<y, x>> \in NatRelation)
  BY NatWellFounded, WFMin
<1>2. \A y \in T : x <= y
  <2> SUFFICES ASSUME NEW y \in T, ~(x <= y) PROVE FALSE
    OBVIOUS
  <2>1. y \in Nat /\ x \in Nat /\ y < x
    OBVIOUS
  <2>2. <<y, x>> \in NatRelation
    BY <2>1 DEF NatRelation
  <2> QED
    BY <1>1, <2>2
<1> QED
  BY <1>2

\* A set that has 0, and with every member the next, has every natural.
LEMMA AllNaturals ==
  ASSUME NEW S, 0 \in S, \A n \in Nat : n \in S => n + 1 \in S
  PROVE  Nat \subseteq S
<1> SUFFICES ASSUME NEW m \in Nat, m \notin S PROVE FALSE
  OBVIOUS
<1>1. PICK x \in {n \in Nat : n \notin S} : \A y \in {n \in Nat : n \notin S} : x <= y
  BY LeastMember
<1>2. x - 1 \in Nat /\ x - 1 \notin S
  BY <1>1
<1> QED
  BY <1>1, <1>2

\* f repeats the function F m times from a.
Repeats(f, a, F, m) == f[0] = a /\ \A k \in 1..m : f[k] = F[<<k, f[k - 1]>>]

HasRun(S, a, F, m) == \E f \in [0..m -> S] : Repeats(f, a, F, m)

\* What a recursive definition over 0..m takes to have a value.
LEMMA Iterates ==
  ASSUME NEW S, NEW a \in S, NEW F \in [Nat \X S -> S], NEW m \in Nat
  PROVE  HasRun(S, a, F, m)
<1> DEFINE Runs(f, i) == f[0] = a /\ \A k \in 1..i : f[k] = F[<<k, f[k - 1]>>]
           T == {i \in Nat : \E f \in [0..i -> S] : Runs(f, i)}
<1>1. 0 \in T
  <2> DEFINE g == [k \in 0..0 |-> a]
  <2>1. g \in [0..0 -> S] /\ g[0] = a /\ 1..0 = {}
    OBVIOUS
  <2> QED
    BY <2>1
<1>2. \A i \in Nat : i \in T => i + 1 \in T
  <2> SUFFICES ASSUME NEW i \in Nat, NEW f \in [0..i -> S], Runs(f, i)
               PROVE  \E g \in [0..i + 1 -> S] : Runs(g, i + 1)
    <3> HIDE DEF Runs
    <3> QED
      OBVIOUS
  <2> DEFINE last == F[<<i + 1, f[i]>>]
             g == [k \in 0..i + 1 |-> IF k = i + 1 THEN last ELSE f[k]]
  <2>1. last \in S
    OBVIOUS
  <2> HIDE DEF last
  <2>2. g \in [0..i + 1 -> S]
    BY <2>1
  <2>3. g[i + 1] = last /\ \A k \in 0..i : g[k] = f[k]
    OBVIOUS
  <2> HIDE DEF g
  <2>4. g[0] = a
    BY <2>3
  <2>5. ASSUME NEW k \in 1..i + 1 PROVE g[k] = F[<<k, g[k - 1]>>]
    <3>1. CASE k = i + 1
      <4>1. k - 1 = i /\ g[k - 1] = f[i]
        BY <2>3, <3>1
      <4> QED
        BY <2>3, <3>1, <4>1 DEF last
    <3>2. CASE k \in 1..i
      <4>1. k \in 0..i /\ k - 1 \in 0..i
        BY <3>2
      <4>2. g[k] = f[k] /\ g[k - 1] = f[k - 1]
        BY <2>3, <4>1
      <4> QED
        BY <3>2, <4>2
    <3> QED
      BY <3>1, <3>2
  <2> QED
    BY <2>2, <2>4, <2>5
<1> HIDE DEF T
<1>3. Nat \subseteq T
  BY <1>1, <1>2, AllNaturals
<1> QED
  BY <1>3 DEF T, HasRun, Repeats

-----------------------------------------------------------------------------
(* Lists *)

\* The elements of a list, and that none occurs twice.
Of(s)   == {s[i] : i \in 1..Len(s)}
Once(s) == \A i, j \in 1..Len(s) : s[i] = s[j] => i = j

LEMMA OfIsToSet ==
  ASSUME NEW A, NEW s \in Seq(A)
  PROVE  ToSet(s) = Of(s)
BY LenProperties DEF ToSet, Of

LEMMA EmptyList ==
  ASSUME NEW A
  PROVE  <<>> \in Seq(A) /\ Of(<<>>) = {} /\ Once(<<>>)
<1>1. <<>> \in Seq(A) /\ Len(<<>>) = 0
  BY EmptySeq
<1> QED
  BY <1>1 DEF Of, Once

LEMMA OfEmpty ==
  ASSUME NEW A, NEW s \in Seq(A)
  PROVE  s = <<>> <=> Of(s) = {}
<1>1. s # <<>> => Len(s) \in Nat \ {0}
  BY EmptySeq
<1>2. s # <<>> => s[1] \in Of(s)
  BY <1>1 DEF Of
<1> QED
  BY <1>2, EmptyList

LEMMA ConcatList ==
  ASSUME NEW A, NEW s \in Seq(A), NEW t \in Seq(A)
  PROVE  /\ s \o t \in Seq(A)
         /\ Of(s \o t) = Of(s) \cup Of(t)
         /\ Once(s) /\ Once(t) /\ Of(s) \cap Of(t) = {} => Once(s \o t)
<1> DEFINE u == s \o t
           m == Len(s)
           n == Len(t)
<1>1. /\ m \in Nat /\ n \in Nat /\ u \in Seq(A) /\ Len(u) = m + n
      /\ \A i \in 1..m + n : u[i] = IF i <= m THEN s[i] ELSE t[i - m]
  BY ConcatProperties, LenProperties
<1> HIDE DEF u
<1>2. ASSUME NEW i \in 1..m + n
      PROVE  \/ i \in 1..m /\ u[i] = s[i]
             \/ i - m \in 1..n /\ u[i] = t[i - m] /\ i > m
  BY <1>1
<1>3. \A i \in 1..m : i \in 1..m + n /\ u[i] = s[i]
  BY <1>1
<1>4. \A i \in 1..n : m + i \in 1..m + n /\ u[m + i] = t[i]
  BY <1>1
<1> HIDE DEF m, n
<1>5. Of(u) = Of(s) \cup Of(t)
  <2>1. Of(u) = {u[i] : i \in 1..m + n}
    BY <1>1 DEF Of
  <2>2. Of(s) = {s[i] : i \in 1..m} /\ Of(t) = {t[i] : i \in 1..n}
    BY DEF Of, m, n
  <2>3. \A i \in 1..m + n : u[i] \in Of(s) \cup Of(t)
    BY <1>2, <2>2
  <2>4. \A i \in 1..m : s[i] \in Of(u)
    BY <1>3, <2>1
  <2>5. \A i \in 1..n : t[i] \in Of(u)
    BY <1>4, <2>1
  <2> QED
    BY <2>1, <2>2, <2>3, <2>4, <2>5
<1>6. ASSUME Once(s), Once(t), Of(s) \cap Of(t) = {} PROVE Once(u)
  <2> SUFFICES ASSUME NEW i \in 1..m + n, NEW j \in 1..m + n, u[i] = u[j] PROVE i = j
    BY <1>1 DEF Once
  <2>1. CASE i \in 1..m /\ u[i] = s[i] /\ j \in 1..m /\ u[j] = s[j]
    BY <1>6, <2>1 DEF Once, m
  <2>2. CASE /\ i - m \in 1..n /\ u[i] = t[i - m] /\ i > m
             /\ j - m \in 1..n /\ u[j] = t[j - m] /\ j > m
    <3>1. i - m = j - m
      BY <1>6, <2>2 DEF Once, n
    <3> QED
      BY <1>1, <3>1
  <2>3. CASE i \in 1..m /\ u[i] = s[i] /\ j - m \in 1..n /\ u[j] = t[j - m]
    BY <1>6, <2>3 DEF Of, m, n
  <2>4. CASE j \in 1..m /\ u[j] = s[j] /\ i - m \in 1..n /\ u[i] = t[i - m]
    BY <1>6, <2>4 DEF Of, m, n
  <2> QED
    BY <1>2, <2>1, <2>2, <2>3, <2>4
<1> QED
  BY <1>1, <1>5, <1>6 DEF u

LEMMA AppendList ==
  ASSUME NEW A, NEW s \in Seq(A), NEW x \in A
  PROVE  /\ Append(s, x) \in Seq(A)
         /\ Of(Append(s, x)) = Of(s) \cup {x}
         /\ Once(s) /\ x \notin Of(s) => Once(Append(s, x))
<1>1. <<x>> \in Seq(A) /\ Len(<<x>>) = 1 /\ <<x>>[1] = x
  OBVIOUS
<1>2. Of(<<x>>) = {x} /\ Once(<<x>>)
  BY <1>1 DEF Of, Once
<1>3. Append(s, x) = s \o <<x>>
  BY AppendIsConcat
<1> DEFINE t == <<x>>
<1> HIDE DEF t
<1>4. t \in Seq(A) /\ Of(t) = {x} /\ Once(t) /\ Append(s, x) = s \o t
  BY <1>1, <1>2, <1>3 DEF t
<1>5. x \notin Of(s) => Of(s) \cap Of(t) = {}
  BY <1>4
<1>6. /\ s \o t \in Seq(A)
      /\ Of(s \o t) = Of(s) \cup Of(t)
      /\ Once(s) /\ Once(t) /\ Of(s) \cap Of(t) = {} => Once(s \o t)
  BY <1>4, ConcatList
<1> QED
  BY <1>4, <1>5, <1>6

-----------------------------------------------------------------------------
(* Filtering *)

Selects(u, s, P) ==
  u = [k \in 0..Len(s) |->
        IF k = 0 THEN <<>>
        ELSE IF s[k] \in P THEN Append(u[k - 1], s[k]) ELSE u[k - 1]]

LEMMA ChosenRecurs ==
  ASSUME NEW A, NEW s \in Seq(A), NEW P
  PROVE  \E u : Selects(u, s, P) /\ Chosen(s, P) = u[Len(s)]
<1> DEFINE n == Len(s)
           F == [p \in Nat \X Seq(A) |->
                  IF p[1] \in 1..n /\ s[p[1]] \in P THEN Append(p[2], s[p[1]]) ELSE p[2]]
<1>1. n \in Nat /\ \A k \in 1..n : s[k] \in A
  BY LenProperties, ElementOfSeq
<1>2. F \in [Nat \X Seq(A) -> Seq(A)]
  <2> SUFFICES ASSUME NEW k \in Nat, NEW t \in Seq(A)
               PROVE (IF k \in 1..n /\ s[k] \in P THEN Append(t, s[k]) ELSE t) \in Seq(A)
    OBVIOUS
  <2> QED
    BY <1>1, AppendProperties
<1>3. \A k \in 1..n, t \in Seq(A) : F[<<k, t>>] = IF s[k] \in P THEN Append(t, s[k]) ELSE t
  BY <1>1
<1> HIDE DEF F
<1>4. PICK f \in [0..n -> Seq(A)] : f[0] = <<>> /\ \A k \in 1..n : f[k] = F[<<k, f[k - 1]>>]
  <2> DEFINE S == Seq(A)
             a == <<>>
  <2>1. n \in Nat /\ a \in S /\ F \in [Nat \X S -> S]
    BY <1>1, <1>2, EmptySeq
  <2> HIDE DEF S, a, n
  <2>2. HasRun(S, a, F, n)
    BY <2>1, Iterates
  <2> QED
    BY <2>2 DEF HasRun, Repeats, S, a, n
<1>5. Selects(f, s, P)
  <2>1. ASSUME NEW k \in 0..n
        PROVE  f[k] = IF k = 0 THEN <<>>
                      ELSE IF s[k] \in P THEN Append(f[k - 1], s[k]) ELSE f[k - 1]
    <3>1. CASE k = 0
      BY <1>4, <3>1
    <3>2. CASE k # 0
      <4>1. k \in 1..n /\ k - 1 \in 0..n
        BY <1>1, <3>2
      <4>2. f[k - 1] \in Seq(A)
        BY <1>4, <4>1
      <4> QED
        BY <1>3, <1>4, <3>2, <4>1, <4>2
    <3> QED
      BY <3>1, <3>2
  <2>2. f = [k \in 0..n |-> f[k]]
    BY <1>4
  <2> QED
    BY <2>1, <2>2 DEF Selects
<1>6. Chosen(s, P) = (CHOOSE u : Selects(u, s, P))[n]
  BY DEF Chosen, Selects
<1> QED
  BY <1>5, <1>6

\* A filtered list has exactly the wanted elements, as often as before.
LEMMA ChosenList ==
  ASSUME NEW A, NEW s \in Seq(A), NEW P
  PROVE  /\ Chosen(s, P) \in Seq(A)
         /\ Of(Chosen(s, P)) = Of(s) \cap P
         /\ Once(s) => Once(Chosen(s, P))
<1> DEFINE n == Len(s)
<1>1. PICK u : Selects(u, s, P) /\ Chosen(s, P) = u[n]
  BY ChosenRecurs
<1>2. n \in Nat /\ \A k \in 1..n : s[k] \in A
  BY LenProperties, ElementOfSeq
<1>3. /\ u[0] = <<>>
      /\ \A k \in 1..n : u[k] = IF s[k] \in P THEN Append(u[k - 1], s[k]) ELSE u[k - 1]
  <2>1. \A k \in 0..n : u[k] = IF k = 0 THEN <<>>
                               ELSE IF s[k] \in P THEN Append(u[k - 1], s[k]) ELSE u[k - 1]
    BY <1>1 DEF Selects
  <2> QED
    BY <1>2, <2>1
<1> DEFINE First(k) == {s[i] : i \in 1..k}
           Good(k) == /\ u[k] \in Seq(A) /\ Of(u[k]) = First(k) \cap P
                      /\ Once(s) => Once(u[k])
           T == {k \in Nat : k <= n => Good(k)}
<1>4. 0 \in T
  <2>1. First(0) = {} /\ u[0] \in Seq(A) /\ Of(u[0]) = {} /\ Once(u[0])
    BY <1>3, EmptyList
  <2>2. First(0) \cap P = {}
    BY <2>1
  <2> HIDE DEF First
  <2>3. Good(0)
    BY <2>1, <2>2
  <2> HIDE DEF Good
  <2> QED
    BY <2>3
<1>5. \A k \in Nat : k \in T => k + 1 \in T
  <2> SUFFICES ASSUME NEW k \in Nat, k + 1 <= n, Good(k) PROVE Good(k + 1)
    <3> HIDE DEF Good, n
    <3> QED
      BY <1>2 DEF n
  <2> DEFINE x == s[k + 1]
  <2>1. k + 1 \in 1..n /\ x \in A /\ (k + 1) - 1 = k
    BY <1>2
  <2>2. First(k + 1) = First(k) \cup {x}
    OBVIOUS
  <2>3. Once(s) => x \notin First(k)
    <3> SUFFICES ASSUME Once(s), NEW i \in 1..k, s[i] = x PROVE FALSE
      OBVIOUS
    <3>1. i \in 1..n /\ i # k + 1
      BY <1>2
    <3> QED
      BY <2>1, <3>1 DEF Once
  <2>4. u[k + 1] = IF x \in P THEN Append(u[k], x) ELSE u[k]
    BY <1>3, <2>1
  <2> HIDE DEF First, x
  <2>5. CASE x \in P
    BY <2>1, <2>2, <2>3, <2>4, <2>5, AppendList
  <2>6. CASE x \notin P
    BY <2>2, <2>4, <2>6
  <2> QED
    BY <2>5, <2>6
<1> HIDE DEF T
<1>6. Nat \subseteq T
  BY <1>4, <1>5, AllNaturals
<1>7. Good(n)
  <2> HIDE DEF Good
  <2>1. n \in T /\ n <= n
    BY <1>2, <1>6
  <2> QED
    BY <2>1 DEF T
<1> QED
  BY <1>1, <1>7 DEF Of

\* The wanted positions up to k.
Hits(s, P, k) == {i \in 1..k : s[i] \in P}

LEMMA HitsFinite ==
  ASSUME NEW s, NEW P, NEW k \in Nat
  PROVE  /\ IsFiniteSet(Hits(s, P, k)) /\ Cardinality(Hits(s, P, k)) \in Nat
         /\ s[k + 1] \notin P => Hits(s, P, k + 1) = Hits(s, P, k)
         /\ s[k + 1] \in P => /\ Hits(s, P, k + 1) = Hits(s, P, k) \cup {k + 1}
                              /\ Cardinality(Hits(s, P, k + 1)) = Cardinality(Hits(s, P, k)) + 1
<1>1. IsFiniteSet(1..k) /\ Hits(s, P, k) \subseteq 1..k
  BY FS_Interval DEF Hits
<1>2. IsFiniteSet(Hits(s, P, k)) /\ Cardinality(Hits(s, P, k)) \in Nat
  BY <1>1, FS_Subset, FS_CardinalityType
<1>3. k + 1 \notin 1..k /\ \A i : i \in 1..k + 1 <=> i \in 1..k \/ i = k + 1
  OBVIOUS
<1>4. s[k + 1] \notin P => Hits(s, P, k + 1) = Hits(s, P, k)
  BY <1>3 DEF Hits
<1>5. s[k + 1] \in P => Hits(s, P, k + 1) = Hits(s, P, k) \cup {k + 1}
  BY <1>3 DEF Hits
<1>6. k + 1 \notin Hits(s, P, k)
  BY <1>3 DEF Hits
<1>7. Cardinality(Hits(s, P, k) \cup {k + 1}) = Cardinality(Hits(s, P, k)) + 1
  BY <1>2, <1>6, FS_AddElement
<1> QED
  BY <1>2, <1>4, <1>5, <1>7

\* A wanted element stands at the place its position has among the wanted ones.
LEMMA ChosenPlaces ==
  ASSUME NEW A, NEW s \in Seq(A), NEW P
  PROVE  /\ Len(Chosen(s, P)) = Cardinality(Hits(s, P, Len(s)))
         /\ \A i \in Hits(s, P, Len(s)) :
              /\ Cardinality(Hits(s, P, i)) \in 1..Len(Chosen(s, P))
              /\ Chosen(s, P)[Cardinality(Hits(s, P, i))] = s[i]
         /\ \A n \in 1..Len(Chosen(s, P)) :
              \E i \in Hits(s, P, Len(s)) : n = Cardinality(Hits(s, P, i))
<1> DEFINE n == Len(s)
           R(i) == Cardinality(Hits(s, P, i))
<1>1. PICK u : Selects(u, s, P) /\ Chosen(s, P) = u[n]
  BY ChosenRecurs
<1>2. n \in Nat /\ \A k \in 1..n : s[k] \in A
  BY LenProperties, ElementOfSeq
<1>3. /\ u[0] = <<>>
      /\ \A k \in 1..n : u[k] = IF s[k] \in P THEN Append(u[k - 1], s[k]) ELSE u[k - 1]
  <2>1. \A k \in 0..n : u[k] = IF k = 0 THEN <<>>
                               ELSE IF s[k] \in P THEN Append(u[k - 1], s[k]) ELSE u[k - 1]
    BY <1>1 DEF Selects
  <2> QED
    BY <1>2, <2>1
<1> DEFINE Good(k) == /\ u[k] \in Seq(A) /\ Len(u[k]) = R(k)
                      /\ \A i \in Hits(s, P, k) : R(i) \in 1..Len(u[k]) /\ u[k][R(i)] = s[i]
                      /\ \A m \in 1..Len(u[k]) : \E i \in Hits(s, P, k) : m = R(i)
           T == {k \in Nat : k <= n => Good(k)}
<1>4. 0 \in T
  <2>1. Hits(s, P, 0) = {} /\ u[0] = <<>> /\ <<>> \in Seq(A) /\ Len(<<>>) = 0
    BY <1>3, EmptySeq DEF Hits
  <2>2. R(0) = 0
    BY <2>1, FS_EmptySet
  <2>3. \A m \in 1..0 : FALSE
    OBVIOUS
  <2> HIDE DEF R
  <2> QED
    BY <2>1, <2>2, <2>3
<1>5. \A k \in Nat : k \in T => k + 1 \in T
  <2> SUFFICES ASSUME NEW k \in Nat, k + 1 <= n, Good(k) PROVE Good(k + 1)
    <3> HIDE DEF Good, n
    <3> QED
      BY <1>2 DEF n
  <2> DEFINE x == s[k + 1]
  <2>1. k + 1 \in 1..n /\ x \in A /\ (k + 1) - 1 = k
    BY <1>2
  <2>2. u[k + 1] = IF x \in P THEN Append(u[k], x) ELSE u[k]
    BY <1>3, <2>1
  <2>3. /\ x \notin P => Hits(s, P, k + 1) = Hits(s, P, k)
        /\ x \in P => Hits(s, P, k + 1) = Hits(s, P, k) \cup {k + 1} /\ R(k + 1) = R(k) + 1
        /\ R(k) \in Nat
    BY HitsFinite
  <2>4. u[k] \in Seq(A) /\ Len(u[k]) = R(k)
    OBVIOUS
  <2>5. /\ \A i \in Hits(s, P, k) : R(i) \in 1..R(k) /\ u[k][R(i)] = s[i]
        /\ \A m \in 1..R(k) : \E i \in Hits(s, P, k) : m = R(i)
    BY <2>4
  <2> HIDE DEF x, R
  <2>6. CASE x \in P
    <3>1. /\ u[k + 1] = Append(u[k], x) /\ R(k + 1) = R(k) + 1
          /\ Hits(s, P, k + 1) = Hits(s, P, k) \cup {k + 1}
      BY <2>2, <2>3, <2>6
    <3>2. /\ u[k + 1] \in Seq(A) /\ Len(u[k + 1]) = R(k) + 1
          /\ \A m \in 1..R(k) : u[k + 1][m] = u[k][m]
          /\ u[k + 1][R(k) + 1] = x
      BY <2>1, <2>4, <3>1, AppendProperties
    <3>3. \A i \in Hits(s, P, k) : R(i) \in 1..R(k) + 1 /\ u[k + 1][R(i)] = s[i]
      BY <2>3, <2>5, <3>2
    <3>4. \A i \in Hits(s, P, k + 1) : R(i) \in 1..R(k) + 1 /\ u[k + 1][R(i)] = s[i]
      BY <2>3, <3>1, <3>2, <3>3 DEF x
    <3>5. \A m \in 1..R(k) + 1 : m \in 1..R(k) \/ m = R(k + 1)
      BY <2>3, <3>1
    <3>6. \A m \in 1..R(k) + 1 : \E i \in Hits(s, P, k + 1) : m = R(i)
      BY <2>5, <3>1, <3>5
    <3> QED
      BY <3>1, <3>2, <3>4, <3>6
  <2>7. CASE x \notin P
    <3>1. u[k + 1] = u[k] /\ Hits(s, P, k + 1) = Hits(s, P, k) /\ R(k + 1) = R(k)
      BY <2>2, <2>3, <2>7 DEF R
    <3> QED
      BY <2>4, <2>5, <3>1
  <2> QED
    BY <2>6, <2>7
<1> HIDE DEF T
<1>6. Nat \subseteq T
  BY <1>4, <1>5, AllNaturals
<1>7. Good(n)
  <2> HIDE DEF Good
  <2>1. n \in T /\ n <= n
    BY <1>2, <1>6
  <2> QED
    BY <2>1 DEF T
<1> QED
  BY <1>1, <1>7

\* Later wanted positions have later places.
LEMMA PlacesInOrder ==
  ASSUME NEW s, NEW P, NEW i \in Nat, NEW j \in Nat, i < j, s[j] \in P
  PROVE  Cardinality(Hits(s, P, i)) < Cardinality(Hits(s, P, j))
<1>1. Hits(s, P, i) \cup {j} \subseteq Hits(s, P, j) /\ j \notin Hits(s, P, i)
  BY DEF Hits
<1>2. /\ IsFiniteSet(Hits(s, P, i)) /\ IsFiniteSet(Hits(s, P, j))
      /\ Cardinality(Hits(s, P, i)) \in Nat /\ Cardinality(Hits(s, P, j)) \in Nat
  BY HitsFinite
<1>3. Cardinality(Hits(s, P, i) \cup {j}) = Cardinality(Hits(s, P, i)) + 1
  BY <1>1, <1>2, FS_AddElement
<1>4. Cardinality(Hits(s, P, i) \cup {j}) <= Cardinality(Hits(s, P, j))
  BY <1>1, <1>2, FS_Subset
<1> QED
  BY <1>2, <1>3, <1>4

\* A filtered list begins with the first wanted element.
LEMMA ChosenFirst ==
  ASSUME NEW A, NEW s \in Seq(A), NEW P
  PROVE  /\ Chosen(s, P) = <<>> <=> Hits(s, P, Len(s)) = {}
         /\ \A i \in Hits(s, P, Len(s)) :
              (\A j \in Hits(s, P, Len(s)) : i <= j) => Chosen(s, P) # <<>> /\ Chosen(s, P)[1] = s[i]
<1> DEFINE H == Hits(s, P, Len(s))
           c == Chosen(s, P)
<1>1. Len(s) \in Nat /\ H \subseteq 1..Len(s) /\ IsFiniteSet(H) /\ \A i \in H : i \in Nat /\ s[i] \in P
  <2>1. Len(s) \in Nat
    BY LenProperties
  <2>2. IsFiniteSet(H)
    BY <2>1, HitsFinite
  <2> QED
    BY <2>1, <2>2 DEF Hits
<1>2. c \in Seq(A) /\ Len(c) = Cardinality(H) /\ Len(c) \in Nat
  BY ChosenPlaces, ChosenList, LenProperties
<1>3. c = <<>> <=> H = {}
  BY <1>1, <1>2, FS_EmptySet, EmptySeq
<1>4. ASSUME NEW i \in H, \A j \in H : i <= j
      PROVE  c # <<>> /\ c[1] = s[i]
  <2>1. i \in Nat \ {0} /\ s[i] \in P
    BY <1>1
  <2>2. \A j \in 1..i : s[j] \in P => j = i
    <3> SUFFICES ASSUME NEW j \in 1..i, s[j] \in P PROVE j = i
      OBVIOUS
    <3>1. j \in H
      BY <1>1, <2>1 DEF Hits
    <3> QED
      BY <1>4, <2>1, <3>1
  <2>3. Hits(s, P, i) = {i}
    BY <2>1, <2>2 DEF Hits
  <2>4. Cardinality(Hits(s, P, i)) = 1
    BY <2>3, FS_Singleton
  <2>5. c[Cardinality(Hits(s, P, i))] = s[i]
    BY <1>4, ChosenPlaces
  <2> QED
    BY <1>3, <1>4, <2>4, <2>5
<1> QED
  BY <1>3, <1>4

\* A filtered list is the list without some elements.
LEMMA ChosenSubsequence ==
  ASSUME NEW A, NEW s \in Seq(A), NEW P
  PROVE  \E f \in [1..Len(Chosen(s, P)) -> Hits(s, P, Len(s))] :
           \A n \in 1..Len(Chosen(s, P)) :
             /\ Chosen(s, P)[n] = s[f[n]]
             /\ \A k \in 1..Len(Chosen(s, P)) : n < k => f[n] < f[k]
<1> DEFINE H == Hits(s, P, Len(s))
           c == Chosen(s, P)
           Place(i) == Cardinality(Hits(s, P, i))
           f == [n \in 1..Len(c) |-> CHOOSE i \in H : n = Place(i)]
<1>1. H \subseteq Nat /\ \A i \in H : s[i] \in P
  <2>1. Len(s) \in Nat
    BY LenProperties
  <2> QED
    BY <2>1 DEF Hits
<1>2. /\ \A n \in 1..Len(c) : \E i \in H : n = Place(i)
      /\ \A i \in H : c[Place(i)] = s[i]
  BY ChosenPlaces
<1>3. \A i, j \in H : i < j => Place(i) < Place(j)
  BY <1>1, PlacesInOrder
<1>4. \A i \in H : Place(i) \in Nat
  BY <1>1, HitsFinite
<1>5. Len(c) \in Nat
  BY ChosenList, LenProperties
<1> HIDE DEF H, c, Place
<1>6. \A n \in 1..Len(c) : f[n] \in H /\ n = Place(f[n])
  BY <1>2
<1>7. f \in [1..Len(c) -> H]
  BY <1>6
<1> HIDE DEF f
<1>8. ASSUME NEW n \in 1..Len(c)
      PROVE  /\ c[n] = s[f[n]]
             /\ \A k \in 1..Len(c) : n < k => f[n] < f[k]
  <2>1. c[n] = s[f[n]]
    BY <1>2, <1>6
  <2>2. ASSUME NEW k \in 1..Len(c), n < k, ~(f[n] < f[k]) PROVE FALSE
    <3>1. /\ f[n] \in H /\ f[k] \in H /\ f[n] \in Nat /\ f[k] \in Nat
          /\ n = Place(f[n]) /\ k = Place(f[k])
      BY <1>1, <1>6
    <3>2. f[k] < f[n] \/ f[k] = f[n]
      BY <2>2, <3>1
    <3>3. k < n \/ k = n
      BY <1>3, <3>1, <3>2
    <3> QED
      BY <1>5, <2>2, <3>3
  <2> QED
    BY <2>1, <2>2
<1> QED
  BY <1>7, <1>8 DEF H, c

\* Filtering what a filtered list is turned into, element by element, keeps the
\* positions that pass both filters.
LEMMA ChosenOfChosen ==
  ASSUME NEW A, NEW s \in Seq(A), NEW P,
         NEW B, NEW t \in Seq(B), Len(t) = Len(Chosen(s, P)), NEW Q,
         NEW R, \A i \in 1..Len(s) : s[i] \in R <=> s[i] \in P /\ t[Cardinality(Hits(s, P, i))] \in Q
  PROVE  /\ Len(Chosen(t, Q)) = Cardinality(Hits(s, R, Len(s)))
         /\ \A i \in Hits(s, R, Len(s)) :
              /\ Chosen(t, Q)[Cardinality(Hits(s, R, i))] = t[Cardinality(Hits(s, P, i))]
              /\ s[i] \in P
              /\ Chosen(s, P)[Cardinality(Hits(s, P, i))] = s[i]
              /\ Cardinality(Hits(s, P, i)) \in 1..Len(t)
<1> DEFINE n == Len(s)
           Ps(k) == Cardinality(Hits(s, P, k))
           Qs(k) == Cardinality(Hits(t, Q, k))
           Rs(k) == Cardinality(Hits(s, R, k))
           T == {k \in Nat : k <= n => Qs(Ps(k)) = Rs(k)}
<1>1. n \in Nat /\ \A k \in Nat : k + 1 <= n => k + 1 \in 1..n
  BY LenProperties
<1>2. 0 \in T
  <2>1. Hits(s, P, 0) = {} /\ Hits(s, R, 0) = {} /\ Hits(t, Q, 0) = {}
    BY DEF Hits
  <2>2. Cardinality({}) = 0
    BY FS_EmptySet
  <2> QED
    BY <2>1, <2>2
<1>3. \A k \in Nat : k \in T => k + 1 \in T
  <2> SUFFICES ASSUME NEW k \in Nat, k + 1 <= n, Qs(Ps(k)) = Rs(k) PROVE Qs(Ps(k + 1)) = Rs(k + 1)
    <3> HIDE DEF n, Ps, Qs, Rs
    <3> QED
      BY <1>1
  <2>1. /\ s[k + 1] \notin P => Hits(s, P, k + 1) = Hits(s, P, k)
        /\ s[k + 1] \in P => Ps(k + 1) = Ps(k) + 1
        /\ Ps(k) \in Nat
    BY HitsFinite
  <2>2. /\ s[k + 1] \notin R => Hits(s, R, k + 1) = Hits(s, R, k)
        /\ s[k + 1] \in R => Rs(k + 1) = Rs(k) + 1
    BY HitsFinite
  <2>3. /\ t[Ps(k) + 1] \notin Q => Hits(t, Q, Ps(k) + 1) = Hits(t, Q, Ps(k))
        /\ t[Ps(k) + 1] \in Q => Qs(Ps(k) + 1) = Qs(Ps(k)) + 1
    BY <2>1, HitsFinite
  <2>4. s[k + 1] \in R <=> s[k + 1] \in P /\ t[Ps(k + 1)] \in Q
    BY <1>1
  <2>5. CASE s[k + 1] \notin P
    BY <2>1, <2>2, <2>4, <2>5
  <2>6. CASE s[k + 1] \in P
    <3>1. Ps(k + 1) = Ps(k) + 1
      BY <2>1, <2>6
    <3>2. CASE s[k + 1] \in R
      <4>1. t[Ps(k) + 1] \in Q
        BY <2>4, <3>1, <3>2
      <4> HIDE DEF Ps, Qs, Rs
      <4> QED
        BY <2>2, <2>3, <3>1, <3>2, <4>1
    <3>3. CASE s[k + 1] \notin R
      <4>1. t[Ps(k) + 1] \notin Q
        BY <2>4, <2>6, <3>1, <3>3
      <4>2. Qs(Ps(k) + 1) = Qs(Ps(k)) /\ Rs(k + 1) = Rs(k)
        BY <2>2, <2>3, <3>3, <4>1
      <4> HIDE DEF Ps, Qs, Rs
      <4> QED
        BY <3>1, <4>2
    <3> QED
      BY <3>2, <3>3
  <2> QED
    BY <2>5, <2>6
<1> HIDE DEF T
<1>4. Nat \subseteq T
  BY <1>2, <1>3, AllNaturals
<1>5. \A k \in 0..n : Qs(Ps(k)) = Rs(k)
  BY <1>1, <1>4 DEF T
<1>6. /\ Len(t) = Ps(n)
      /\ \A i \in Hits(s, P, n) : Ps(i) \in 1..Len(t) /\ Chosen(s, P)[Ps(i)] = s[i]
  BY ChosenPlaces
<1>7. /\ Len(Chosen(t, Q)) = Qs(Len(t))
      /\ \A j \in Hits(t, Q, Len(t)) : Chosen(t, Q)[Qs(j)] = t[j]
  BY ChosenPlaces
<1>8. Len(Chosen(t, Q)) = Rs(n)
  BY <1>1, <1>5, <1>6, <1>7
<1>9. ASSUME NEW i \in Hits(s, R, n)
      PROVE  /\ Chosen(t, Q)[Rs(i)] = t[Ps(i)] /\ s[i] \in P
             /\ Chosen(s, P)[Ps(i)] = s[i] /\ Ps(i) \in 1..Len(t)
  <2>1. i \in 1..n /\ s[i] \in R /\ i \in 0..n
    BY <1>1 DEF Hits
  <2>2. s[i] \in P /\ t[Ps(i)] \in Q
    BY <2>1
  <2>3. i \in Hits(s, P, n)
    BY <2>1, <2>2 DEF Hits
  <2>4. Ps(i) \in Hits(t, Q, Len(t))
    BY <1>6, <2>2, <2>3 DEF Hits
  <2>5. Chosen(t, Q)[Qs(Ps(i))] = t[Ps(i)] /\ Qs(Ps(i)) = Rs(i)
    BY <1>5, <1>7, <2>1, <2>4
  <2> QED
    BY <1>6, <2>2, <2>3, <2>5
<1> QED
  BY <1>8, <1>9

-----------------------------------------------------------------------------
(* Sorting by a key, class after class *)

Class(A, key, n) == {x \in A : key[x] = n}

\* The classes of the keys 1 to m, one after the other.
InClasses(s, A, key, m) == FlattenSeq([n \in 1..m |-> Chosen(s, Class(A, key, n))])

\* The elements of s with such keys.
Keyed(s, key, m) == {x \in Of(s) : key[x] \in 1..m}

Sorted(t, key) == \A i, j \in 1..Len(t) : i <= j => key[t[i]] <= key[t[j]]

Joins(u, ss) ==
  u = [i \in 1..Len(ss) |-> IF i = 1 THEN ss[i] ELSE u[i - 1] \o ss[i]]

LEMMA FlattenRecurs ==
  ASSUME NEW A, NEW ss \in Seq(Seq(A)), ss # <<>>
  PROVE  \E u : Joins(u, ss) /\ FlattenSeq(ss) = u[Len(ss)]
<1> DEFINE n == Len(ss)
           F == [p \in Nat \X Seq(A) |-> IF p[1] \in 1..n THEN p[2] \o ss[p[1]] ELSE p[2]]
<1>1. n \in Nat \ {0} /\ \A k \in 1..n : ss[k] \in Seq(A)
  BY EmptySeq, ElementOfSeq
<1>2. F \in [Nat \X Seq(A) -> Seq(A)]
  <2> SUFFICES ASSUME NEW k \in Nat, NEW t \in Seq(A)
               PROVE (IF k \in 1..n THEN t \o ss[k] ELSE t) \in Seq(A)
    OBVIOUS
  <2> QED
    BY <1>1, ConcatProperties
<1>3. \A k \in 1..n, t \in Seq(A) : F[<<k, t>>] = t \o ss[k]
  <2> TAKE k \in 1..n, t \in Seq(A)
  <2>1. k \in Nat /\ <<k, t>> \in Nat \X Seq(A)
    BY <1>1
  <2> HIDE DEF n
  <2> QED
    BY <2>1
<1> HIDE DEF F
<1>4. PICK f \in [0..n -> Seq(A)] : f[0] = <<>> /\ \A k \in 1..n : f[k] = F[<<k, f[k - 1]>>]
  <2> DEFINE S == Seq(A)
             a == <<>>
  <2>1. n \in Nat /\ a \in S /\ F \in [Nat \X S -> S]
    BY <1>1, <1>2, EmptySeq
  <2> HIDE DEF S, a, n
  <2>2. HasRun(S, a, F, n)
    BY <2>1, Iterates
  <2> QED
    BY <2>2 DEF HasRun, Repeats, S, a, n
<1> DEFINE u == [i \in 1..n |-> f[i]]
<1>5. \A k \in 1..n : u[k] = f[k] /\ f[k - 1] \in Seq(A) /\ f[k] = f[k - 1] \o ss[k]
  <2> TAKE k \in 1..n
  <2>1. k - 1 \in 0..n
    BY <1>1
  <2> QED
    BY <1>3, <1>4, <2>1
<1> HIDE DEF u
<1>6. \A k \in 1..n : u[k] = IF k = 1 THEN ss[k] ELSE u[k - 1] \o ss[k]
  <2> TAKE k \in 1..n
  <2>1. CASE k = 1
    <3>1. u[k] = <<>> \o ss[k]
      <4>1. f[k - 1] = <<>>
        BY <1>4, <2>1
      <4> QED
        BY <1>5, <4>1
    <3> QED
      BY <1>1, <2>1, <3>1, ConcatEmptySeq
  <2>2. CASE k # 1
    <3>1. k - 1 \in 1..n
      BY <1>1, <2>2
    <3> QED
      BY <1>5, <2>2, <3>1
  <2> QED
    BY <2>1, <2>2
<1>7. Joins(u, ss)
  <2>1. u = [i \in 1..n |-> u[i]]
    BY DEF u
  <2> QED
    BY <1>6, <2>1 DEF Joins
<1>8. FlattenSeq(ss) = (CHOOSE v : Joins(v, ss))[n]
  BY <1>1 DEF FlattenSeq, Joins
<1> QED
  BY <1>7, <1>8

\* The lists of a list, joined, are a list of the same elements.
LEMMA FlattenList ==
  ASSUME NEW A, NEW ss \in Seq(Seq(A))
  PROVE  FlattenSeq(ss) \in Seq(A)
<1> DEFINE n == Len(ss)
<1>1. n \in Nat /\ \A k \in 1..n : ss[k] \in Seq(A)
  BY LenProperties, ElementOfSeq
<1>2. CASE ss = <<>>
  <2>1. FlattenSeq(ss) = ss
    BY <1>2, EmptySeq DEF FlattenSeq
  <2> QED
    BY <1>2, <2>1, EmptySeq
<1>3. CASE ss # <<>>
  <2>1. PICK u : Joins(u, ss) /\ FlattenSeq(ss) = u[n]
    BY <1>3, FlattenRecurs
  <2>2. \A k \in 1..n : u[k] = IF k = 1 THEN ss[k] ELSE u[k - 1] \o ss[k]
    BY <2>1 DEF Joins
  <2>3. n # 0
    BY <1>3, EmptySeq
  <2> DEFINE T == {k \in Nat : k + 1 <= n => u[k + 1] \in Seq(A)}
  <2> HIDE DEF n
  <2>4. 0 \in T
    <3>1. 1 \in 1..n
      BY <1>1, <2>3
    <3> QED
      BY <1>1, <2>2, <3>1
  <2>5. \A k \in Nat : k \in T => k + 1 \in T
    <3> SUFFICES ASSUME NEW k \in Nat, (k + 1) + 1 <= n, u[k + 1] \in Seq(A)
                 PROVE  u[(k + 1) + 1] \in Seq(A)
      BY <1>1
    <3>1. (k + 1) + 1 \in 1..n /\ (k + 1) + 1 # 1 /\ ((k + 1) + 1) - 1 = k + 1
      BY <1>1
    <3>2. u[(k + 1) + 1] = u[k + 1] \o ss[(k + 1) + 1] /\ ss[(k + 1) + 1] \in Seq(A)
      BY <1>1, <2>2, <3>1
    <3> QED
      BY <3>2, ConcatProperties
  <2> HIDE DEF T
  <2>6. Nat \subseteq T
    BY <2>4, <2>5, AllNaturals
  <2>7. n - 1 \in T /\ (n - 1) + 1 = n
    BY <1>1, <2>3, <2>6
  <2> QED
    BY <1>1, <2>1, <2>7 DEF T
<1> QED
  BY <1>2, <1>3

\* Joining two sorted lists, the second with the larger keys.
LEMMA SortedConcat ==
  ASSUME NEW A, NEW key \in [A -> Nat], NEW s \in Seq(A), NEW t \in Seq(A),
         Sorted(s, key), NEW k \in Nat,
         \A x \in Of(s) : key[x] <= k, \A x \in Of(t) : key[x] = k + 1
  PROVE  Sorted(s \o t, key)
<1> DEFINE u == s \o t
           m == Len(s)
           n == Len(t)
<1>1. /\ m \in Nat /\ n \in Nat /\ u \in Seq(A) /\ Len(u) = m + n
      /\ \A i \in 1..m + n : u[i] = IF i <= m THEN s[i] ELSE t[i - m]
  BY ConcatProperties, LenProperties
<1> HIDE DEF u
<1> SUFFICES ASSUME NEW i \in 1..m + n, NEW j \in 1..m + n, i <= j PROVE key[u[i]] <= key[u[j]]
  BY <1>1 DEF Sorted, u
<1>2. \A l \in 1..m : s[l] \in Of(s) /\ s[l] \in A /\ key[s[l]] <= k
  BY ElementOfSeq DEF Of
<1>3. \A l \in 1..n : t[l] \in Of(t) /\ key[t[l]] = k + 1
  BY DEF Of
<1>4. CASE j <= m
  <2>1. i \in 1..m /\ j \in 1..m /\ u[i] = s[i] /\ u[j] = s[j]
    BY <1>1, <1>4
  <2> QED
    BY <2>1 DEF Sorted
<1>5. CASE i <= m /\ j > m
  <2>1. u[i] = s[i] /\ u[j] = t[j - m]
    <3>1. u[i] = s[i]
      BY <1>1, <1>5
    <3>2. ~(j <= m)
      BY <1>1, <1>5
    <3> QED
      BY <1>1, <3>1, <3>2
  <2>2. i \in 1..m /\ j - m \in 1..n
    <3> HIDE DEF m, n
    <3> QED
      BY <1>1, <1>5
  <2>3. s[i] \in A /\ key[s[i]] <= k /\ key[t[j - m]] = k + 1
    BY <1>2, <1>3, <2>2
  <2>4. key[s[i]] \in Nat
    BY <2>3
  <2> QED
    BY <2>1, <2>3, <2>4
<1>6. CASE i > m
  <2>1. i - m \in 1..n /\ u[i] = t[i - m]
    <3>1. i <= m + n /\ ~(i <= m) /\ i \in Nat
      BY <1>1, <1>6
    <3>2. u[i] = t[i - m]
      BY <1>1, <3>1
    <3> HIDE DEF m, n
    <3>3. i - m \in 1..n
      BY <1>1, <1>6, <3>1
    <3> QED
      BY <3>2, <3>3
  <2>2. j - m \in 1..n /\ u[j] = t[j - m]
    <3>1. j <= m + n /\ ~(j <= m) /\ j \in Nat
      BY <1>1, <1>6
    <3>2. u[j] = t[j - m]
      BY <1>1, <3>1
    <3> HIDE DEF m, n
    <3>3. j - m \in 1..n
      BY <1>1, <1>6, <3>1
    <3> QED
      BY <3>2, <3>3
  <2>3. key[u[i]] = k + 1
    BY <1>3, <2>1
  <2>4. key[u[j]] = k + 1
    BY <1>3, <2>2
  <2> QED
    BY <2>3, <2>4
<1> QED
  BY <1>1, <1>4, <1>5, <1>6

\* The elements with keys up to m, each as often as before, sorted.
LEMMA SortedList ==
  ASSUME NEW A, NEW s \in Seq(A), NEW key \in [A -> Nat], NEW m \in Nat
  PROVE  /\ InClasses(s, A, key, m) \in Seq(A)
         /\ Of(InClasses(s, A, key, m)) = Keyed(s, key, m)
         /\ Once(s) => Once(InClasses(s, A, key, m))
         /\ Sorted(InClasses(s, A, key, m), key)
<1> DEFINE ss == [n \in 1..m |-> Chosen(s, Class(A, key, n))]
<1>1. Of(s) \subseteq A
  BY ElementOfSeq DEF Of
<1>2. \A n \in 1..m : /\ ss[n] = Chosen(s, Class(A, key, n)) /\ ss[n] \in Seq(A)
                      /\ Of(ss[n]) = {x \in Of(s) : key[x] = n}
                      /\ Once(s) => Once(ss[n])
  <2> TAKE n \in 1..m
  <2>1. ss[n] = Chosen(s, Class(A, key, n))
    OBVIOUS
  <2>2. Of(s) \cap Class(A, key, n) = {x \in Of(s) : key[x] = n}
    BY <1>1 DEF Class
  <2> QED
    BY <2>1, <2>2, ChosenList
<1>3. ss \in Seq(Seq(A)) /\ Len(ss) = m
  BY <1>2
<1>4. CASE m = 0
  <2>1. FlattenSeq(ss) = ss /\ ss = <<>>
    BY <1>3, <1>4, EmptySeq DEF FlattenSeq
  <2>2. Keyed(s, key, m) = {}
    BY <1>4 DEF Keyed
  <2>3. Sorted(<<>>, key)
    BY EmptySeq DEF Sorted
  <2> QED
    BY <2>1, <2>2, <2>3, EmptyList DEF InClasses
<1>5. CASE m # 0
  <2>1. ss # <<>>
    BY <1>3, <1>5, EmptySeq
  <2>2. PICK u : Joins(u, ss) /\ FlattenSeq(ss) = u[m]
    BY <1>3, <2>1, FlattenRecurs
  <2>3. \A n \in 1..m : u[n] = IF n = 1 THEN ss[n] ELSE u[n - 1] \o ss[n]
    BY <1>3, <2>2 DEF Joins
  <2> DEFINE Low(n) == {x \in Of(s) : key[x] \in 1..n}
             Good(n) == /\ u[n] \in Seq(A) /\ Of(u[n]) = Low(n)
                        /\ Once(s) => Once(u[n])
                        /\ Sorted(u[n], key)
             T == {n \in Nat : n + 1 <= m => Good(n + 1)}
  <2> HIDE DEF ss
  <2>4. 0 \in T
    <3>1. u[1] = ss[1] /\ 1 \in 1..m
      BY <1>5, <2>3
    <3>2. Low(1) = {x \in Of(s) : key[x] = 1}
      OBVIOUS
    <3>3. Sorted(ss[1], key)
      <4> SUFFICES ASSUME NEW i \in 1..Len(ss[1]), NEW j \in 1..Len(ss[1])
                   PROVE  key[ss[1][i]] <= key[ss[1][j]]
        BY DEF Sorted
      <4>1. ss[1][i] \in Of(ss[1]) /\ ss[1][j] \in Of(ss[1])
        BY DEF Of
      <4>2. key[ss[1][i]] = 1 /\ key[ss[1][j]] = 1
        BY <1>2, <3>1, <4>1
      <4> QED
        BY <4>2
    <3>4. Good(1)
      <4> HIDE DEF Low
      <4> QED
        BY <1>2, <3>1, <3>2, <3>3
    <3> HIDE DEF Good
    <3> QED
      BY <3>4
  <2>5. \A n \in Nat : n \in T => n + 1 \in T
    <3> SUFFICES ASSUME NEW n \in Nat, n + 2 <= m, Good(n + 1) PROVE Good((n + 1) + 1)
      OBVIOUS
    <3> DEFINE k == n + 1
    <3>1. k \in Nat /\ k + 1 \in 1..m /\ (k + 1) - 1 = k /\ k + 1 # 1 /\ Good(k)
      OBVIOUS
    <3> HIDE DEF k
    <3>2. u[k + 1] = u[k] \o ss[k + 1]
      BY <2>3, <3>1
    <3>3. Of(ss[k + 1]) = {x \in Of(s) : key[x] = k + 1} /\ ss[k + 1] \in Seq(A)
          /\ (Once(s) => Once(ss[k + 1]))
      BY <1>2, <3>1
    <3>4. Low(k + 1) = Low(k) \cup {x \in Of(s) : key[x] = k + 1}
      BY <1>1, <3>1
    <3>5. Of(u[k]) \cap Of(ss[k + 1]) = {}
      BY <3>1, <3>3
    <3>6. Sorted(u[k + 1], key)
      <4>1. \A x \in Of(u[k]) : key[x] <= k
        BY <1>1, <3>1
      <4>2. \A x \in Of(ss[k + 1]) : key[x] = k + 1
        BY <3>3
      <4> QED
        BY <3>1, <3>2, <3>3, <4>1, <4>2, SortedConcat
    <3>7. /\ u[k] \in Seq(A) /\ ss[k + 1] \in Seq(A)
          /\ Of(u[k]) = Low(k) /\ (Once(s) => Once(u[k]))
      BY <3>1, <3>3
    <3> DEFINE v == u[k]
               w == ss[k + 1]
    <3> HIDE DEF Low, v, w
    <3>8. /\ v \o w \in Seq(A)
          /\ Of(v \o w) = Of(v) \cup Of(w)
          /\ Once(v) /\ Once(w) /\ Of(v) \cap Of(w) = {} => Once(v \o w)
      BY <3>7, ConcatList DEF v, w
    <3>9. Of(u[k + 1]) = Low(k + 1)
      BY <3>2, <3>3, <3>4, <3>7, <3>8 DEF v, w
    <3>10. Once(s) => Once(u[k + 1])
      BY <3>2, <3>3, <3>5, <3>7, <3>8 DEF v, w
    <3>11. u[k + 1] \in Seq(A)
      BY <3>2, <3>8 DEF v, w
    <3>12. Good(k + 1)
      BY <3>6, <3>9, <3>10, <3>11
    <3> QED
      BY <3>12 DEF k
  <2> HIDE DEF T
  <2>6. Nat \subseteq T
    BY <2>4, <2>5, AllNaturals
  <2>7. Good(m)
    <3>1. m - 1 \in Nat /\ (m - 1) + 1 = m
      BY <1>5
    <3> HIDE DEF Good
    <3> QED
      BY <2>6, <3>1 DEF T
  <2> QED
    BY <2>2, <2>7 DEF InClasses, Keyed, ss
<1> QED
  BY <1>4, <1>5

-----------------------------------------------------------------------------
(* Taking the first element off *)

LEMMA HeadIsFirst ==
  ASSUME NEW A, NEW s \in Seq(A), s # <<>>
  PROVE  /\ Len(s) \in Nat \ {0} /\ 1 \in 1..Len(s) /\ Head(s) = s[1] /\ Head(s) \in Of(s)
<1>1. Len(s) \in Nat \ {0}
  BY EmptySeq
<1>2. 1 \in 1..Len(s) /\ Len(s) \in 1..Len(s)
  BY <1>1
<1>3. Head(SubSeq(s, 1, Len(s))) = s[1]
  BY <1>2, HeadTailOfSubSeq
<1> QED
  BY <1>1, <1>2, <1>3, SubSeqFull DEF Of

LEMMA TailList ==
  ASSUME NEW A, NEW s \in Seq(A), s # <<>>, Once(s)
  PROVE  /\ Head(s) \in A /\ Tail(s) \in Seq(A) /\ Once(Tail(s))
         /\ Of(Tail(s)) = Of(s) \ {Head(s)}
<1> DEFINE n == Len(s)
           t == Tail(s)
<1>1. n \in Nat \ {0} /\ Head(s) = s[1] /\ 1 \in 1..n
  BY HeadIsFirst
<1>2. /\ Head(s) \in A /\ t \in Seq(A) /\ Len(t) = n - 1
      /\ \A i \in 1..n - 1 : t[i] = s[i + 1]
  BY HeadTailProperties
<1> HIDE DEF t
<1>3. \A i \in 1..n - 1 : i + 1 \in 1..n /\ i + 1 # 1
  BY <1>1
<1>4. \A i \in 1..n : i = 1 \/ (i - 1 \in 1..n - 1 /\ (i - 1) + 1 = i)
  BY <1>1
<1> HIDE DEF n
<1>5. Once(t)
  <2> SUFFICES ASSUME NEW i \in 1..n - 1, NEW j \in 1..n - 1, t[i] = t[j] PROVE i = j
    BY <1>2 DEF Once
  <2>1. s[i + 1] = s[j + 1] /\ i + 1 \in 1..n /\ j + 1 \in 1..n
    BY <1>2, <1>3
  <2>2. i + 1 = j + 1
    BY <2>1 DEF Once, n
  <2> QED
    BY <1>1, <2>2
<1>6. Of(t) \subseteq Of(s) \ {Head(s)}
  <2> SUFFICES ASSUME NEW i \in 1..n - 1 PROVE t[i] \in Of(s) /\ t[i] # s[1]
    BY <1>1, <1>2 DEF Of
  <2>1. t[i] = s[i + 1] /\ i + 1 \in 1..n /\ i + 1 # 1
    BY <1>2, <1>3
  <2> QED
    BY <1>1, <2>1 DEF Of, Once, n
<1>7. Of(s) \ {Head(s)} \subseteq Of(t)
  <2> SUFFICES ASSUME NEW i \in 1..n, s[i] # s[1] PROVE s[i] \in Of(t)
    BY <1>1 DEF Of, n
  <2>1. i - 1 \in 1..n - 1 /\ (i - 1) + 1 = i
    BY <1>4
  <2>2. t[i - 1] = s[i]
    BY <1>2, <2>1
  <2> QED
    BY <1>2, <2>1, <2>2 DEF Of
<1> QED
  BY <1>2, <1>5, <1>6, <1>7 DEF t

LEMMA SortedTail ==
  ASSUME NEW A, NEW s \in Seq(A), s # <<>>, NEW key, Sorted(s, key)
  PROVE  /\ Sorted(Tail(s), key)
         /\ \A x \in Of(s) : key[Head(s)] <= key[x]
<1> DEFINE n == Len(s)
           t == Tail(s)
<1>1. n \in Nat \ {0} /\ Head(s) = s[1] /\ 1 \in 1..n
  BY HeadIsFirst
<1>2. Len(t) = n - 1 /\ \A i \in 1..n - 1 : t[i] = s[i + 1]
  BY HeadTailProperties
<1> HIDE DEF t
<1>3. Sorted(t, key)
  <2> SUFFICES ASSUME NEW i \in 1..n - 1, NEW j \in 1..n - 1, i <= j
               PROVE  key[t[i]] <= key[t[j]]
    BY <1>2 DEF Sorted
  <2>1. i + 1 \in 1..n /\ j + 1 \in 1..n /\ i + 1 <= j + 1
    BY <1>1
  <2>2. key[s[i + 1]] <= key[s[j + 1]]
    BY <2>1 DEF Sorted
  <2> QED
    BY <1>2, <2>2
<1>4. ASSUME NEW i \in 1..n PROVE key[s[1]] <= key[s[i]]
  <2>1. 1 <= i
    BY <1>1
  <2> QED
    BY <1>1, <2>1 DEF Sorted
<1> QED
  BY <1>1, <1>3, <1>4 DEF t, Of

LEMMA SortedLast ==
  ASSUME NEW A, NEW s \in Seq(A), s # <<>>, NEW key, Sorted(s, key)
  PROVE  /\ Last(s) \in Of(s)
         /\ \A x \in Of(s) : key[x] <= key[Last(s)]
<1> DEFINE n == Len(s)
<1>1. n \in Nat \ {0}
  BY HeadIsFirst
<1>2. n \in 1..n /\ Last(s) = s[n] /\ \A i \in 1..n : i <= n
  BY <1>1 DEF Last
<1> HIDE DEF n
<1>3. \A i \in 1..n : key[s[i]] <= key[s[n]]
  BY <1>2 DEF Sorted, n
<1> QED
  BY <1>2, <1>3 DEF Of, n

\* The members of a list are in the set it is over.
LEMMA OfList ==
  ASSUME NEW A, NEW s \in Seq(A)
  PROVE  Len(s) \in Nat /\ Of(s) \subseteq A /\ \A i \in 1..Len(s) : s[i] \in Of(s)
BY LenProperties, ElementOfSeq DEF Of

-----------------------------------------------------------------------------
(* Lists that grow at their end *)

\* Two functions that start alike and go on alike are alike.
LEMMA RunsAgree ==
  ASSUME NEW f, NEW g, NEW n \in Nat, f[0] = g[0],
         \A k \in 1..n : f[k - 1] = g[k - 1] => f[k] = g[k]
  PROVE  \A k \in 0..n : f[k] = g[k]
<1> DEFINE T == {k \in Nat : k <= n => f[k] = g[k]}
<1>1. 0 \in T
  OBVIOUS
<1>2. \A k \in Nat : k \in T => k + 1 \in T
  <2> SUFFICES ASSUME NEW k \in Nat, k + 1 <= n, f[k] = g[k] PROVE f[k + 1] = g[k + 1]
    OBVIOUS
  <2>1. k + 1 \in 1..n /\ (k + 1) - 1 = k
    OBVIOUS
  <2> QED
    BY <2>1
<1> HIDE DEF T
<1>3. Nat \subseteq T
  BY <1>1, <1>2, AllNaturals
<1> QED
  BY <1>3 DEF T

\* A set that has the empty list, and with every list each by one element
\* longer, has every list.
LEMMA AllLists ==
  ASSUME NEW A, NEW S, <<>> \in S,
         \A s \in Seq(A), x \in A : s \in S => Append(s, x) \in S
  PROVE  Seq(A) \subseteq S
<1> DEFINE T == {n \in Nat : \A s \in Seq(A) : Len(s) = n => s \in S}
<1>1. 0 \in T
  BY EmptySeq
<1>2. \A n \in Nat : n \in T => n + 1 \in T
  <2> SUFFICES ASSUME NEW n \in Nat, \A s \in Seq(A) : Len(s) = n => s \in S,
                      NEW t \in Seq(A), Len(t) = n + 1
               PROVE  t \in S
    OBVIOUS
  <2>1. t # <<>>
    BY EmptySeq
  <2>2. PICK s \in Seq(A), x \in A : t = Append(s, x)
    BY <2>1, SequenceEmptyOrAppend
  <2>3. Len(s) = n
    BY <2>2, AppendProperties, LenProperties
  <2> QED
    BY <2>2, <2>3
<1> HIDE DEF T
<1>3. Nat \subseteq T
  BY <1>1, <1>2, AllNaturals
<1> QED
  BY <1>3, LenProperties DEF T

\* Appending to the second of two joined lists.
LEMMA ConcatAppend ==
  ASSUME NEW A, NEW s \in Seq(A), NEW t \in Seq(A), NEW x \in A
  PROVE  s \o Append(t, x) = Append(s \o t, x) /\ s \o t \in Seq(A) /\ s \o <<>> = s
<1>1. s \o t \in Seq(A) /\ s \o <<>> = s
  BY ConcatProperties, ConcatEmptySeq
<1>2. Append(t, x) = t \o <<x>> /\ Append(s \o t, x) = (s \o t) \o <<x>> /\ <<x>> \in Seq(A)
  BY <1>1, AppendIsConcat
<1> QED
  BY <1>1, <1>2, ConcatAssociative

\* Filtering a list with one more element.
LEMMA ChosenAppend ==
  ASSUME NEW A, NEW s \in Seq(A), NEW x \in A, NEW P
  PROVE  Chosen(Append(s, x), P) = IF x \in P THEN Append(Chosen(s, P), x) ELSE Chosen(s, P)
<1> DEFINE t == Append(s, x)
           n == Len(s)
<1>1. /\ t \in Seq(A) /\ Len(t) = n + 1 /\ n \in Nat
      /\ (\A i \in 1..n : t[i] = s[i]) /\ t[n + 1] = x
  BY AppendProperties, LenProperties
<1> HIDE DEF t
<1>2. PICK u : Selects(u, s, P) /\ Chosen(s, P) = u[n]
  BY ChosenRecurs
<1>3. PICK v : Selects(v, t, P) /\ Chosen(t, P) = v[n + 1]
  BY <1>1, ChosenRecurs
<1> HIDE DEF n
<1>4. \A k \in 0..n : u[k] = IF k = 0 THEN <<>>
                             ELSE IF s[k] \in P THEN Append(u[k - 1], s[k]) ELSE u[k - 1]
  BY <1>2 DEF Selects, n
<1>5. \A k \in 0..n + 1 : v[k] = IF k = 0 THEN <<>>
                                 ELSE IF t[k] \in P THEN Append(v[k - 1], t[k]) ELSE v[k - 1]
  BY <1>1, <1>3 DEF Selects
<1>6. u[0] = v[0]
  BY <1>1, <1>4, <1>5
<1>7. \A k \in 1..n : u[k - 1] = v[k - 1] => u[k] = v[k]
  BY <1>1, <1>4, <1>5
<1>8. u[n] = v[n]
  <2>1. n \in Nat
    BY <1>1
  <2>2. \A k \in 0..n : u[k] = v[k]
    BY <1>6, <1>7, <2>1, RunsAgree
  <2> QED
    BY <2>1, <2>2
<1>9. n + 1 \in 0..n + 1 /\ n + 1 # 0 /\ (n + 1) - 1 = n
  BY <1>1
<1>10. v[n + 1] = IF x \in P THEN Append(v[n], x) ELSE v[n]
  BY <1>1, <1>5, <1>9
<1> QED
  BY <1>2, <1>3, <1>8, <1>10 DEF t

LEMMA ChosenEmpty ==
  ASSUME NEW P
  PROVE  Chosen(<<>>, P) = <<>>
<1>1. <<>> \in Seq({}) /\ Of(<<>>) = {}
  BY EmptyList
<1> DEFINE s == <<>>
           A == {}
<1> HIDE DEF s, A
<1>2. s \in Seq(A) /\ Of(s) = {}
  BY <1>1 DEF s, A
<1>3. Chosen(s, P) \in Seq(A) /\ Of(Chosen(s, P)) = Of(s) \cap P
  BY <1>2, ChosenList
<1>4. Chosen(s, P) = <<>>
  BY <1>2, <1>3, OfEmpty
<1> QED
  BY <1>4 DEF s

\* Only what the list holds matters.
LEMMA ChosenSame ==
  ASSUME NEW A, NEW s \in Seq(A), NEW P, NEW Q, \A x \in Of(s) : x \in P <=> x \in Q
  PROVE  Chosen(s, P) = Chosen(s, Q)
<1> DEFINE Same(t) == (\A x \in Of(t) : x \in P <=> x \in Q) => Chosen(t, P) = Chosen(t, Q)
           S == {t \in Seq(A) : Same(t)}
<1>1. <<>> \in S
  BY ChosenEmpty, EmptySeq
<1>2. \A t \in Seq(A), x \in A : t \in S => Append(t, x) \in S
  <2> SUFFICES ASSUME NEW t \in Seq(A), NEW x \in A, Same(t)
               PROVE  Append(t, x) \in Seq(A) /\ Same(Append(t, x))
    OBVIOUS
  <2>1. Append(t, x) \in Seq(A) /\ Of(Append(t, x)) = Of(t) \cup {x}
    BY AppendList
  <2>2. Chosen(Append(t, x), P) = IF x \in P THEN Append(Chosen(t, P), x) ELSE Chosen(t, P)
    BY ChosenAppend
  <2>3. Chosen(Append(t, x), Q) = IF x \in Q THEN Append(Chosen(t, Q), x) ELSE Chosen(t, Q)
    BY ChosenAppend
  <2> QED
    BY <2>1, <2>2, <2>3
<1> HIDE DEF S
<1>3. Seq(A) \subseteq S
  BY <1>1, <1>2, AllLists
<1> QED
  BY <1>3 DEF S

\* Joining one more list.
LEMMA FlattenAppend ==
  ASSUME NEW A, NEW ss \in Seq(Seq(A)), NEW t \in Seq(A)
  PROVE  FlattenSeq(Append(ss, t)) = FlattenSeq(ss) \o t
<1> DEFINE tt == Append(ss, t)
           n == Len(ss)
<1>1. /\ tt \in Seq(Seq(A)) /\ Len(tt) = n + 1 /\ n \in Nat /\ tt # <<>>
      /\ (\A i \in 1..n : tt[i] = ss[i]) /\ tt[n + 1] = t
  BY AppendProperties, LenProperties
<1> HIDE DEF tt
<1>2. PICK v : Joins(v, tt) /\ FlattenSeq(tt) = v[n + 1]
  BY <1>1, FlattenRecurs
<1>3. \A k \in 1..n + 1 : v[k] = IF k = 1 THEN tt[k] ELSE v[k - 1] \o tt[k]
  BY <1>1, <1>2 DEF Joins
<1>4. CASE ss = <<>>
  <2>1. n = 0 /\ FlattenSeq(ss) = <<>>
    BY <1>4, EmptySeq DEF FlattenSeq
  <2>2. v[n + 1] = t
    BY <1>1, <1>3, <2>1
  <2> QED
    BY <1>2, <2>1, <2>2, ConcatEmptySeq DEF tt
<1>5. CASE ss # <<>>
  <2>1. PICK u : Joins(u, ss) /\ FlattenSeq(ss) = u[n]
    BY <1>5, FlattenRecurs
  <2>2. n # 0
    BY <1>5, EmptySeq
  <2> HIDE DEF n
  <2>3. \A k \in 1..n : u[k] = IF k = 1 THEN ss[k] ELSE u[k - 1] \o ss[k]
    BY <2>1 DEF Joins, n
  <2> DEFINE f == [k \in 0..n |-> IF k = 0 THEN 0 ELSE u[k]]
             g == [k \in 0..n |-> IF k = 0 THEN 0 ELSE v[k]]
  <2>4. f[0] = g[0] /\ \A k \in 1..n : f[k] = u[k] /\ g[k] = v[k]
    BY <1>1
  <2> HIDE DEF f, g
  <2>5. ASSUME NEW k \in 1..n, f[k - 1] = g[k - 1] PROVE f[k] = g[k]
    <3>1. CASE k = 1
      BY <1>1, <1>3, <2>3, <2>4, <3>1
    <3>2. CASE k # 1
      <4>1. k - 1 \in 1..n /\ k \in 1..n + 1
        BY <1>1, <3>2
      <4> QED
        BY <1>1, <1>3, <2>3, <2>4, <2>5, <3>2, <4>1
    <3> QED
      BY <3>1, <3>2
  <2>6. u[n] = v[n]
    <3>1. n \in Nat /\ f[0] = g[0] /\ \A k \in 1..n : f[k - 1] = g[k - 1] => f[k] = g[k]
      BY <1>1, <2>4, <2>5
    <3>2. \A k \in 0..n : f[k] = g[k]
      BY <3>1, RunsAgree
    <3> QED
      BY <1>1, <2>2, <2>4, <3>2
  <2>7. n + 1 \in 1..n + 1 /\ n + 1 # 1 /\ (n + 1) - 1 = n
    BY <1>1, <2>2
  <2>8. v[n + 1] = v[n] \o t
    BY <1>1, <1>3, <2>7
  <2> QED
    BY <1>2, <2>1, <2>6, <2>8 DEF tt
<1> QED
  BY <1>4, <1>5
=============================================================================
