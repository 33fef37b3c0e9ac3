------------------------- MODULE ReadingOrderProofs -------------------------
(***************************************************************************)
(* Proofs about ReadingOrder, for any chapters, texts, delimiters and      *)
(* buffers: what the stream returns is the joined text, no chapter is left *)
(* open, and nothing happens behind Close.                                 *)
(***************************************************************************)
EXTENDS ReadingOrder, ListLemmas, SequenceTheorems

-----------------------------------------------------------------------------
(* The joined text *)

\* The definition of JoinedTo, for the first m chapters.
Recurs(f, m, res, delim) ==
  f = [k \in 0..m |-> IF k = 0 THEN <<>>
                      ELSE f[k - 1] \o Lead(k, delim) \o Text[res[k]]]

LEMMA RecursExtends ==
  ASSUME NEW res, NEW delim, NEW m \in Nat, NEW f, Recurs(f, m, res, delim)
  PROVE  \E g : Recurs(g, m + 1, res, delim)
<1> DEFINE last == f[m] \o Lead(m + 1, delim) \o Text[res[m + 1]]
           g == [k \in 0..m + 1 |-> IF k = m + 1 THEN last ELSE f[k]]
<1>1. \A k \in 0..m : f[k] = IF k = 0 THEN <<>> ELSE f[k - 1] \o Lead(k, delim) \o Text[res[k]]
  BY DEF Recurs
<1> HIDE DEF last
<1>2. \A k \in 0..m : g[k] = f[k]
  OBVIOUS
<1>3. g[m + 1] = last
  OBVIOUS
<1> HIDE DEF g
<1>4. \A k \in 0..m + 1 : g[k] = IF k = 0 THEN <<>>
                                 ELSE g[k - 1] \o Lead(k, delim) \o Text[res[k]]
  <2> TAKE k \in 0..m + 1
  <2>1. CASE k = m + 1
    <3>1. k - 1 \in 0..m /\ k - 1 = m /\ k # 0
      BY <2>1
    <3>2. g[k - 1] = f[m]
      BY <1>2, <3>1
    <3> QED
      BY <1>3, <2>1, <3>1, <3>2 DEF last
  <2>2. CASE k = 0
    BY <1>1, <1>2, <2>2
  <2>3. CASE k \in 1..m
    <3>1. k \in 0..m /\ k - 1 \in 0..m /\ k # 0
      BY <2>3
    <3>2. g[k] = f[k] /\ g[k - 1] = f[k - 1]
      BY <1>2, <3>1
    <3> QED
      BY <1>1, <3>1, <3>2
  <2> QED
    BY <2>1, <2>2, <2>3
<1>5. Recurs(g, m + 1, res, delim)
  <2>1. g = [k \in 0..m + 1 |-> g[k]]
    BY DEF g
  <2> QED
    BY <1>4, <2>1 DEF Recurs
<1> QED
  BY <1>5

LEMMA RecursExists ==
  ASSUME NEW res, NEW delim
  PROVE  \A m \in Nat : \E f : Recurs(f, m, res, delim)
<1> DEFINE S == {m \in Nat : \E f : Recurs(f, m, res, delim)}
<1>1. 0 \in S
  <2>1. Recurs([k \in 0..0 |-> <<>>], 0, res, delim)
    BY DEF Recurs
  <2> QED
    BY <2>1
<1>2. \A n \in Nat : n \in S => n + 1 \in S
  BY RecursExtends
<1> HIDE DEF S
<1>3. Nat \subseteq S
  BY <1>1, <1>2, AllNaturals
<1> QED
  BY <1>3 DEF S

\* JoinedTo is what its equation says.
LEMMA JoinedRecurs ==
  ASSUME NEW res, Len(res) \in Nat, NEW delim
  PROVE  Recurs(JoinedTo(res, delim), Len(res), res, delim)
<1>1. \E f : Recurs(f, Len(res), res, delim)
  BY RecursExists
<1>2. JoinedTo(res, delim) = CHOOSE f : Recurs(f, Len(res), res, delim)
  BY DEF JoinedTo, Recurs
<1> QED
  BY <1>1, <1>2
-----------------------------------------------------------------------------
(* Prefixes *)

Begins(s, t) == \E u \in Seq(Byte) : t = s \o u

LEMMA PrefixIsPrefix ==
  ASSUME NEW s \in Seq(Byte), NEW t \in Seq(Byte), Begins(s, t)
  PROVE  IsPrefix(s, t)
<1>1. PICK u \in Seq(Byte) : t = s \o u
  BY DEF Begins
<1>2. Len(t) = Len(s) + Len(u) /\ Len(s) \in Nat /\ Len(u) \in Nat
  BY <1>1, ConcatProperties, LenProperties
<1>3. SubSeq(s, 1, Len(s)) = s
  BY SubSeqFull
<1>4. SubSeq(t, 1, Len(s)) = s
  <2>1. CASE s = <<>>
    BY <2>1, SubSeqEmpty
  <2>2. CASE s # <<>>
    <3>1. Len(s) >= 1
      BY <2>2, EmptySeq, LenProperties
    <3>2. SubSeq(s \o u, 1, Len(s)) = SubSeq(s, 1, Len(s))
      BY <1>2, <3>1, SubSeqOfConcat1
    <3> QED
      BY <1>1, <1>3, <3>2
  <2> QED
    BY <2>1, <2>2
<1> QED
  BY <1>2, <1>3, <1>4 DEF IsPrefix

LEMMA PrefixConcat ==
  ASSUME NEW s \in Seq(Byte), NEW t \in Seq(Byte)
  PROVE  Begins(s, s \o t)
BY DEF Begins

LEMMA PrefixOfConcat ==
  ASSUME NEW s \in Seq(Byte), NEW t \in Seq(Byte), NEW u \in Seq(Byte)
  PROVE  s \o t \o u \in Seq(Byte) /\ Begins(s, s \o t \o u)
<1>1. t \o u \in Seq(Byte) /\ s \o t \in Seq(Byte)
  BY ConcatProperties
<1>2. s \o t \o u = s \o (t \o u)
  BY ConcatAssociative
<1> DEFINE st == s \o t
<1>3. st \o u \in Seq(Byte)
  <2> HIDE DEF st
  <2> SUFFICES ASSUME st \in Seq(Byte) PROVE st \o u \in Seq(Byte)
    BY <1>1 DEF st
  <2> QED
    BY ConcatProperties
<1> QED
  BY <1>1, <1>2, <1>3 DEF Begins

LEMMA PrefixSelf ==
  ASSUME NEW s \in Seq(Byte)
  PROVE  Begins(s, s)
BY ConcatEmptySeq, EmptySeq DEF Begins

LEMMA PrefixTransitive ==
  ASSUME NEW s \in Seq(Byte), NEW t \in Seq(Byte), NEW u \in Seq(Byte),
         Begins(s, t), Begins(t, u)
  PROVE  Begins(s, u)
<1>1. PICK v \in Seq(Byte), w \in Seq(Byte) : t = s \o v /\ u = t \o w
  BY DEF Begins
<1>2. u = s \o (v \o w) /\ v \o w \in Seq(Byte)
  BY <1>1, ConcatAssociative, ConcatProperties
<1> QED
  BY <1>2 DEF Begins

-----------------------------------------------------------------------------
(* What has been returned when chapter k begins *)

Upto(k) == JoinedTo(resources, delimiter)[k]
Sent(k) == IF k \in 2..Len(resources) THEN delimiter ELSE <<>>
Before(k) == Upto(k - 1) \o Sent(k)
TextOf(k) == Text[resources[k]]

Arguments ==
  /\ resources \in Seq(Resources) /\ delimiter \in Seq(Byte)

LEMMA ArgumentTypes ==
  ASSUME Arguments
  PROVE  /\ Len(resources) \in Nat
         /\ \A k \in 1..Len(resources) : TextOf(k) \in Seq(Byte)
         /\ \A k : Sent(k) \in Seq(Byte) /\ Lead(k, delimiter) \in Seq(Byte)
         /\ \A k \in 1..Len(resources) : Sent(k) = Lead(k, delimiter)
BY OrdersAssumption, LenProperties, ElementOfSeq, EmptySeq DEF Arguments, TextOf, Sent, Lead

LEMMA UptoEquation ==
  ASSUME Arguments
  PROVE  /\ Upto(0) = <<>>
         /\ \A k \in 1..Len(resources) :
              Upto(k) = Upto(k - 1) \o Lead(k, delimiter) \o TextOf(k)
<1> DEFINE f == JoinedTo(resources, delimiter)
           n == Len(resources)
<1>1. Recurs(f, n, resources, delimiter) /\ n \in Nat
  BY JoinedRecurs, ArgumentTypes
<1> HIDE DEF f
<1>2. \A k \in 0..n : f[k] = IF k = 0 THEN <<>> ELSE f[k - 1] \o Lead(k, delimiter) \o Text[resources[k]]
  BY <1>1 DEF Recurs
<1>3. f[0] = <<>>
  BY <1>1, <1>2
<1>4. \A k \in 1..n : f[k] = f[k - 1] \o Lead(k, delimiter) \o Text[resources[k]]
  <2> TAKE k \in 1..n
  <2>1. k \in 0..n /\ k # 0
    BY <1>1
  <2> QED
    BY <1>2, <2>1
<1> QED
  BY <1>3, <1>4 DEF f, Upto, TextOf

LEMMA UptoType ==
  ASSUME Arguments
  PROVE  \A k \in 0..Len(resources) : Upto(k) \in Seq(Byte)
<1> DEFINE S == {k \in Nat : k <= Len(resources) => Upto(k) \in Seq(Byte)}
<1>1. 0 \in S
  BY UptoEquation, EmptySeq
<1>2. \A k \in Nat : k \in S => k + 1 \in S
  <2> SUFFICES ASSUME NEW k \in Nat, k + 1 <= Len(resources), Upto(k) \in Seq(Byte)
               PROVE  Upto(k + 1) \in Seq(Byte)
    BY ArgumentTypes
  <2>1. k + 1 \in 1..Len(resources) /\ (k + 1) - 1 = k
    BY ArgumentTypes
  <2>2. Lead(k + 1, delimiter) \in Seq(Byte)
    BY ArgumentTypes
  <2>3. TextOf(k + 1) \in Seq(Byte)
    BY <2>1, ArgumentTypes
  <2>4. Upto(k + 1) = Upto(k) \o Lead(k + 1, delimiter) \o TextOf(k + 1)
    BY <2>1, UptoEquation
  <2> QED
    BY <2>2, <2>3, <2>4, PrefixOfConcat
<1> HIDE DEF S
<1>3. Nat \subseteq S
  BY <1>1, <1>2, AllNaturals
<1> QED
  BY <1>3, ArgumentTypes DEF S

\* A chapter's text follows what is before it, and the next chapter's place
\* follows the text.
LEMMA BeforeNext ==
  ASSUME Arguments, NEW k \in 1..Len(resources)
  PROVE  /\ Before(k) \in Seq(Byte) /\ Upto(k) \in Seq(Byte)
         /\ Upto(k) = Before(k) \o TextOf(k)
         /\ Before(k + 1) = Upto(k) \o Sent(k + 1)
<1>1. Len(resources) \in Nat /\ k - 1 \in 0..Len(resources) /\ k \in 0..Len(resources)
  BY ArgumentTypes
<1>2. Upto(k - 1) \in Seq(Byte) /\ Upto(k) \in Seq(Byte)
  BY <1>1, UptoType
<1>3. Upto(k) = Upto(k - 1) \o Lead(k, delimiter) \o TextOf(k)
  BY UptoEquation
<1>4. Before(k) = Upto(k - 1) \o Lead(k, delimiter)
  BY ArgumentTypes DEF Before
<1>5. Before(k) \in Seq(Byte)
  BY <1>2, <1>4, ConcatProperties, ArgumentTypes
<1>6. Before(k + 1) = Upto(k) \o Sent(k + 1)
  <2>1. (k + 1) - 1 = k
    OBVIOUS
  <2> QED
    BY <2>1 DEF Before
<1> QED
  BY <1>2, <1>3, <1>4, <1>5, <1>6

\* Every beginning is a prefix of the whole.
LEMMA UptoPrefix ==
  ASSUME Arguments
  PROVE  \A k \in 0..Len(resources) : Begins(Upto(k), Whole)
<1> DEFINE n == Len(resources)
           S == {j \in Nat : j <= n => Begins(Upto(n - j), Whole)}
<1>1. n \in Nat /\ Whole = Upto(n) /\ Whole \in Seq(Byte)
  BY ArgumentTypes, UptoType DEF Whole, Joined, Upto
<1>2. 0 \in S
  BY <1>1, PrefixSelf
<1>3. \A j \in Nat : j \in S => j + 1 \in S
  <2> SUFFICES ASSUME NEW j \in Nat, j + 1 <= n, Begins(Upto(n - j), Whole)
               PROVE  Begins(Upto(n - (j + 1)), Whole)
    BY <1>1
  <2> DEFINE k == n - j
  <2>1. k \in 1..n /\ k - 1 \in 0..n /\ k \in 0..n /\ k - 1 = n - (j + 1)
    BY <1>1
  <2> HIDE DEF k
  <2>2. Upto(k - 1) \in Seq(Byte) /\ Upto(k) \in Seq(Byte) /\ TextOf(k) \in Seq(Byte)
    BY <2>1, UptoType, ArgumentTypes
  <2>3. Lead(k, delimiter) \in Seq(Byte)
    BY ArgumentTypes
  <2>4. Upto(k) = Upto(k - 1) \o Lead(k, delimiter) \o TextOf(k)
    BY <2>1, UptoEquation
  <2>5. Begins(Upto(k - 1), Upto(k))
    BY <2>2, <2>3, <2>4, PrefixOfConcat
  <2>6. Begins(Upto(k), Whole)
    BY DEF k
  <2> QED
    BY <1>1, <2>1, <2>2, <2>5, <2>6, PrefixTransitive
<1> HIDE DEF S
<1>4. Nat \subseteq S
  BY <1>2, <1>3, AllNaturals
<1>5. ASSUME NEW k \in 0..n PROVE Begins(Upto(k), Whole)
  <2>1. n - k \in Nat /\ n - k <= n /\ n - (n - k) = k
    BY <1>1
  <2> QED
    BY <1>4, <2>1 DEF S
<1> QED
  BY <1>5

-----------------------------------------------------------------------------
(* The inductive invariant *)

Types ==
  /\ Arguments
  /\ index \in 1..Len(resources) + 1
  /\ current # NotOpen => index <= Len(resources) /\ current \in 0..Len(TextOf(index))
  /\ delimiterPending \in Seq(Byte) /\ room \in Nat
  /\ reply.data \in Seq(Byte) /\ Len(reply.data) <= room
  /\ given \in Seq(Byte)

\* What the open chapter has handed over.
Taken == IF current = NotOpen THEN <<>> ELSE SubSeq(TextOf(index), 1, current)

\* Returned and owed together are what is before this place; behind Close only
\* a beginning of the whole.
Progress ==
  /\ delimiterPending # <<>> => current = NotOpen
  /\ ~closed => given \o delimiterPending = Before(index) \o Taken
  /\ Begins(given, Whole)
  /\ reply.err = "eof" => given = Whole

Held ==
  /\ handles = IF current = NotOpen THEN 0 ELSE 1
  /\ closed => current = NotOpen

IInv == Types /\ Progress /\ Held

LEMMA WholeType ==
  ASSUME Arguments
  PROVE  Whole \in Seq(Byte) /\ Whole = Upto(Len(resources))
BY ArgumentTypes, UptoType DEF Whole, Joined, Upto

\* Where the reader stands is in the whole.
LEMMA PlacePrefix ==
  ASSUME Arguments, NEW k \in 1..Len(resources), NEW u \in Seq(Byte), NEW v \in Seq(Byte),
         TextOf(k) = u \o v
  PROVE  /\ Before(k) \o u \in Seq(Byte)
         /\ Begins(Before(k) \o u, Whole)
         /\ (Before(k) \o u) \o v = Upto(k)
<1>1. /\ Before(k) \in Seq(Byte) /\ Upto(k) \in Seq(Byte)
      /\ Upto(k) = Before(k) \o TextOf(k) /\ TextOf(k) \in Seq(Byte)
  BY BeforeNext, ArgumentTypes
<1>2. Before(k) \o u \in Seq(Byte)
  BY <1>1, ConcatProperties
<1>3. (Before(k) \o u) \o v = Upto(k)
  <2>1. (Before(k) \o u) \o v = Before(k) \o (u \o v)
    BY <1>1, ConcatAssociative
  <2> QED
    BY <1>1, <2>1
<1>4. Begins(Before(k) \o u, Upto(k))
  BY <1>2, <1>3 DEF Begins
<1>5. k \in 0..Len(resources)
  BY ArgumentTypes
<1>6. Begins(Upto(k), Whole)
  BY <1>5, UptoPrefix
<1>7. Begins(Before(k) \o u, Whole)
  BY <1>1, <1>2, <1>4, <1>6, WholeType, PrefixTransitive
<1> QED
  BY <1>2, <1>3, <1>7

\* Before the last place, and at the end.
LEMMA EndPlace ==
  ASSUME Arguments
  PROVE  Before(Len(resources) + 1) = Whole
<1> DEFINE n == Len(resources)
<1>1. n \in Nat /\ (n + 1) - 1 = n /\ n + 1 \notin 2..n
  BY ArgumentTypes
<1> HIDE DEF n
<1>2. Before(n + 1) = Upto(n) \o <<>>
  BY <1>1 DEF Before, Sent, n
<1>3. Upto(n) \in Seq(Byte)
  BY <1>1, UptoType DEF n
<1> QED
  BY <1>2, <1>3, WholeType, ConcatEmptySeq DEF n

LEMMA InitIInv ==
  ASSUME NEW orders \in SUBSET Seq(Resources), NEW delims \in SUBSET Seq(Byte),
         InitStream(orders, delims)
  PROVE  IInv
<1>1. Arguments
  BY DEF InitStream, Arguments
<1>2. <<>> \in Seq(Byte) /\ Len(<<>>) = 0
  BY EmptySeq
<1>3. Types
  BY <1>1, <1>2, ArgumentTypes DEF InitStream, Types, NoReply, NotOpen
<1>4. Before(1) = <<>>
  <2>1. Upto(0) = <<>> /\ Sent(1) = <<>>
    BY <1>1, UptoEquation DEF Sent
  <2> QED
    BY <1>2, <2>1, ConcatEmptySeq DEF Before
<1>5. Begins(<<>>, Whole)
  BY <1>1, <1>2, WholeType, ConcatEmptySeq DEF Begins
<1>6. Progress
  BY <1>2, <1>4, <1>5, ConcatEmptySeq DEF InitStream, Progress, Taken, NoReply
<1>7. Held
  BY DEF InitStream, Held
<1> QED
  BY <1>3, <1>6, <1>7 DEF IInv

-----------------------------------------------------------------------------
(* What the steps have in common *)

\* The chapters and the delimiter never change.
SameBook == UNCHANGED <<resources, delimiter>>

LEMMA SameBookFacts ==
  ASSUME SameBook
  PROVE  /\ Arguments => Arguments'
         /\ Whole' = Whole
         /\ \A k : Before(k)' = Before(k) /\ Upto(k)' = Upto(k) /\ TextOf(k)' = TextOf(k) /\ Sent(k)' = Sent(k)
BY DEF SameBook, Arguments, Whole, Joined, JoinedTo, Lead, Before, Upto, Sent, TextOf

\* A Read that returns data.
LEMMA ReplyFacts ==
  ASSUME given \in Seq(Byte), NEW data \in Seq(Byte), NEW err, Len(data) <= room, room' = room, Reply(data, err)
  PROVE  /\ reply'.data \in Seq(Byte) /\ Len(reply'.data) <= room' /\ reply'.err = err
         /\ given' \in Seq(Byte) /\ given' = given \o data
BY ConcatProperties DEF Reply

LEMMA IdleHeld ==
  ASSUME IInv, UNCHANGED <<current, closed, handles>>
  PROVE  Held'
BY DEF IInv, Held

LEMMA SamePlace ==
  ASSUME IInv, UNCHANGED <<resources, delimiter, index, current, delimiterPending, closed>>, given' = given,
         room' \in Nat, reply'.data \in Seq(Byte), Len(reply'.data) <= room',
         reply'.err = "eof" => given = Whole
  PROVE  Types' /\ Progress'
<1>1. SameBook
  BY DEF SameBook
<1>2. /\ Arguments' /\ Whole' = Whole /\ TextOf(index)' = TextOf(index)
      /\ Before(index)' = Before(index)
  BY <1>1, SameBookFacts DEF IInv, Types
<1>3. Types'
  BY <1>2 DEF IInv, Types
<1>4. Taken' = Taken
  BY <1>2 DEF Taken
<1>5. Begins(given, Whole)' = Begins(given, Whole)
  BY <1>2 DEF Begins
<1>6. Progress'
  BY <1>2, <1>4, <1>5 DEF IInv, Progress
<1> QED
  BY <1>3, <1>6

LEMMA EmptyReply ==
  ASSUME IInv, NEW err, Reply(<<>>, err), UNCHANGED <<stream, room, handles>>,
         err = "eof" => given = Whole
  PROVE  IInv'
<1>1. given \in Seq(Byte) /\ <<>> \in Seq(Byte) /\ Len(<<>>) = 0 /\ room \in Nat
  BY EmptySeq DEF IInv, Types
<1>2. given' = given /\ reply'.data = <<>> /\ reply'.err = err
  BY <1>1, ConcatEmptySeq DEF Reply
<1> QED
  BY <1>1, <1>2, IdleHeld, SamePlace DEF IInv, stream

-----------------------------------------------------------------------------
(* The steps *)

LEMMA CallReadIInv ==
  ASSUME IInv, NEW n \in Nat, CallRead(n)
  PROVE  IInv'
<1>1. /\ UNCHANGED <<resources, delimiter, index, current, delimiterPending, closed, given, handles>>
      /\ room' \in Nat /\ reply'.data = <<>> /\ reply'.err = "none"
  BY DEF CallRead, stream, NoReply
<1>2. <<>> \in Seq(Byte) /\ Len(<<>>) = 0
  BY EmptySeq
<1>3. Types' /\ Progress'
  BY <1>1, <1>2, SamePlace
<1>4. Held'
  BY <1>1, IdleHeld
<1> QED
  BY <1>3, <1>4 DEF IInv

LEMMA ReadEmptyIInv ==
  ASSUME IInv, ReadEmpty
  PROVE  IInv'
<1>1. Arguments /\ resources = <<>> /\ Len(resources) = 0
  BY EmptySeq DEF IInv, Types, ReadEmpty
<1>2. Whole = <<>>
  BY <1>1, WholeType, UptoEquation
<1>3. given = <<>>
  <2>1. PICK u \in Seq(Byte) : given \o u = <<>>
    BY <1>2 DEF IInv, Progress, Begins
  <2>2. given \in Seq(Byte)
    BY DEF IInv, Types
  <2> QED
    BY <2>1, <2>2, ConcatEqualIffEmpty
<1> QED
  BY <1>2, <1>3, EmptyReply DEF ReadEmpty

LEMMA ReadNothingIInv ==
  ASSUME IInv, ReadNothing
  PROVE  IInv'
BY EmptyReply DEF ReadNothing

LEMMA ReadEndIInv ==
  ASSUME IInv, ReadEnd
  PROVE  IInv'
<1>1. /\ Arguments /\ index = Len(resources) + 1 /\ ~closed
      /\ current = NotOpen /\ delimiterPending = <<>> /\ given \in Seq(Byte)
  BY ArgumentTypes DEF IInv, Types, ReadEnd, Between, InLoop
<1>2. given \o <<>> = Whole \o <<>>
  BY <1>1, EndPlace DEF IInv, Progress, Taken
<1>3. given = Whole
  BY <1>1, <1>2, WholeType, ConcatEmptySeq
<1> QED
  BY <1>3, EmptyReply DEF ReadEnd

LEMMA CloseIInv ==
  ASSUME IInv, Close
  PROVE  IInv'
<1>1. CASE resources = <<>> \/ closed
  <2>1. UNCHANGED <<resources, delimiter, index, current, delimiterPending, closed, given, room, reply, handles>>
    BY <1>1 DEF Close
  <2>2. Types' /\ Progress'
    BY <2>1, SamePlace DEF IInv, Types, Progress
  <2> QED
    BY <2>1, <2>2, IdleHeld DEF IInv
<1>2. CASE ~(resources = <<>> \/ closed)
  <2>1. /\ UNCHANGED <<resources, delimiter, index, delimiterPending, given, room, reply>>
        /\ closed' = TRUE /\ current' = NotOpen
        /\ handles' = IF current = NotOpen THEN handles ELSE handles - 1
    BY <1>2 DEF Close
  <2>2. SameBook
    BY <2>1 DEF SameBook
  <2>3. Arguments' /\ Whole' = Whole
    BY <2>2, SameBookFacts DEF IInv, Types
  <2>4. Types'
    BY <2>1, <2>3 DEF IInv, Types
  <2>5. Begins(given, Whole)' = Begins(given, Whole)
    BY <2>1, <2>3 DEF Begins
  <2>6. Progress'
    BY <2>1, <2>3, <2>5 DEF IInv, Progress
  <2>7. Held'
    BY <2>1 DEF IInv, Held
  <2> QED
    BY <2>4, <2>6, <2>7 DEF IInv
<1> QED
  BY <1>1, <1>2

LEMMA OpenNextIInv ==
  ASSUME IInv, OpenNext
  PROVE  IInv'
<1>1. /\ Arguments /\ index \in 1..Len(resources) /\ current = NotOpen /\ delimiterPending = <<>> /\ ~closed
  BY ArgumentTypes DEF IInv, Types, OpenNext, Between, InLoop
<1>2. CASE current' = 0 /\ handles' = handles + 1 /\ Loop
  <2>1. UNCHANGED <<resources, delimiter, index, delimiterPending, closed, room, given, reply>>
    BY <1>2 DEF OpenNext, Loop
  <2>2. SameBook
    BY <2>1 DEF SameBook
  <2>3. /\ Arguments' /\ Whole' = Whole /\ TextOf(index)' = TextOf(index) /\ Before(index)' = Before(index)
    BY <2>1, <2>2, SameBookFacts DEF IInv, Types
  <2>4. TextOf(index) \in Seq(Byte) /\ Len(TextOf(index)) \in Nat
    BY <1>1, ArgumentTypes, LenProperties
  <2>5. Types'
    BY <1>1, <1>2, <2>1, <2>3, <2>4 DEF IInv, Types
  <2>6. Taken = <<>> /\ Taken' = <<>>
    BY <1>1, <1>2, SubSeqEmpty DEF Taken, NotOpen
  <2>7. Begins(given, Whole)' = Begins(given, Whole)
    BY <2>1, <2>3 DEF Begins
  <2>8. Progress'
    BY <1>1, <2>1, <2>3, <2>6, <2>7 DEF IInv, Progress
  <2>9. Held'
    BY <1>1, <1>2, <2>1 DEF IInv, Held, NotOpen
  <2> QED
    BY <2>5, <2>8, <2>9 DEF IInv
<1>3. CASE UNCHANGED <<current, handles>> /\ Reply(<<>>, "open")
  BY <1>3, EmptyReply DEF OpenNext, stream
<1> QED
  BY <1>2, <1>3 DEF OpenNext

\* A sequence in two pieces.
LEMMA CutInTwo ==
  ASSUME NEW s \in Seq(Byte), NEW n \in 0..Len(s)
  PROVE  /\ SubSeq(s, 1, n) \in Seq(Byte) /\ Len(SubSeq(s, 1, n)) = n
         /\ SubSeq(s, n + 1, Len(s)) \in Seq(Byte)
         /\ SubSeq(s, 1, n) \o SubSeq(s, n + 1, Len(s)) = s
<1>1. Len(s) \in Nat /\ \A i \in 1..Len(s) : s[i] \in Byte
  BY LenProperties, ElementOfSeq
<1>2. SubSeq(s, 1, n) \in Seq(Byte) /\ Len(SubSeq(s, 1, n)) = n
  BY <1>1, SubSeqProperties
<1>3. SubSeq(s, n + 1, Len(s)) \in Seq(Byte)
  BY <1>1, SubSeqProperties
<1>4. SubSeq(s, 1, n) \o SubSeq(s, n + 1, Len(s)) = SubSeq(s, 1, Len(s))
  <2>1. 1 \in 1..Len(s) + 1 /\ n \in 1 - 1..Len(s) /\ Len(s) \in n..Len(s)
    BY <1>1
  <2> QED
    BY <2>1, ConcatAdjacentSubSeq
<1> QED
  BY <1>2, <1>3, <1>4, SubSeqFull

\* Two ways to put three pieces together.
LEMMA Regroup ==
  ASSUME NEW s \in Seq(Byte), NEW t \in Seq(Byte), NEW u \in Seq(Byte)
  PROVE  s \o t \in Seq(Byte) /\ (s \o t) \o u = s \o (t \o u)
BY ConcatProperties, ConcatAssociative

\* The beginning of the end of a sequence.
LEMMA RestOfText ==
  ASSUME NEW t \in Seq(Byte), NEW c \in 0..Len(t), NEW n \in Nat, c + n <= Len(t)
  PROVE  SubSeq(SubSeq(t, c + 1, Len(t)), 1, n) = SubSeq(t, c + 1, c + n)
<1>1. Len(t) \in Nat
  BY LenProperties
<1>2. CASE n = 0
  BY <1>1, <1>2, SubSeqEmpty
<1>3. CASE n > 0
  <2>1. /\ c + 1 \in 1..Len(t) /\ Len(t) \in 1..Len(t)
        /\ 1 \in 1..Len(t) - (c + 1) + 1 /\ n \in 1..Len(t) - (c + 1) + 1
        /\ c + 1 + 1 - 1 = c + 1 /\ c + 1 + n - 1 = c + n
    BY <1>1, <1>3
  <2>2. SubSeq(SubSeq(t, c + 1, Len(t)), 1, n) = SubSeq(t, c + 1 + 1 - 1, c + 1 + n - 1)
    BY <2>1, SubSeqOfSubSeq
  <2> QED
    BY <2>1, <2>2
<1> QED
  BY <1>2, <1>3

LEMMA ReadDelimiterIInv ==
  ASSUME IInv, ReadDelimiter
  PROVE  IInv'
<1> DEFINE p == delimiterPending
           n == IF Len(p) < room THEN Len(p) ELSE room
           head == SubSeq(p, 1, n)
           tail == SubSeq(p, n + 1, Len(p))
<1>1. /\ p \in Seq(Byte) /\ room \in Nat /\ given \in Seq(Byte) /\ Arguments
      /\ current = NotOpen /\ ~closed /\ given \o p = Before(index) \o <<>>
      /\ index \in 1..Len(resources) + 1
  BY DEF IInv, Types, Progress, Taken, ReadDelimiter, InLoop
<1>2. n \in 0..Len(p) /\ n <= room
  BY <1>1, LenProperties
<1>3. /\ Reply(head, "none") /\ delimiterPending' = tail
      /\ UNCHANGED <<resources, delimiter, index, current, closed, room, handles>>
  BY DEF ReadDelimiter
<1> HIDE DEF n
<1>4. head \in Seq(Byte) /\ Len(head) = n /\ tail \in Seq(Byte) /\ head \o tail = p
  BY <1>1, <1>2, CutInTwo
<1> HIDE DEF head, tail, p
<1>5. /\ reply'.data \in Seq(Byte) /\ Len(reply'.data) <= room' /\ reply'.err = "none"
      /\ given' \in Seq(Byte) /\ given' = given \o head
  BY <1>1, <1>2, <1>3, <1>4, ReplyFacts
<1>6. given' \o tail = given \o p
  <2>1. (given \o head) \o tail = given \o (head \o tail)
    BY <1>1, <1>4, Regroup, Zenon
  <2> QED
    BY <1>4, <1>5, <2>1, Zenon
<1>7. SameBook
  BY <1>3 DEF SameBook
<1>8. /\ Arguments' /\ Whole' = Whole /\ TextOf(index)' = TextOf(index) /\ Before(index)' = Before(index)
  BY <1>1, <1>3, <1>7, SameBookFacts
<1>9. Types'
  BY <1>1, <1>3, <1>4, <1>5, <1>8 DEF Types, IInv
<1>10. Begins(Before(index), Whole) /\ Before(index) \in Seq(Byte)
  <2>1. CASE index = Len(resources) + 1
    BY <1>1, <2>1, EndPlace, WholeType, PrefixSelf
  <2>2. CASE index \in 1..Len(resources)
    <3>1. TextOf(index) \in Seq(Byte) /\ <<>> \in Seq(Byte)
      BY <1>1, <2>2, ArgumentTypes, EmptySeq
    <3>2. TextOf(index) = <<>> \o TextOf(index) /\ Before(index) \in Seq(Byte)
      BY <1>1, <2>2, <3>1, ConcatEmptySeq, BeforeNext
    <3>3. Begins(Before(index) \o <<>>, Whole)
      BY <1>1, <2>2, <3>1, <3>2, PlacePrefix
    <3> QED
      BY <3>2, <3>3, ConcatEmptySeq
  <2> QED
    BY <1>1, <2>1, <2>2, ArgumentTypes
<1>11. Begins(given', Whole)
  <2>1. given' \o tail = Before(index)
    BY <1>1, <1>6, <1>10, ConcatEmptySeq
  <2>2. Begins(given', Before(index))
    BY <1>4, <2>1 DEF Begins
  <2> QED
    BY <1>1, <1>5, <1>10, <2>2, WholeType, PrefixTransitive
<1>12. Begins(given, Whole)'
  BY <1>8, <1>11 DEF Begins
<1>13. Taken' = <<>> /\ given' \o delimiterPending' = Before(index)' \o Taken'
  BY <1>1, <1>3, <1>6, <1>8 DEF Taken
<1>14. Progress'
  BY <1>1, <1>3, <1>5, <1>12, <1>13 DEF Progress
<1>15. Held'
  BY <1>3, IdleHeld
<1> QED
  BY <1>9, <1>14, <1>15 DEF IInv

\* In the middle of chapter index.
LEMMA ChapterFacts ==
  ASSUME IInv, InChapter
  PROVE  /\ Arguments /\ index \in 1..Len(resources) /\ current \in 0..Len(TextOf(index))
         /\ TextOf(index) \in Seq(Byte) /\ delimiterPending = <<>> /\ ~closed
         /\ room \in Nat /\ given \in Seq(Byte)
         /\ Rest \in Seq(Byte) /\ Taken \in Seq(Byte) /\ Taken \o Rest = TextOf(index)
         /\ given = Before(index) \o Taken
         /\ current # NotOpen /\ handles = 1
<1>1. /\ Arguments /\ index \in 1..Len(resources) /\ current \in 0..Len(TextOf(index))
      /\ delimiterPending = <<>> /\ ~closed /\ current # NotOpen
      /\ room \in Nat /\ given \in Seq(Byte) /\ handles = 1
  BY ArgumentTypes DEF IInv, Types, Held, InChapter, InLoop
<1>2. TextOf(index) \in Seq(Byte)
  BY <1>1, ArgumentTypes
<1>3. Taken = SubSeq(TextOf(index), 1, current) /\ Rest = SubSeq(TextOf(index), current + 1, Len(TextOf(index)))
  BY <1>1 DEF Taken, Rest, TextOf
<1>4. Rest \in Seq(Byte) /\ Taken \in Seq(Byte) /\ Taken \o Rest = TextOf(index)
  BY <1>1, <1>2, <1>3, CutInTwo
<1>5. given \o <<>> = Before(index) \o Taken
  BY <1>1 DEF IInv, Progress
<1>6. given = Before(index) \o Taken
  BY <1>1, <1>5, ConcatEmptySeq
<1> QED
  BY <1>1, <1>2, <1>4, <1>6

LEMMA ReadChunkIInv ==
  ASSUME IInv, ReadChunk
  PROVE  IInv'
<1>1. PICK n \in 0..Len(Rest), err \in {"none", "fault"} :
        n <= room /\ Reply(Chunk(n), err) /\ current' = current + n
  BY DEF ReadChunk
<1>2. InChapter /\ UNCHANGED <<resources, delimiter, index, delimiterPending, closed, room, handles>>
  BY DEF ReadChunk
<1> DEFINE t == TextOf(index)
           data == SubSeq(Rest, 1, n)
           later == SubSeq(Rest, n + 1, Len(Rest))
<1>3. /\ data \in Seq(Byte) /\ Len(data) = n /\ later \in Seq(Byte) /\ data \o later = Rest
  BY <1>2, ChapterFacts, CutInTwo
<1>4. /\ reply'.data \in Seq(Byte) /\ Len(reply'.data) <= room' /\ reply'.err # "eof"
      /\ given' \in Seq(Byte) /\ given' = given \o data
  <2>1. Reply(data, err)
    BY <1>1 DEF Chunk
  <2> HIDE DEF data
  <2> QED
    BY <1>1, <1>2, <1>3, <2>1, ReplyFacts, ChapterFacts
<1>5. SameBook
  BY <1>2 DEF SameBook
<1>6. /\ Arguments' /\ Whole' = Whole /\ TextOf(index)' = t /\ Before(index)' = Before(index)
  BY <1>2, <1>5, SameBookFacts, ChapterFacts
<1>7. current' \in 0..Len(t) /\ current' # NotOpen
  <2>1. t \in Seq(Byte) /\ Len(t) \in Nat /\ current \in 0..Len(t) /\ Rest = SubSeq(t, current + 1, Len(t))
    BY <1>2, ChapterFacts, LenProperties DEF Rest, TextOf
  <2> HIDE DEF t
  <2>2. Len(Rest) = Len(t) - current
    <3>1. \A i \in current + 1..Len(t) : t[i] \in Byte
      BY <2>1, ElementOfSeq
    <3> QED
      BY <2>1, <3>1, SubSeqProperties
  <2> QED
    BY <1>1, <2>1, <2>2 DEF NotOpen
<1>8. Types'
  BY <1>2, <1>4, <1>6, <1>7, ChapterFacts, EmptySeq DEF Types
<1>9. Taken' = Taken \o data
  <2>1. t \in Seq(Byte) /\ Len(t) \in Nat /\ current \in 0..Len(t) /\ Rest = SubSeq(t, current + 1, Len(t))
        /\ Taken = SubSeq(t, 1, current)
    BY <1>2, ChapterFacts, LenProperties DEF Rest, TextOf, Taken
  <2>0. n \in Nat /\ current + n <= Len(t)
    BY <1>1, <1>7
  <2>2. Taken' = SubSeq(t, 1, current + n)
    BY <1>1, <1>6, <1>7 DEF Taken
  <2>3. data = SubSeq(t, current + 1, current + n)
    BY <2>0, <2>1, RestOfText
  <2> DEFINE c == current
  <2> HIDE DEF t, data, c
  <2>4. c \in Nat /\ 1 \in 1..Len(t) + 1 /\ c \in 1 - 1..Len(t) /\ c + n \in c..Len(t)
    BY <2>0, <2>1 DEF c
  <2>5. SubSeq(t, 1, c) \o SubSeq(t, c + 1, c + n) = SubSeq(t, 1, c + n)
    BY <2>1, <2>4, ConcatAdjacentSubSeq
  <2> QED
    BY <2>1, <2>2, <2>3, <2>5 DEF c
<1>10. Taken' \in Seq(Byte) /\ Taken' \o later = t
  <2>1. Taken \in Seq(Byte) /\ Taken \o Rest = t
    BY <1>2, ChapterFacts
  <2> HIDE DEF t, data, later
  <2>2. Taken \o data \in Seq(Byte) /\ (Taken \o data) \o later = Taken \o (data \o later)
    BY <1>3, <2>1, Regroup, Zenon
  <2> QED
    BY <1>3, <1>9, <2>1, <2>2
<1>11. given' = Before(index) \o Taken'
  <2>1. given = Before(index) \o Taken /\ Before(index) \in Seq(Byte) /\ Taken \in Seq(Byte)
    BY <1>2, ChapterFacts, BeforeNext
  <2> HIDE DEF data
  <2>2. (Before(index) \o Taken) \o data = Before(index) \o (Taken \o data)
    <3>1. Before(index) \in Seq(Byte) /\ Taken \in Seq(Byte) /\ data \in Seq(Byte)
      BY <1>3, <2>1
    <3> QED
      BY <3>1, Regroup, Zenon
  <2> QED
    BY <1>3, <1>4, <1>9, <2>1, <2>2
<1>12. Begins(given', Whole)
  BY <1>2, <1>3, <1>10, <1>11, ChapterFacts, PlacePrefix
<1>13. Begins(given, Whole)'
  BY <1>6, <1>12 DEF Begins
<1>14. Progress'
  <2>1. delimiterPending' = <<>> /\ given' \o <<>> = given'
    BY <1>2, <1>4, ChapterFacts, ConcatEmptySeq
  <2> QED
    BY <1>4, <1>6, <1>11, <1>13, <2>1 DEF Progress
<1>15. Held'
  BY <1>2, <1>7, ChapterFacts DEF Held
<1> QED
  BY <1>8, <1>14, <1>15 DEF IInv

LEMMA ReadLastIInv ==
  ASSUME IInv, ReadLast
  PROVE  IInv'
<1> DEFINE t == TextOf(index)
           pending == IF index < Len(resources) THEN delimiter ELSE <<>>
<1>1. /\ InChapter /\ Len(Rest) <= room
      /\ current' = NotOpen /\ handles' = handles - 1 /\ index' = index + 1
      /\ delimiterPending' = pending
      /\ UNCHANGED <<resources, delimiter, closed, room>>
  BY DEF ReadLast, NextChapter
<1>2. IF Rest = <<>> THEN Loop ELSE Reply(Rest, "none")
  BY DEF ReadLast, NextChapter
<1>3. /\ Arguments /\ index \in 1..Len(resources) /\ Len(resources) \in Nat
      /\ Rest \in Seq(Byte) /\ Taken \in Seq(Byte) /\ Taken \o Rest = t
      /\ given \in Seq(Byte) /\ given = Before(index) \o Taken
      /\ room \in Nat /\ handles = 1
  BY <1>1, ChapterFacts, ArgumentTypes
<1>4. pending \in Seq(Byte) /\ pending = Sent(index + 1)
  BY <1>3, EmptySeq DEF Arguments, Sent
<1> HIDE DEF t, pending
<1>5. /\ given' = given \o Rest /\ given' \in Seq(Byte)
      /\ reply'.data \in Seq(Byte) /\ Len(reply'.data) <= room'
      /\ reply'.err = "eof" => Rest = <<>> /\ reply' = reply
  <2>1. CASE Rest = <<>>
    <3>1. given' = given /\ reply' = reply
      BY <1>2, <2>1 DEF Loop
    <3>2. given \o <<>> = given
      BY <1>3, ConcatEmptySeq
    <3> QED
      BY <1>1, <1>3, <2>1, <3>1, <3>2 DEF IInv, Types
  <2>2. CASE Rest # <<>>
    <3>1. Reply(Rest, "none") /\ Len(Rest) <= room /\ room' = room
      BY <1>1, <1>2, <2>2
    <3>2. /\ reply'.data \in Seq(Byte) /\ Len(reply'.data) <= room' /\ reply'.err = "none"
          /\ given' \in Seq(Byte) /\ given' = given \o Rest
      BY <1>3, <3>1, ReplyFacts
    <3>3. "none" # "eof"
      OBVIOUS
    <3> QED
      BY <3>2, <3>3
  <2> QED
    BY <2>1, <2>2
<1>6. given' = Upto(index) /\ Begins(given', Whole)
  <2>1. /\ Before(index) \in Seq(Byte) /\ Upto(index) \in Seq(Byte)
        /\ Upto(index) = Before(index) \o t
    BY <1>3, BeforeNext DEF t
  <2>2. (Before(index) \o Taken) \o Rest = Before(index) \o (Taken \o Rest)
    <3>1. Before(index) \in Seq(Byte) /\ Taken \in Seq(Byte) /\ Rest \in Seq(Byte)
      BY <1>3, <2>1
    <3> QED
      BY <3>1, Regroup, Zenon
  <2>3. index \in 0..Len(resources)
    BY <1>3
  <2> QED
    BY <1>3, <1>5, <2>1, <2>2, <2>3, UptoPrefix
<1>7. SameBook
  BY <1>1 DEF SameBook
<1>8. Arguments' /\ Whole' = Whole /\ Before(index)' = Before(index + 1)
  <2>1. Arguments' /\ Whole' = Whole
    BY <1>3, <1>7, SameBookFacts
  <2>2. Upto(index - 1)' = Upto((index + 1) - 1) /\ Sent(index)' = Sent(index + 1)
    BY <1>1 DEF Upto, Sent, JoinedTo, Lead
  <2> QED
    BY <2>1, <2>2 DEF Before
<1>9. Types'
  BY <1>1, <1>3, <1>4, <1>5, <1>8 DEF Types
<1>10. given' \o delimiterPending' = Before(index + 1)
  BY <1>1, <1>3, <1>4, <1>6, BeforeNext
<1>11. Taken' = <<>>
  BY <1>1 DEF Taken
<1>12. Before(index + 1) \o <<>> = Before(index + 1)
  <2>1. Upto(index) \in Seq(Byte) /\ Before(index + 1) = Upto(index) \o Sent(index + 1)
    BY <1>3, BeforeNext
  <2>2. Before(index + 1) \in Seq(Byte)
    BY <1>4, <2>1, Regroup
  <2> QED
    BY <2>2, ConcatEmptySeq
<1>13. Begins(given, Whole)'
  BY <1>6, <1>8 DEF Begins
<1>14. reply'.err = "eof" => given' = Whole
  <2> SUFFICES ASSUME reply'.err = "eof" PROVE given' = Whole
    OBVIOUS
  <2>1. Rest = <<>> /\ given = Whole
    BY <1>5 DEF IInv, Progress
  <2> QED
    BY <1>3, <1>5, <2>1, ConcatEmptySeq
<1>15. Progress'
  BY <1>1, <1>8, <1>10, <1>11, <1>12, <1>13, <1>14 DEF Progress
<1>16. Held'
  BY <1>1, <1>3 DEF Held
<1> QED
  BY <1>9, <1>15, <1>16 DEF IInv

-----------------------------------------------------------------------------
(* The theorems *)

LEMMA NextIInv ==
  ASSUME IInv, [Next]_rvars
  PROVE  IInv'
<1>1. CASE ReadEmpty
  BY <1>1, ReadEmptyIInv
<1>2. CASE ReadNothing
  BY <1>2, ReadNothingIInv
<1>3. CASE ReadDelimiter
  BY <1>3, ReadDelimiterIInv
<1>4. CASE ReadEnd
  BY <1>4, ReadEndIInv
<1>5. CASE OpenNext
  BY <1>5, OpenNextIInv
<1>6. CASE ReadChunk
  BY <1>6, ReadChunkIInv
<1>7. CASE ReadLast
  BY <1>7, ReadLastIInv
<1>8. CASE Close
  BY <1>8, CloseIInv
<1>9. ASSUME NEW n \in 0..MaxRoom, CallRead(n) PROVE IInv'
  BY <1>9, CallReadIInv, OrdersAssumption
<1>10. CASE UNCHANGED rvars
  <2>1. UNCHANGED <<resources, delimiter, index, current, delimiterPending, closed, room, reply, given, handles>>
    BY <1>10 DEF rvars, stream
  <2>2. Types' /\ Progress'
    BY <2>1, SamePlace DEF IInv, Types, Progress
  <2> QED
    BY <2>1, <2>2, IdleHeld DEF IInv
<1> QED
  BY <1>1, <1>2, <1>3, <1>4, <1>5, <1>6, <1>7, <1>8, <1>9, <1>10 DEF Next, InRead

\* What has been returned and what is still owed make up the joined text before
\* the place the reader stands at, and the open chapter is the only open handle.
THEOREM Invariance == Spec => []IInv
<1>1. IInv /\ [Next]_rvars => IInv'
  BY NextIInv
<1>2. Init => IInv
  BY InitIInv, OrdersAssumption DEF Init
<1> QED
  BY <1>1, <1>2, PTL DEF Spec

\* Every byte of every chapter once and in order, with the delimiter between two
\* chapters, whatever the buffers, short reads, errors and retries; end of file
\* behind the last byte only (content.go:282, resource.go:504).
THEOREM Exactness == Spec => []StreamExact
<1>1. IInv => StreamExact
  <2> SUFFICES ASSUME IInv PROVE StreamExact
    OBVIOUS
  <2>1. Arguments /\ given \in Seq(Byte) /\ Begins(given, Whole)
    BY DEF IInv, Types, Progress
  <2>2. IsPrefix(given, Whole)
    BY <2>1, WholeType, PrefixIsPrefix
  <2> QED
    BY <2>2 DEF IInv, Types, Progress, StreamExact
<1> QED
  BY Invariance, <1>1, PTL

\* The chapter being read is the only one open, and none is behind Close: a
\* chapter that ends, or that Close interrupts, is closed (content.go:313, 335).
THEOREM NothingLeaks == Spec => []NoLeak
<1>1. IInv => NoLeak
  BY DEF IInv, Held, NoLeak
<1> QED
  BY Invariance, <1>1, PTL

AfterClose == closed => current' = NotOpen /\ given' = given

\* A closed stream stays silent: no later Read opens a chapter or returns a byte
\* (content.go:283, resource.go:505).
THEOREM Silence == Spec => NothingAfterClose
<1>1. IInv /\ [Next]_rvars => [AfterClose]_rvars
  <2> SUFFICES ASSUME IInv, Next, closed PROVE current' = NotOpen /\ given' = given
    BY DEF AfterClose
  <2>1. current = NotOpen /\ given \in Seq(Byte)
    BY DEF IInv, Held, Types
  <2>2. given \o <<>> = given
    BY <2>1, ConcatEmptySeq
  <2>3. CASE ReadEmpty
    BY <2>1, <2>2, <2>3 DEF ReadEmpty, Reply, stream
  <2>4. CASE ReadNothing
    BY <2>1, <2>2, <2>4 DEF ReadNothing, Reply, stream
  <2>5. CASE Close
    BY <2>1, <2>5 DEF Close
  <2>6. ASSUME NEW n \in 0..MaxRoom, CallRead(n) PROVE current' = NotOpen /\ given' = given
    BY <2>1, <2>6 DEF CallRead, stream
  <2>7. ~InLoop
    BY DEF InLoop
  <2> QED
    BY <2>3, <2>4, <2>5, <2>6, <2>7
    DEF Next, InRead, ReadDelimiter, ReadEnd, OpenNext, ReadChunk, ReadLast, NextChapter, Between, InChapter
<1>2. NothingAfterClose <=> [][AfterClose]_rvars
  BY DEF NothingAfterClose, AfterClose
<1> QED
  BY Invariance, <1>1, <1>2, PTL DEF Spec
=============================================================================
