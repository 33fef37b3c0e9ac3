------------------------- MODULE ScanPipelineProofs -------------------------
(***************************************************************************)
(* Proofs about ScanPipeline, for any books, processors, lineups, heads    *)
(* and buffers: every processor gets the text and the heads it asked for,  *)
(* no more is read than they need, Finish comes last, and the ISBN search  *)
(* finds exactly what it should.                                           *)
(***************************************************************************)
EXTENDS ScanPipeline, ReadingOrderProofs, ListLemmas

-----------------------------------------------------------------------------
(* The beginning of a text *)

LEMMA PrefixFacts ==
  ASSUME NEW s \in Seq(Byte), NEW n \in Nat
  PROVE  /\ Prefix(s, n) \in Seq(Byte) /\ Len(Prefix(s, n)) = Least(n, Len(s))
         /\ Len(Prefix(s, n)) <= n /\ Len(Prefix(s, n)) <= Len(s)
         /\ \A i \in 1..Len(Prefix(s, n)) : Prefix(s, n)[i] = s[i]
         /\ Len(s) <= n => Prefix(s, n) = s
<1> DEFINE m == Least(n, Len(s))
           p == SubSeq(s, 1, m)
<1>1. Len(s) \in Nat /\ m \in 0..Len(s) /\ m <= n /\ (Len(s) <= n => m = Len(s))
  BY LenProperties DEF Least
<1>2. m \in Int /\ \A i \in 1..m : s[i] \in Byte
  BY <1>1, ElementOfSeq
<1> HIDE DEF m
<1>3. p \in Seq(Byte) /\ Len(p) = IF 1 <= m THEN m - 1 + 1 ELSE 0
  BY <1>2, SubSeqProperties
<1>4. \A i \in 1..m - 1 + 1 : p[i] = s[1 + i - 1]
  BY <1>2, SubSeqProperties
<1> HIDE DEF p
<1>5. Len(p) = m /\ \A i \in 1..m : p[i] = s[i]
  BY <1>1, <1>3, <1>4
<1>6. Len(s) <= n => p = s
  BY <1>1, SubSeqFull DEF p
<1>7. Prefix(s, n) = p
  BY DEF Prefix, p, m
<1> QED
  BY <1>1, <1>3, <1>5, <1>6, <1>7 DEF m

LEMMA PrefixEmpty ==
  ASSUME NEW n \in Nat
  PROVE  Prefix(<<>>, n) = <<>>
<1>1. <<>> \in Seq(Byte) /\ Len(<<>>) <= n
  BY EmptySeq
<1> QED
  BY <1>1, PrefixFacts

LEMMA LeastAdds ==
  ASSUME NEW n \in Nat, NEW a \in Nat, NEW b \in Nat
  PROVE  /\ Least(n, a) \in Nat /\ n - Least(n, a) \in Nat
         /\ Least(n, a + b) = Least(n, a) + Least(n - Least(n, a), b)
BY DEF Least

\* A buffer cut to n bytes that is given more text.
LEMMA PrefixGrows ==
  ASSUME NEW s \in Seq(Byte), NEW d \in Seq(Byte), NEW n \in Nat
  PROVE  Prefix(s, n) \o Prefix(d, n - Len(Prefix(s, n))) = Prefix(s \o d, n)
<1> DEFINE p == Prefix(s, n)
           q == Prefix(d, n - Len(p))
           u == s \o d
           v == Prefix(u, n)
<1>1. /\ p \in Seq(Byte) /\ Len(p) = Least(n, Len(s)) /\ Len(p) <= n
      /\ \A i \in 1..Len(p) : p[i] = s[i]
  BY PrefixFacts
<1>2. Len(s) \in Nat /\ Len(d) \in Nat /\ Len(p) \in Nat
  BY <1>1, LenProperties
<1> HIDE DEF p
<1>3. n - Len(p) \in Nat
  BY <1>1, <1>2
<1>4. /\ q \in Seq(Byte) /\ Len(q) = Least(n - Len(p), Len(d))
      /\ \A i \in 1..Len(q) : q[i] = d[i]
  BY <1>3, PrefixFacts
<1>5. /\ u \in Seq(Byte) /\ Len(u) = Len(s) + Len(d)
      /\ \A i \in 1..Len(s) + Len(d) : u[i] = IF i <= Len(s) THEN s[i] ELSE d[i - Len(s)]
  BY ConcatProperties
<1> HIDE DEF q, u
<1>6. /\ v \in Seq(Byte) /\ Len(v) = Least(n, Len(u))
      /\ \A i \in 1..Len(v) : v[i] = u[i]
  BY <1>5, PrefixFacts
<1> HIDE DEF v
<1>7. Len(q) \in Nat
  BY <1>4, LenProperties
<1>8. /\ p \o q \in Seq(Byte) /\ Len(p \o q) = Len(p) + Len(q)
      /\ \A i \in 1..Len(p) + Len(q) : (p \o q)[i] = IF i <= Len(p) THEN p[i] ELSE q[i - Len(p)]
  BY <1>1, <1>4, ConcatProperties
<1> DEFINE w == p \o q
<1> HIDE DEF w
<1>9. Len(w) = Len(p) + Len(q) /\ Len(v) = Len(p) + Len(q)
  <2>1. Least(n, Len(s) + Len(d)) = Least(n, Len(s)) + Least(n - Least(n, Len(s)), Len(d))
    BY <1>2, LeastAdds
  <2> QED
    BY <1>1, <1>4, <1>5, <1>6, <1>8, <2>1 DEF w
<1>10. ASSUME NEW i \in 1..Len(w) PROVE w[i] = v[i]
  <2>0. v[i] = u[i] /\ i \in Nat /\ i >= 1 /\ i <= Len(p) + Len(q)
    BY <1>2, <1>6, <1>7, <1>9
  <2>1. CASE i <= Len(p)
    <3>1. w[i] = s[i] /\ i <= Len(s)
      BY <1>1, <1>2, <1>8, <2>0, <2>1 DEF w, Least
    <3>2. u[i] = s[i]
      BY <1>2, <1>5, <2>0, <3>1
    <3> QED
      BY <2>0, <3>1, <3>2
  <2>2. CASE i > Len(p)
    <3>1. i - Len(p) \in 1..Len(q)
      BY <1>2, <1>7, <2>0, <2>2
    <3>2. w[i] = d[i - Len(p)]
      BY <1>4, <1>8, <2>0, <2>2, <3>1 DEF w
    <3>3. Len(p) = Len(s) /\ i <= Len(s) + Len(d) /\ ~(i <= Len(s))
      BY <1>1, <1>2, <1>4, <1>7, <2>0, <2>2 DEF Least
    <3>4. u[i] = d[i - Len(s)]
      BY <1>2, <1>5, <2>0, <3>3
    <3> QED
      BY <2>0, <3>2, <3>3, <3>4
  <2> QED
    BY <1>2, <2>0, <2>1, <2>2
<1>11. w = v
  BY <1>6, <1>8, <1>9, <1>10, SeqEqual DEF w
<1> QED
  BY <1>11 DEF w, v, u, q, p

\* The beginning of what was read is the beginning of the whole.
LEMMA PrefixOfWhole ==
  ASSUME NEW s \in Seq(Byte), NEW w \in Seq(Byte), Begins(s, w),
         NEW m \in Nat, NEW n \in Nat, n <= m, n <= Len(s)
  PROVE  Prefix(Prefix(s, m), n) = Prefix(w, n)
<1> DEFINE p == Prefix(s, m)
           q == Prefix(p, n)
           v == Prefix(w, n)
<1>1. PICK t \in Seq(Byte) : w = s \o t
  BY DEF Begins
<1>2. /\ Len(s) \in Nat /\ Len(t) \in Nat /\ Len(w) = Len(s) + Len(t)
      /\ \A i \in 1..Len(s) + Len(t) : w[i] = IF i <= Len(s) THEN s[i] ELSE t[i - Len(s)]
  BY <1>1, ConcatProperties, LenProperties
<1>3. p \in Seq(Byte) /\ Len(p) = Least(m, Len(s)) /\ \A i \in 1..Len(p) : p[i] = s[i]
  BY PrefixFacts
<1> HIDE DEF p
<1>4. q \in Seq(Byte) /\ Len(q) = Least(n, Len(p)) /\ \A i \in 1..Len(q) : q[i] = p[i]
  BY <1>3, PrefixFacts
<1>5. v \in Seq(Byte) /\ Len(v) = Least(n, Len(w)) /\ \A i \in 1..Len(v) : v[i] = w[i]
  BY PrefixFacts
<1> HIDE DEF q, v
<1>6. Len(q) = n /\ Len(v) = n /\ n <= Len(p)
  BY <1>2, <1>3, <1>4, <1>5 DEF Least
<1>7. Len(p) \in Nat
  BY <1>3, LenProperties
<1>8. ASSUME NEW i \in 1..Len(q) PROVE q[i] = v[i]
  <2>1. i \in 1..Len(p) /\ i \in 1..Len(v) /\ i \in 1..Len(s) + Len(t) /\ i <= Len(s)
    BY <1>2, <1>6, <1>7
  <2>2. q[i] = s[i]
    BY <1>3, <1>4, <2>1
  <2>3. v[i] = s[i]
    BY <1>2, <1>5, <2>1
  <2> QED
    BY <2>2, <2>3
<1>9. q = v
  BY <1>4, <1>5, <1>6, <1>8, SeqEqual
<1> QED
  BY <1>9 DEF p, q, v

\* A cut within a cut.
LEMMA PrefixOfPrefix ==
  ASSUME NEW s \in Seq(Byte), NEW m \in Nat, NEW n \in Nat, n <= m
  PROVE  Prefix(Prefix(s, m), n) = Prefix(s, n)
<1>1. Len(s) \in Nat
  BY LenProperties
<1>2. CASE n <= Len(s)
  BY <1>2, PrefixSelf, PrefixOfWhole
<1>3. CASE Len(s) <= n
  <2>1. Prefix(s, m) = s
    BY <1>1, <1>3, PrefixFacts
  <2> QED
    BY <2>1
<1> QED
  BY <1>1, <1>2, <1>3

-----------------------------------------------------------------------------
(* The processors *)

HeadOf == [p \in Processors |-> Cap[p].head]

LEMMA CapTypes ==
  ASSUME NEW p \in Processors
  PROVE  Cap[p].head \in 0..MaxHead /\ Cap[p].head \in Nat /\ HeadOf[p] = Cap[p].head /\ MaxHead \in Nat
BY ProcessorsAssumption DEF HeadOf

\* The lists of processors by capability, and the requests for heads in order.
LEMMA LineupFacts ==
  ASSUME lineup \in Lineups
  PROVE  /\ streams \in Seq(Processors) /\ Once(streams)
         /\ falls \in Seq(Processors) /\ Once(falls)
         /\ Requests \in Seq(Processors) /\ Once(Requests) /\ Sorted(Requests, HeadOf)
         /\ \A p \in Of(Requests) : p \in Processors /\ Cap[p].head > 0
<1>1. lineup \in Seq(Processors) /\ Once(lineup)
  BY ProcessorsAssumption DEF Once
<1>2. streams = Chosen(lineup, {p \in Processors : IsText(p)})
  BY DEF streams, Having
<1>3. falls = Chosen(lineup, {p \in Processors : IsFall(p)})
  BY DEF falls, Having
<1>4. MaxHead \in Nat /\ HeadOf \in [Processors -> Nat]
  BY ProcessorsAssumption, CapTypes DEF HeadOf
<1>5. Requests = InClasses(lineup, Processors, HeadOf, MaxHead)
  <2>1. \A n : {p \in Processors : Cap[p].head = n} = Class(Processors, HeadOf, n)
    BY DEF Class, HeadOf
  <2> QED
    BY <2>1 DEF Requests, InClasses
<1>6. /\ Requests \in Seq(Processors) /\ Once(Requests) /\ Sorted(Requests, HeadOf)
      /\ Of(Requests) = {x \in Of(lineup) : HeadOf[x] \in 1..MaxHead}
  <2> DEFINE t == InClasses(lineup, Processors, HeadOf, MaxHead)
  <2>1. /\ t \in Seq(Processors) /\ (Once(lineup) => Once(t)) /\ Sorted(t, HeadOf)
        /\ Of(t) = Keyed(lineup, HeadOf, MaxHead)
    BY <1>1, <1>4, SortedList
  <2> QED
    BY <1>1, <1>5, <2>1 DEF Keyed
<1>7. \A p \in Of(Requests) : p \in Processors /\ Cap[p].head > 0
  <2> TAKE p \in Of(Requests)
  <2>1. p \in Processors /\ HeadOf[p] \in 1..MaxHead
    BY <1>1, <1>6, OfList
  <2> QED
    BY <2>1, CapTypes
<1> QED
  BY <1>1, <1>2, <1>3, <1>6, <1>7, ChosenList

\* No head asked for is longer than HeadLimit.
LEMMA LimitFacts ==
  ASSUME lineup \in Lineups
  PROVE  /\ HeadLimit \in Nat
         /\ \A p \in Of(Requests) : Cap[p].head <= HeadLimit
<1>1. CASE Requests = <<>>
  BY <1>1, EmptyList DEF HeadLimit, HasHeads
<1>2. CASE Requests # <<>>
  <2>1. /\ Requests \in Seq(Processors) /\ Sorted(Requests, HeadOf)
        /\ \A p \in Of(Requests) : p \in Processors
    BY LineupFacts
  <2>2. /\ Last(Requests) \in Of(Requests)
        /\ \A p \in Of(Requests) : HeadOf[p] <= HeadOf[Last(Requests)]
    BY <1>2, <2>1, SortedLast
  <2>3. HeadLimit = Cap[Last(Requests)].head
    BY <1>2 DEF HeadLimit, HasHeads
  <2> QED
    BY <2>1, <2>2, <2>3, CapTypes
<1> QED
  BY <1>1, <1>2

\* What the processors see of the book does not change with the arguments.
LEMMA SameLineup ==
  ASSUME UNCHANGED lineup
  PROVE  UNCHANGED <<streams, falls, finishes, Requests, HasHeads, HeadLimit>>
<1>1. UNCHANGED <<streams, falls, finishes, Requests>>
  BY DEF streams, falls, finishes, Requests, Having
<1> QED
  BY <1>1 DEF HasHeads, HeadLimit

\* The reading order of a book and the resources outside it.
LEMMA BookFacts ==
  ASSUME book \in Books
  PROVE  /\ ResourcesOf(LinearItems(book)) \in Seq(Resources)
         /\ Others \in Seq(Resources)
<1> DEFINE Item == [res : Resources, linear : BOOLEAN]
<1>1. book.spine \in Seq(Item) /\ book.all \in Seq(Resources)
  BY ProcessorsAssumption
<1>2. LinearItems(book) \in Seq(Item) /\ NonLinearItems(book) \in Seq(Item)
  BY <1>1, ChosenList DEF LinearItems, NonLinearItems
<1>3. ASSUME NEW items \in Seq(Item) PROVE ResourcesOf(items) \in Seq(Resources)
  <2>1. Len(items) \in Nat /\ DOMAIN items = 1..Len(items) /\ \A i \in 1..Len(items) : items[i] \in Item
    BY LenProperties, ElementOfSeq
  <2>2. ResourcesOf(items) = [i \in 1..Len(items) |-> items[i].res]
    BY <2>1 DEF ResourcesOf
  <2>3. [i \in 1..Len(items) |-> items[i].res] \in [1..Len(items) -> Resources]
    BY <2>1
  <2> QED
    BY <2>1, <2>2, <2>3, SeqDef
<1>4. book.all \in Seq(Resources) /\ ResourcesOf(NonLinearItems(book)) \in Seq(Resources)
  BY <1>1, <1>2, <1>3
<1>5. Others \in Seq(Resources)
  BY <1>4, ConcatProperties DEF Others
<1> QED
  BY <1>2, <1>3, <1>5

-----------------------------------------------------------------------------
(* The inductive invariant *)

Early == {"start", "read", "wait", "text", "serve", "check", "flush"}
Later == {"gate", "falls", "scan", "finishes", "finish"}

\* Where the scan is and what it may find there: the stream is read only while
\* it waits for it, and is closed behind the reading phase.
Control ==
  /\ lineup \in Lineups /\ book \in Books
  /\ pc \in Early \cup Later \cup {"ended"} /\ next \in Nat \ {0}
  /\ reading => pc = "wait" /\ reply = NoReply
  /\ pc \notin Early \ {"start"} => handles = 0
  /\ pc = "start" => given = <<>>
  /\ pc = "flush" => given = Whole
  /\ pc # "ended" => outcome = "none"
  /\ finished # <<>> => pc \in {"finishes", "finish", "ended"}

\* A chunk in hand after the cancellation is the last one.
Lateness ==
  /\ late \in {0, 1}
  /\ late = 1 => cancelled /\ pc \notin {"start", "read", "wait"}

\* Each text processor has all that was returned, but for the chunk in hand.
Fed ==
  /\ got \in [Processors -> Seq(Byte)]
  /\ \A p \in Of(streams) : Begins(got[p], Whole)
  /\ pc \in Early \ {"wait", "text"} => \A p \in Of(streams) : got[p] = given
  /\ pc = "wait" => \A p \in Of(streams) : got[p] \o reply.data = given
  /\ pc = "text" => \A i \in 1..Len(streams) :
       IF i < next THEN got[streams[i]] = given ELSE got[streams[i]] \o reply.data = given

\* The pending processors are those without a head, the shortest head first.
Awaiting ==
  /\ heads \in [Processors -> Seq(Seq(Byte))]
  /\ \A p \in Processors : heads[p] \in {<<>>, <<Prefix(Whole, Cap[p].head)>>}
  /\ pc = "start" => pending = Requests
  /\ pc \in Early =>
       /\ pending \in Seq(Processors) /\ Once(pending) /\ Sorted(pending, HeadOf)
       /\ Of(pending) \subseteq Of(Requests)
       /\ \A p \in Of(Requests) : p \in Of(pending) <=> heads[p] = <<>>

\* The buffer is the beginning of what was returned, but for the chunk in hand,
\* and too short for every pending head when the scan reads on.
Buffered ==
  /\ buf \in Seq(Byte) /\ Len(buf) <= HeadLimit
  /\ pc \in Early /\ pending # <<>> =>
       /\ pc \notin {"wait", "text"} => buf = Prefix(given, HeadLimit)
       /\ pc \in {"wait", "text"} => buf \o Prefix(reply.data, Remaining) = Prefix(given, HeadLimit)
       /\ pc \in {"start", "read", "check"} => Len(given) < Cap[Head(pending)].head
       /\ pc = "wait" => Len(given) < Cap[Head(pending)].head + Len(reply.data)

\* Without a text processor no read can go past the heads.
Roomy ==
  streams = <<>> =>
    /\ Len(given) <= HeadLimit
    /\ reading => Len(given) + room <= HeadLimit
    /\ pc \in {"read", "wait", "text", "check"} => pending # <<>>

AllText  == \A p \in Of(streams) : got[p] = Whole
AllHeads == \A p \in Of(Requests) : heads[p] # <<>>

\* Behind the reading phase everything was delivered.
Complete == pc \in Later \/ outcome = "ok" \/ finished # <<>> => AllText /\ AllHeads

\* What a fallback opened was visited, and the next ones have opened nothing.
Fallen ==
  /\ opened \in [Processors -> Seq(Resources)] /\ todo \in Seq(Resources)
  /\ \A p \in Processors : Once(opened[p]) /\ Of(opened[p]) \cap Of(resources) = {}
  /\ pc \in Early \cup {"gate"} => \A p \in Processors : opened[p] = <<>>
  /\ pc = "falls" => \A j \in 1..Len(falls) : j >= next => opened[falls[j]] = <<>>
  /\ pc = "scan" =>
       /\ next \in 1..Len(falls) /\ Of(opened[falls[next]]) \subseteq scanned
       /\ \A j \in 1..Len(falls) : j > next => opened[falls[j]] = <<>>

ScanInv ==
  /\ IInv /\ Control /\ Lateness /\ Fed /\ Awaiting /\ Buffered /\ Roomy
  /\ Complete /\ Fallen

-----------------------------------------------------------------------------
(* The start *)

LEMMA InitStreamInv ==
  ASSUME ScanInit
  PROVE  IInv
<1>1. book \in Books /\ InitStream({ResourcesOf(LinearItems(book))}, {Newline})
  BY DEF ScanInit
<1>2. {ResourcesOf(LinearItems(book))} \in SUBSET Seq(Resources) /\ {Newline} \in SUBSET Seq(Byte)
  BY <1>1, BookFacts, ProcessorsAssumption
<1> QED
  BY <1>1, <1>2, InitIInv

LEMMA InitScanInv == ScanInit => ScanInv
<1> SUFFICES ASSUME ScanInit PROVE ScanInv
  OBVIOUS
<1>1. IInv
  BY InitStreamInv
<1>2. /\ book \in Books /\ lineup \in Lineups /\ pc = "start" /\ outcome = "none" /\ next = 1
      /\ pending = Requests /\ buf = <<>> /\ todo = <<>> /\ scanned = {}
      /\ got = [p \in Processors |-> <<>>] /\ heads = [p \in Processors |-> <<>>]
      /\ opened = [p \in Processors |-> <<>>] /\ finished = <<>> /\ late = 0
      /\ ~reading /\ given = <<>> /\ handles = 0
  BY DEF ScanInit, InitStream
<1>3. /\ <<>> \in Seq(Byte) /\ <<>> \in Seq(Seq(Byte)) /\ <<>> \in Seq(Resources)
      /\ Len(<<>>) = 0 /\ Of(<<>>) = {} /\ Once(<<>>)
  BY EmptySeq, EmptyList
<1>4. HeadLimit \in Nat /\ Prefix(<<>>, HeadLimit) = <<>>
  BY <1>2, LimitFacts, PrefixEmpty
<1>5. Control
  BY <1>2 DEF Control, Early
<1>6. Lateness
  BY <1>2 DEF Lateness
<1>7. Fed
  <2>1. Begins(<<>>, Whole)
    BY <1>1, <1>2 DEF IInv, Progress
  <2>2. \A p \in Of(streams) : p \in Processors
    BY <1>2, LineupFacts, OfList
  <2> QED
    BY <1>2, <1>3, <2>1, <2>2 DEF Fed
<1>8. Awaiting
  <2>1. \A p \in Of(Requests) : p \in Processors
    BY <1>2, LineupFacts
  <2> QED
    BY <1>2, <1>3, <2>1, LineupFacts DEF Awaiting
<1>9. Buffered
  <2>1. ASSUME pending # <<>> PROVE Len(given) < Cap[Head(pending)].head
    <3>1. Head(pending) \in Of(Requests)
      BY <1>2, <2>1, LineupFacts, HeadIsFirst
    <3> QED
      BY <1>2, <1>3, <3>1, LineupFacts
  <2> QED
    BY <1>2, <1>3, <1>4, <2>1 DEF Buffered
<1>10. Roomy
  BY <1>2, <1>3, <1>4 DEF Roomy
<1>11. Complete
  BY <1>2 DEF Complete, Later
<1>12. Fallen
  BY <1>2, <1>3 DEF Fallen
<1> QED
  BY <1>1, <1>5, <1>6, <1>7, <1>8, <1>9, <1>10, <1>11, <1>12 DEF ScanInv
-----------------------------------------------------------------------------
(* What the steps have in common *)

\* What no step changes: the book, the processors and what follows from them.
LEMMA SameScan ==
  ASSUME UNCHANGED <<lineup, resources, delimiter>>
  PROVE  /\ UNCHANGED <<streams, falls, Requests, HasHeads, HeadLimit, Whole>>
         /\ (IInv => Arguments /\ Whole \in Seq(Byte) /\ given \in Seq(Byte) /\ Begins(given, Whole))
<1>1. UNCHANGED Whole
  BY SameBookFacts DEF SameBook
<1>2. IInv => Arguments /\ Whole \in Seq(Byte) /\ given \in Seq(Byte) /\ Begins(given, Whole)
  BY WholeType DEF IInv, Types, Progress
<1> QED
  BY <1>1, <1>2, SameLineup

\* Nothing of the stream changes while it rests.
LEMMA QuietStream ==
  ASSUME IInv, UNCHANGED rvars
  PROVE  IInv'
BY NextIInv

\* A step of the stream: the call goes on, or it returns some bytes.
LEMMA StreamEffect ==
  ASSUME IInv, InRead
  PROVE  /\ IInv' /\ reading /\ UNCHANGED <<resources, delimiter, room>>
         /\ reply'.data \in Seq(Byte) /\ Len(reply'.data) <= room
         /\ \/ UNCHANGED <<reading, reply, given>>
            \/ ~reading' /\ given' = given \o reply'.data
<1>1. IInv'
  BY NextIInv DEF Next
<1>2. reading /\ UNCHANGED <<resources, delimiter, room>>
  BY DEF InRead, ReadEmpty, ReadNothing, ReadDelimiter, ReadEnd, OpenNext, ReadChunk, ReadLast,
         NextChapter, Between, InChapter, InLoop, stream
<1>3. \/ UNCHANGED <<reading, reply, given>>
      \/ \E data, err : Reply(data, err)
  BY DEF InRead, ReadEmpty, ReadNothing, ReadDelimiter, ReadEnd, OpenNext, ReadChunk, ReadLast,
         NextChapter, Loop
<1>4. (\E data, err : Reply(data, err)) => ~reading' /\ given' = given \o reply'.data
  BY DEF Reply
<1> QED
  BY <1>1, <1>2, <1>3, <1>4 DEF IInv, Types

\* Close leaves no chapter open.
LEMMA CloseEffect ==
  ASSUME IInv, Close
  PROVE  /\ IInv' /\ handles' = 0 /\ ~reading /\ ~reading'
         /\ UNCHANGED <<resources, delimiter, room, reply, given>>
<1>1. IInv' /\ ~reading /\ UNCHANGED <<resources, delimiter, reading, room, reply, given>>
  BY CloseIInv DEF Close
<1>2. CASE resources = <<>>
  <2>1. Len(resources) = 0 /\ index >= 1 /\ current = NotOpen
    BY <1>2, EmptySeq DEF IInv, Types
  <2> QED
    BY <1>1, <1>2, <2>1 DEF IInv, Held, Close
<1>3. CASE closed
  BY <1>1, <1>3 DEF IInv, Held, Close
<1>4. CASE ~(resources = <<>> \/ closed)
  BY <1>1, <1>4 DEF IInv, Held, Close
<1> QED
  BY <1>1, <1>2, <1>3, <1>4

\* Behind the reading phase Fed, Awaiting, Buffered and Roomy ask for little.
LEMMA AfterReading ==
  ASSUME ScanInv, pc' \in Later \cup {"ended"}, UNCHANGED <<lineup, resources, delimiter, given, got>>,
         ~reading', heads' \in [Processors -> Seq(Seq(Byte))],
         \A p \in Processors : heads'[p] \in {<<>>, <<Prefix(Whole, Cap[p].head)>>},
         buf' \in Seq(Byte), Len(buf') <= HeadLimit
  PROVE  Fed' /\ Awaiting' /\ Buffered' /\ Roomy'
<1>1. UNCHANGED <<streams, falls, Requests, HeadLimit, Whole>>
  BY SameScan
<1>2. pc' \notin Early
  BY DEF Early, Later
<1>3. pc' # "wait" /\ pc' # "text" /\ pc' # "start" /\ pc' # "read" /\ pc' # "check"
  BY <1>2 DEF Early
<1>4. Fed'
  BY <1>1, <1>2, <1>3 DEF ScanInv, Fed
<1>5. Awaiting'
  BY <1>1, <1>2, <1>3 DEF ScanInv, Awaiting
<1>6. Buffered'
  BY <1>1, <1>2 DEF ScanInv, Buffered
<1>7. Roomy'
  BY <1>1, <1>3 DEF ScanInv, Roomy
<1> QED
  BY <1>4, <1>5, <1>6, <1>7

\* The end of the reading phase: an error ends the scan, success needs that all
\* was delivered.
LEMMA LeaveInv ==
  ASSUME ScanInv, NEW result \in {"nil", "error", "ctx"}, pc \in Early, Leave(result), SameBook, Fixed,
         UNCHANGED <<cancelled, got, heads, todo, scanned, opened, finished, late>>,
         buf' \in Seq(Byte), Len(buf') <= HeadLimit,
         result = "nil" => AllText /\ AllHeads
  PROVE  ScanInv'
<1>1. /\ IInv' /\ handles' = 0 /\ ~reading'
      /\ UNCHANGED <<resources, delimiter, room, reply, given>>
  BY CloseEffect DEF ScanInv, Leave
<1>2. UNCHANGED <<book, lineup, streams, falls, Requests, HeadLimit, Whole>>
  BY <1>1, SameScan DEF Fixed
<1>3. \/ result = "nil" /\ pc' = "gate" /\ next' = 1 /\ outcome' = outcome
      \/ result # "nil" /\ pc' = "ended" /\ outcome' = result /\ next' = next
  BY DEF Leave, Go, End
<1>4. pc # "ended" /\ outcome = "none" /\ finished = <<>>
  BY DEF ScanInv, Control, Early
<1>5. Control'
  BY <1>1, <1>2, <1>3, <1>4 DEF ScanInv, Control, Early, Later
<1>6. Lateness'
  BY <1>3 DEF ScanInv, Lateness
<1>7. Fed' /\ Awaiting' /\ Buffered' /\ Roomy'
  <2>1. pc' \in Later \cup {"ended"}
    BY <1>3 DEF Later
  <2>2. /\ heads' \in [Processors -> Seq(Seq(Byte))]
        /\ \A p \in Processors : heads'[p] \in {<<>>, <<Prefix(Whole, Cap[p].head)>>}
    BY DEF ScanInv, Awaiting
  <2> QED
    BY <1>1, <1>2, <2>1, <2>2, AfterReading
<1>8. Complete'
  BY <1>2, <1>3, <1>4 DEF ScanInv, Complete, Later, AllText, AllHeads
<1>9. Fallen'
  BY <1>1, <1>2, <1>3 DEF ScanInv, Fallen, Early
<1> QED
  BY <1>1, <1>5, <1>6, <1>7, <1>8, <1>9 DEF ScanInv
\* A step that changes nothing the invariant speaks of but the context.
LEMMA IdleScan ==
  ASSUME ScanInv, UNCHANGED <<rvars, book, lineup, progress, work, results>>, cancelled => cancelled'
  PROVE  ScanInv'
<1>1. /\ UNCHANGED <<book, lineup, pc, outcome, next, pending, buf, todo, scanned, got, heads,
                     opened, finished, late>>
      /\ UNCHANGED <<resources, delimiter, reading, room, reply, given, handles>>
  BY DEF progress, work, results, rvars, stream
<1>2. UNCHANGED <<streams, falls, Requests, HeadLimit, Whole>>
  BY <1>1, SameScan
<1>3. IInv'
  BY QuietStream DEF ScanInv
<1>4. UNCHANGED Remaining
  BY <1>1, <1>2 DEF Remaining
<1>5. Control'
  BY <1>1, <1>2 DEF ScanInv, Control
<1>6. Lateness'
  BY <1>1 DEF ScanInv, Lateness
<1>7. Fed'
  BY <1>1, <1>2 DEF ScanInv, Fed
<1>8. Awaiting'
  BY <1>1, <1>2 DEF ScanInv, Awaiting
<1>9. Buffered'
  BY <1>1, <1>2, <1>4 DEF ScanInv, Buffered
<1>10. Roomy'
  BY <1>1, <1>2 DEF ScanInv, Roomy
<1>11. Complete'
  BY <1>1, <1>2 DEF ScanInv, Complete, AllText, AllHeads
<1>12. Fallen'
  BY <1>1, <1>2 DEF ScanInv, Fallen
<1> QED
  BY <1>3, <1>5, <1>6, <1>7, <1>8, <1>9, <1>10, <1>11, <1>12 DEF ScanInv

\* From one place of the reading phase to another: the fallback waits, and
\* nothing is finished.
LEMMA StillReading ==
  ASSUME ScanInv, pc \in Early, pc' \in Early,
         UNCHANGED <<lineup, resources, delimiter, outcome, opened, todo, finished>>
  PROVE  Complete' /\ Fallen'
<1>1. UNCHANGED <<streams, falls, Requests>>
  BY SameScan
<1>2. pc # "ended" /\ outcome = "none" /\ finished = <<>>
  BY DEF ScanInv, Control, Early
<1>3. pc' \notin Later /\ pc' # "falls" /\ pc' # "scan"
  BY DEF Early, Later
<1>4. Complete'
  BY <1>2, <1>3 DEF Complete
<1>5. Fallen'
  BY <1>1, <1>3 DEF ScanInv, Fallen
<1> QED
  BY <1>4, <1>5

-----------------------------------------------------------------------------
(* The steps of the reading phase *)

LEMMA CancelInv ==
  ASSUME ScanInv, Cancel
  PROVE  ScanInv'
BY IdleScan DEF Cancel, Quiet, Fixed

LEMMA StartInv ==
  ASSUME ScanInv, Start
  PROVE  ScanInv'
<1>1. /\ pc = "start" /\ UNCHANGED <<rvars, book, lineup, cancelled, work, results>>
      /\ IF cancelled THEN End("ctx")
         ELSE Go(IF streams = <<>> /\ ~HasHeads THEN "gate" ELSE "read")
  BY DEF Start, At, Quiet, Fixed
<1>2. UNCHANGED <<pending, buf, todo, scanned, got, heads, opened, finished, late, resources,
                  delimiter, reading, room, reply, given, handles>>
  BY <1>1 DEF work, results, rvars, stream
<1>3. UNCHANGED <<streams, falls, Requests, HeadLimit, Whole>>
  BY <1>1, <1>2, SameScan
<1>4. IInv'
  BY <1>1, QuietStream DEF ScanInv
<1>5. /\ ~reading /\ outcome = "none" /\ finished = <<>> /\ late = 0 /\ handles = 0 /\ given = <<>>
      /\ lineup \in Lineups /\ pending = Requests
  BY <1>1 DEF ScanInv, Control, Lateness, Awaiting
<1>6. /\ heads' \in [Processors -> Seq(Seq(Byte))] /\ buf' \in Seq(Byte) /\ Len(buf') <= HeadLimit
      /\ \A p \in Processors : heads'[p] \in {<<>>, <<Prefix(Whole, Cap[p].head)>>}
  BY <1>2 DEF ScanInv, Awaiting, Buffered
<1>7. CASE pc' \in {"gate", "ended"}
  <2>1. Fed' /\ Awaiting' /\ Buffered' /\ Roomy'
    BY <1>1, <1>2, <1>5, <1>6, <1>7, AfterReading DEF Later
  <2>2. outcome' \in {"none", "ctx"} /\ (pc' = "gate" => streams = <<>> /\ ~HasHeads /\ outcome' = "none") /\ next' \in Nat \ {0}
    BY <1>1, <1>5, <1>7 DEF Go, End, ScanInv, Control
  <2>3. Control'
    BY <1>1, <1>2, <1>3, <1>5, <1>7, <2>2 DEF ScanInv, Control, Early, Later
  <2>4. Lateness'
    BY <1>2, <1>5 DEF Lateness
  <2>5. Complete'
    <3>1. streams = <<>> => AllText'
      BY <1>3, EmptyList DEF AllText
    <3>2. ~HasHeads => AllHeads'
      BY <1>3, EmptyList DEF AllHeads, HasHeads
    <3> QED
      BY <1>2, <1>5, <1>7, <2>2, <3>1, <3>2 DEF Complete, Later
  <2>6. Fallen'
    BY <1>1, <1>2, <1>3, <1>7 DEF ScanInv, Fallen, Early
  <2> QED
    BY <1>4, <2>1, <2>3, <2>4, <2>5, <2>6 DEF ScanInv
<1>8. CASE pc' = "read" /\ ~(streams = <<>> /\ ~HasHeads) /\ Go("read")
  <2>1. next' = 1 /\ outcome' = outcome
    BY <1>8 DEF Go
  <2>2. Control'
    BY <1>1, <1>2, <1>3, <1>5, <1>8, <2>1 DEF ScanInv, Control, Early
  <2>3. Lateness'
    BY <1>2, <1>5 DEF Lateness
  <2>4. Fed'
    BY <1>1, <1>2, <1>3, <1>8 DEF ScanInv, Fed, Early
  <2>5. Awaiting'
    BY <1>1, <1>2, <1>3, <1>8 DEF ScanInv, Awaiting, Early
  <2>6. Buffered'
    BY <1>1, <1>2, <1>3, <1>8 DEF ScanInv, Buffered, Early
  <2>7. Roomy'
    BY <1>2, <1>3, <1>5, <1>8 DEF ScanInv, Roomy, HasHeads
  <2>8. Complete' /\ Fallen'
    BY <1>1, <1>2, <1>8, <2>1, StillReading DEF Early
  <2> QED
    BY <1>4, <2>2, <2>3, <2>4, <2>5, <2>6, <2>7, <2>8 DEF ScanInv
<1> QED
  BY <1>1, <1>7, <1>8 DEF Go, End

LEMMA AskReadInv ==
  ASSUME ScanInv, AskRead
  PROVE  ScanInv'
<1>1. /\ pc = "read" /\ pc' = "wait" /\ next' = 1 /\ CallRead(ReadRoom)
      /\ UNCHANGED <<book, lineup, outcome, cancelled, pending, buf, todo, scanned, got, heads, opened, finished, late>>
  BY DEF AskRead, At, Go, work, results, Fixed
<1>2. /\ reading' = TRUE /\ room' = ReadRoom /\ reply' = NoReply
      /\ UNCHANGED <<resources, delimiter, given, handles>>
  BY <1>1 DEF CallRead, stream
<1>3. UNCHANGED <<streams, falls, Requests, HasHeads, HeadLimit, Whole>>
  BY <1>1, <1>2, SameScan
<1>4. /\ lineup \in Lineups /\ HeadLimit \in Nat /\ buf \in Seq(Byte) /\ given \in Seq(Byte)
      /\ Len(buf) \in Nat /\ Len(given) \in Nat /\ Len(buf) <= HeadLimit /\ outcome = "none"
      /\ BufSize \in Nat
  BY <1>1, LimitFacts, LenProperties, ProcessorsAssumption DEF ScanInv, Control, Buffered, IInv, Types
<1>5. Remaining \in Nat /\ Remaining = HeadLimit - Len(buf) /\ UNCHANGED Remaining
  BY <1>1, <1>3, <1>4 DEF Remaining
<1>6. ReadRoom \in Nat
  BY <1>4, <1>5 DEF ReadRoom, Least
<1>7. IInv'
  BY <1>1, <1>6, CallReadIInv DEF ScanInv
<1>8. reply'.data = <<>> /\ <<>> \in Seq(Byte) /\ Len(<<>>) = 0 /\ Prefix(<<>>, Remaining) = <<>>
  BY <1>2, <1>5, EmptySeq, PrefixEmpty DEF NoReply
<1>9. Control'
  BY <1>1, <1>2, <1>3, <1>4 DEF ScanInv, Control, Early
<1>10. Lateness'
  BY <1>1 DEF ScanInv, Lateness
<1>11. Fed'
  <2>1. \A p \in Of(streams) : got[p] = given /\ got[p] \o <<>> = given
    BY <1>1, <1>4, ConcatEmptySeq DEF ScanInv, Fed, Early
  <2> QED
    BY <1>1, <1>3, <1>2, <1>8, <2>1 DEF ScanInv, Fed
<1>12. Awaiting'
  BY <1>1, <1>3 DEF ScanInv, Awaiting, Early
<1>13. Buffered'
  <2>1. buf \o <<>> = buf
    BY <1>4, ConcatEmptySeq
  <2> SUFFICES ASSUME pending # <<>>
               PROVE  /\ buf = Prefix(given, HeadLimit)
                      /\ Len(given) < Cap[Head(pending)].head + 0
    BY <1>1, <1>2, <1>3, <1>4, <1>5, <1>8, <2>1 DEF Buffered
  <2>2. buf = Prefix(given, HeadLimit) /\ Len(given) < Cap[Head(pending)].head
    BY <1>1 DEF ScanInv, Buffered, Early
  <2>3. Cap[Head(pending)].head \in Nat
    <3>1. Head(pending) \in Processors
      BY <1>1, HeadTailProperties DEF ScanInv, Awaiting, Early
    <3> QED
      BY <3>1, CapTypes
  <2> QED
    BY <2>2, <2>3
<1>14. Roomy'
  <2> SUFFICES ASSUME streams = <<>>
               PROVE  Len(given) <= HeadLimit /\ Len(given) + ReadRoom <= HeadLimit /\ pending # <<>>
    BY <1>1, <1>2, <1>3 DEF Roomy
  <2>1. Len(given) <= HeadLimit /\ pending # <<>>
    BY <1>1 DEF ScanInv, Roomy
  <2>2. buf = Prefix(given, HeadLimit) /\ Len(given) < Cap[Head(pending)].head
    BY <1>1, <2>1 DEF ScanInv, Buffered, Early
  <2>3. Head(pending) \in Of(Requests)
    BY <1>1, <2>1, HeadIsFirst DEF ScanInv, Awaiting, Early
  <2>4. Cap[Head(pending)].head <= HeadLimit /\ Cap[Head(pending)].head \in Nat
    BY <1>4, <2>3, LimitFacts, LineupFacts, CapTypes
  <2>5. buf = given
    BY <1>4, <2>1, <2>2, PrefixFacts
  <2>6. HasHeads
    BY <1>4, <2>3, EmptyList, LineupFacts DEF HasHeads
  <2>7. Remaining > 0
    BY <1>4, <1>5, <2>2, <2>4, <2>5
  <2>8. ReadRoom <= Remaining
    BY <1>4, <1>5, <2>6, <2>7 DEF ReadRoom, Least
  <2> QED
    BY <1>4, <1>5, <1>6, <2>1, <2>5, <2>8
<1>15. Complete' /\ Fallen'
  BY <1>1, <1>2, StillReading DEF Early
<1> QED
  BY <1>7, <1>9, <1>10, <1>11, <1>12, <1>13, <1>14, <1>15 DEF ScanInv

\* More bytes behind a chunk in hand of none.
LEMMA MoreBytes ==
  ASSUME NEW s \in Seq(Byte), NEW d \in Seq(Byte), NEW g, s \o <<>> = g
  PROVE  s \o d = g \o d
BY ConcatEmptySeq

LEMMA StreamStepInv ==
  ASSUME ScanInv, StreamStep
  PROVE  ScanInv'
<1>1. /\ pc = "wait" /\ InRead
      /\ UNCHANGED <<book, lineup, pc, outcome, next, cancelled, pending, buf, todo, scanned, got, heads,
                     opened, finished, late>>
  BY DEF StreamStep, At, progress, work, results, Fixed
<1>2. /\ IInv' /\ reading /\ UNCHANGED <<resources, delimiter, room>>
      /\ reply'.data \in Seq(Byte) /\ Len(reply'.data) <= room
      /\ \/ UNCHANGED <<reading, reply, given>>
         \/ ~reading' /\ given' = given \o reply'.data
  BY <1>1, StreamEffect DEF ScanInv
<1>3. UNCHANGED <<streams, falls, Requests, HeadLimit, Whole>>
  BY <1>1, <1>2, SameScan
<1>4. /\ reply = NoReply /\ reply.data = <<>> /\ lineup \in Lineups /\ HeadLimit \in Nat
      /\ given \in Seq(Byte) /\ buf \in Seq(Byte) /\ Len(given) \in Nat /\ Len(buf) \in Nat
      /\ Len(buf) <= HeadLimit
  BY <1>2, LimitFacts, LenProperties DEF ScanInv, Control, NoReply, Buffered, IInv, Types
<1>5. UNCHANGED Remaining /\ Remaining = HeadLimit - Len(buf) /\ Remaining \in Nat
  BY <1>1, <1>3, <1>4 DEF Remaining
<1>6. Control'
  BY <1>1, <1>2, <1>3 DEF ScanInv, Control, Early
<1>7. Lateness'
  BY <1>1 DEF ScanInv, Lateness
<1>8. Awaiting'
  BY <1>1, <1>3 DEF ScanInv, Awaiting
<1>9. Complete' /\ Fallen'
  BY <1>1, <1>2, StillReading DEF Early
<1>10. CASE UNCHANGED <<reading, reply, given>>
  <2>1. Fed'
    BY <1>1, <1>3, <1>10 DEF ScanInv, Fed
  <2>2. Buffered'
    BY <1>1, <1>3, <1>5, <1>10 DEF ScanInv, Buffered
  <2>3. Roomy'
    BY <1>1, <1>2, <1>3, <1>10 DEF ScanInv, Roomy
  <2> QED
    BY <1>2, <1>6, <1>7, <1>8, <1>9, <2>1, <2>2, <2>3 DEF ScanInv
<1>11. CASE ~reading' /\ given' = given \o reply'.data
  <2> DEFINE d == reply'.data
  <2>1. d \in Seq(Byte) /\ Len(d) <= room /\ Len(d) \in Nat /\ given' = given \o d
    BY <1>2, <1>11, LenProperties
  <2> HIDE DEF d
  <2>2. given' \in Seq(Byte) /\ Len(given') = Len(given) + Len(d)
    BY <1>4, <2>1, ConcatProperties
  <2>3. Fed'
    <3>1. \A p \in Of(streams) : p \in Processors /\ got[p] \in Seq(Byte) /\ got[p] \o <<>> = given
      BY <1>1, <1>4, LineupFacts, OfList DEF ScanInv, Fed
    <3>2. \A p \in Of(streams) : got[p] \o d = given \o d
      BY <2>1, <3>1, MoreBytes
    <3> QED
      BY <1>1, <1>3, <2>1, <3>2 DEF ScanInv, Fed, d
  <2>4. Buffered'
    <3> SUFFICES ASSUME pending # <<>>
                 PROVE  /\ buf \o Prefix(d, Remaining) = Prefix(given \o d, HeadLimit)
                        /\ Len(given \o d) < Cap[Head(pending)].head + Len(d)
      BY <1>1, <1>3, <1>4, <1>5, <2>1 DEF Buffered, d, ScanInv
    <3>1. /\ buf \o Prefix(<<>>, Remaining) = Prefix(given, HeadLimit)
          /\ Len(given) < Cap[Head(pending)].head + Len(<<>>)
      BY <1>1, <1>4 DEF ScanInv, Buffered, Early
    <3>2. buf = Prefix(given, HeadLimit)
      BY <1>4, <1>5, <3>1, PrefixEmpty, ConcatEmptySeq
    <3>3. Prefix(given, HeadLimit) \o Prefix(d, HeadLimit - Len(Prefix(given, HeadLimit))) = Prefix(given \o d, HeadLimit)
      BY <1>4, <2>1, PrefixGrows
    <3>4. Cap[Head(pending)].head \in Nat /\ Len(<<>>) = 0
      <4>1. Head(pending) \in Processors
        BY <1>1, HeadTailProperties DEF ScanInv, Awaiting, Early
      <4> QED
        BY <4>1, CapTypes, EmptySeq
    <3>5. Len(given \o d) < Cap[Head(pending)].head + Len(d)
      BY <1>4, <2>1, <2>2, <3>1, <3>4
    <3> QED
      BY <1>5, <3>2, <3>3, <3>5
  <2>5. Roomy'
    <3> SUFFICES ASSUME streams = <<>> PROVE Len(given') <= HeadLimit /\ pending # <<>>
      BY <1>1, <1>3, <1>11 DEF Roomy
    <3>1. Len(given) + room <= HeadLimit /\ pending # <<>> /\ room \in Nat
      BY <1>1, <1>2 DEF ScanInv, Roomy, IInv, Types
    <3> QED
      BY <1>4, <2>1, <2>2, <3>1
  <2> QED
    BY <1>2, <1>6, <1>7, <1>8, <1>9, <2>3, <2>4, <2>5 DEF ScanInv
<1> QED
  BY <1>2, <1>10, <1>11

\* The stream rests while the scan goes from one place to the next.
Walks(place) ==
  /\ pc' = place /\ next' = 1 /\ outcome' = outcome
  /\ UNCHANGED <<book, lineup, rvars, cancelled, todo, scanned, heads, opened, finished>>

LEMMA WalkFacts ==
  ASSUME ScanInv, pc \in Early, NEW place \in Early, Walks(place)
  PROVE  /\ UNCHANGED <<resources, delimiter, reading, room, reply, given, handles>>
         /\ UNCHANGED <<streams, falls, Requests, HasHeads, HeadLimit, Whole>>
         /\ IInv' /\ Complete' /\ Fallen'
         /\ ~reading /\ place # "start" /\ (place = "flush" => given = Whole) => Control'
<1>1. UNCHANGED <<resources, delimiter, reading, room, reply, given, handles>>
  BY DEF Walks, rvars, stream
<1>2. UNCHANGED <<streams, falls, Requests, HasHeads, HeadLimit, Whole>>
  BY <1>1, SameScan DEF Walks
<1>3. IInv'
  BY QuietStream DEF ScanInv, Walks
<1>4. Complete' /\ Fallen'
  BY <1>1, StillReading DEF Walks
<1>5. ASSUME ~reading, place # "start", place = "flush" => given = Whole PROVE Control'
  BY <1>1, <1>2, <1>5 DEF ScanInv, Control, Early, Walks
<1> QED
  BY <1>1, <1>2, <1>3, <1>4, <1>5

LEMMA TakeChunkInv ==
  ASSUME ScanInv, TakeChunk
  PROVE  ScanInv'
<1>1. /\ pc = "wait" /\ ~reading /\ Walks("text") /\ UNCHANGED <<pending, buf, got>>
      /\ late' = IF cancelled THEN late + 1 ELSE late
  BY DEF TakeChunk, At, Go, Quiet, Fixed, Walks, work
<1>2. /\ UNCHANGED <<resources, delimiter, reading, room, reply, given, handles>>
      /\ UNCHANGED <<streams, falls, Requests, HasHeads, HeadLimit, Whole>>
      /\ IInv' /\ Complete' /\ Fallen' /\ Control' /\ pc' = "text" /\ next' = 1 /\ heads' = heads
      /\ cancelled' = cancelled /\ lineup \in Lineups
  BY <1>1, WalkFacts DEF Early, Walks, ScanInv, Control
<1>3. UNCHANGED Remaining
  BY <1>1, <1>2 DEF Remaining
<1>4. Lateness'
  BY <1>1, <1>2 DEF ScanInv, Lateness
<1>5. Fed'
  <2>1. \A i \in 1..Len(streams) : streams[i] \in Of(streams) /\ ~(i < 1)
    BY <1>2, LineupFacts, OfList
  <2> QED
    BY <1>1, <1>2, <2>1 DEF ScanInv, Fed
<1>6. Awaiting'
  BY <1>1, <1>2 DEF ScanInv, Awaiting, Early
<1>7. Buffered'
  BY <1>1, <1>2, <1>3 DEF ScanInv, Buffered, Early
<1>8. Roomy'
  BY <1>1, <1>2 DEF ScanInv, Roomy
<1> QED
  BY <1>2, <1>4, <1>5, <1>6, <1>7, <1>8 DEF ScanInv

\* An empty chunk, whatever comes with it.
LEMMA NothingInHand ==
  ASSUME ScanInv, pc = "wait", reply.data = <<>>
  PROVE  /\ \A p \in Of(streams) : got[p] = given
         /\ pending # <<>> => /\ buf = Prefix(given, HeadLimit)
                              /\ Len(given) < Cap[Head(pending)].head
<1>1. /\ lineup \in Lineups /\ HeadLimit \in Nat /\ buf \in Seq(Byte) /\ given \in Seq(Byte)
      /\ Len(buf) \in Nat /\ Len(given) \in Nat /\ Len(buf) <= HeadLimit
  BY LimitFacts, LenProperties DEF ScanInv, Control, Buffered, IInv, Types
<1>2. \A p \in Of(streams) : p \in Processors /\ got[p] \in Seq(Byte) /\ got[p] \o <<>> = given
  BY <1>1, LineupFacts, OfList DEF ScanInv, Fed
<1>3. \A p \in Of(streams) : got[p] = given
  BY <1>2, ConcatEmptySeq
<1>4. ASSUME pending # <<>> PROVE buf = Prefix(given, HeadLimit) /\ Len(given) < Cap[Head(pending)].head
  <2>1. /\ buf \o Prefix(<<>>, Remaining) = Prefix(given, HeadLimit)
        /\ Len(given) < Cap[Head(pending)].head + Len(<<>>)
    BY <1>4 DEF ScanInv, Buffered, Early
  <2>2. Remaining \in Nat
    BY <1>1 DEF Remaining
  <2>3. Head(pending) \in Processors
    BY <1>4, HeadTailProperties DEF ScanInv, Awaiting, Early
  <2>4. Cap[Head(pending)].head \in Nat /\ Len(<<>>) = 0
    BY <2>3, CapTypes, EmptySeq
  <2>5. Prefix(<<>>, Remaining) = <<>> /\ buf \o <<>> = buf
    BY <1>1, <2>2, PrefixEmpty, ConcatEmptySeq
  <2>6. buf = Prefix(given, HeadLimit)
    BY <2>1, <2>5
  <2>7. Len(given) < Cap[Head(pending)].head
    BY <1>1, <2>1, <2>4
  <2> QED
    BY <2>6, <2>7
<1> QED
  BY <1>3, <1>4

LEMMA TakeNothingInv ==
  ASSUME ScanInv, TakeNothing
  PROVE  ScanInv'
<1>1. /\ pc = "wait" /\ ~reading /\ reply.data = <<>>
      /\ CASE reply.err = "none" -> Go("check") /\ UNCHANGED rvars
           [] reply.err = "eof"  -> Go("flush") /\ UNCHANGED rvars
           [] OTHER              -> Leave("error")
      /\ UNCHANGED <<book, lineup, cancelled, pending, buf, todo, scanned, got, heads, opened, finished, late>>
  BY DEF TakeNothing, At, work, results, Fixed
<1>2. \A p \in Of(streams) : got[p] = given
  BY <1>1, NothingInHand
<1>3. pending # <<>> => buf = Prefix(given, HeadLimit) /\ Len(given) < Cap[Head(pending)].head
  BY <1>1, NothingInHand
<1>4. ASSUME NEW place \in {"check", "flush"}, Go(place), UNCHANGED rvars, place = "flush" => reply.err = "eof"
      PROVE  ScanInv'
  <2>1. Walks(place) /\ place \in Early
    BY <1>1, <1>4 DEF Go, Walks, Early
  <2>2. place = "flush" => given = Whole
    BY <1>4 DEF ScanInv, IInv, Progress
  <2>3. pc \in Early /\ place # "start"
    BY <1>1, <1>4 DEF Early
  <2>4. /\ UNCHANGED <<resources, delimiter, reading, room, reply, given, handles>>
        /\ UNCHANGED <<streams, falls, Requests, HasHeads, HeadLimit, Whole>>
        /\ IInv' /\ Complete' /\ Fallen' /\ Control'
    BY <1>1, <2>1, <2>2, <2>3, WalkFacts
  <2>5. pc' = place
    BY <2>1 DEF Walks
  <2>6. Lateness'
    BY <1>1 DEF ScanInv, Lateness
  <2>7. Fed'
    BY <1>1, <1>2, <1>4, <2>4, <2>5 DEF ScanInv, Fed
  <2>8. Awaiting'
    BY <1>1, <1>4, <2>4, <2>5 DEF ScanInv, Awaiting, Early
  <2>9. Buffered'
    BY <1>1, <1>3, <1>4, <2>4, <2>5 DEF ScanInv, Buffered
  <2>10. Roomy'
    BY <1>1, <1>4, <2>4, <2>5 DEF ScanInv, Roomy
  <2> QED
    BY <2>4, <2>6, <2>7, <2>8, <2>9, <2>10 DEF ScanInv
<1>5. CASE Leave("error")
  <2>1. SameBook /\ Fixed /\ buf \in Seq(Byte) /\ Len(buf) <= HeadLimit
    BY <1>1, <1>5, CloseEffect DEF Leave, SameBook, Fixed, ScanInv, Buffered
  <2> QED
    BY <1>1, <1>5, <2>1, LeaveInv DEF Early
<1> QED
  BY <1>1, <1>4, <1>5

LEMMA CheckContextInv ==
  ASSUME ScanInv, CheckContext
  PROVE  ScanInv'
<1>1. /\ pc = "check" /\ IF cancelled THEN Leave("ctx") ELSE Go("read") /\ UNCHANGED rvars
      /\ UNCHANGED <<book, lineup, cancelled, pending, buf, todo, scanned, got, heads, opened, finished, late>>
  BY DEF CheckContext, At, work, results, Fixed
<1>2. CASE Leave("ctx")
  <2>1. SameBook /\ Fixed /\ buf \in Seq(Byte) /\ Len(buf) <= HeadLimit
    BY <1>1, <1>2, CloseEffect DEF Leave, SameBook, Fixed, ScanInv, Buffered
  <2> QED
    BY <1>1, <1>2, <2>1, LeaveInv DEF Early
<1>3. CASE ~cancelled /\ Go("read") /\ UNCHANGED rvars
  <2>1. Walks("read") /\ pc \in Early /\ "read" \in Early /\ pc' = "read"
    BY <1>1, <1>3 DEF Go, Walks, Early
  <2>2. ~reading
    BY <1>1 DEF ScanInv, Control
  <2>3. /\ UNCHANGED <<resources, delimiter, reading, room, reply, given, handles>>
        /\ UNCHANGED <<streams, falls, Requests, HasHeads, HeadLimit, Whole>>
        /\ IInv' /\ Complete' /\ Fallen' /\ Control'
    BY <2>1, <2>2, WalkFacts
  <2>4. Lateness'
    BY <1>1, <1>3 DEF ScanInv, Lateness
  <2>5. Fed'
    BY <1>1, <2>1, <2>3 DEF ScanInv, Fed
  <2>6. Awaiting'
    BY <1>1, <2>1, <2>3 DEF ScanInv, Awaiting
  <2>7. Buffered'
    BY <1>1, <2>1, <2>3 DEF ScanInv, Buffered
  <2>8. Roomy'
    BY <1>1, <2>1, <2>2, <2>3 DEF ScanInv, Roomy
  <2> QED
    BY <2>3, <2>4, <2>5, <2>6, <2>7, <2>8 DEF ScanInv
<1> QED
  BY <1>1, <1>2, <1>3

\* A failing call of a processor ends the scan.
LEMMA CallFailsInv ==
  ASSUME ScanInv, pc \in Early, NEW p, CallFails(p), Fixed,
         UNCHANGED <<cancelled, buf, got, heads, todo, scanned, opened, finished, late>>
  PROVE  ScanInv'
<1>1. SameBook /\ buf \in Seq(Byte) /\ Len(buf) <= HeadLimit /\ Leave("error")
  BY CloseEffect DEF CallFails, Leave, SameBook, ScanInv, Buffered
<1>2. HeadLimit' = HeadLimit
  BY SameLineup DEF Fixed
<1> QED
  BY <1>1, <1>2, LeaveInv

LEMMA ProcessChunkInv ==
  ASSUME ScanInv, ProcessChunk
  PROVE  ScanInv'
<1>1. /\ pc = "text" /\ next <= Len(streams)
      /\ \/ /\ got' = [got EXCEPT ![streams[next]] = @ \o reply.data]
            /\ Then(next + 1, "text")
            /\ UNCHANGED rvars
         \/ CallFails(streams[next]) /\ UNCHANGED got
      /\ UNCHANGED <<book, lineup, cancelled, pending, buf, todo, scanned, heads, opened, finished, late>>
      /\ Fixed
  BY DEF ProcessChunk, At, work, Fixed
<1>2. CASE CallFails(streams[next]) /\ UNCHANGED got
  BY <1>1, <1>2, CallFailsInv DEF Early
<1>3. CASE /\ got' = [got EXCEPT ![streams[next]] = @ \o reply.data]
           /\ Then(next + 1, "text")
           /\ UNCHANGED rvars
  <2>1. /\ pc' = "text" /\ next' = next + 1 /\ outcome' = outcome
        /\ UNCHANGED <<resources, delimiter, reading, room, reply, given, handles>>
    BY <1>3 DEF Then, rvars, stream
  <2>2. UNCHANGED <<streams, falls, Requests, HasHeads, HeadLimit, Whole>>
        /\ Arguments /\ Whole \in Seq(Byte) /\ given \in Seq(Byte) /\ Begins(given, Whole)
    BY <1>1, <2>1, SameScan DEF ScanInv
  <2>3. IInv'
    BY <1>3, QuietStream DEF ScanInv
  <2>4. Complete' /\ Fallen'
    BY <1>1, <2>1, StillReading DEF Early
  <2>5. Control'
    BY <1>1, <2>1, <2>2 DEF ScanInv, Control, Early
  <2>6. Lateness'
    BY <1>1, <2>1 DEF ScanInv, Lateness
  <2>7. UNCHANGED Remaining
    BY <1>1, <2>2 DEF Remaining
  <2>8. Awaiting'
    BY <1>1, <2>1, <2>2 DEF ScanInv, Awaiting
  <2>9. Buffered'
    BY <1>1, <2>1, <2>2, <2>7 DEF ScanInv, Buffered
  <2>10. Roomy'
    BY <1>1, <2>1, <2>2 DEF ScanInv, Roomy
  <2>11. Fed'
    <3> DEFINE q == streams[next]
               n == Len(streams)
    <3>1. /\ lineup \in Lineups /\ next \in Nat \ {0} /\ got \in [Processors -> Seq(Byte)]
          /\ reply.data \in Seq(Byte)
          /\ \A p \in Of(streams) : Begins(got[p], Whole)
          /\ \A i \in 1..n : IF i < next THEN got[streams[i]] = given ELSE got[streams[i]] \o reply.data = given
      BY <1>1 DEF ScanInv, Control, Fed, IInv, Types
    <3>2. /\ n \in Nat /\ Of(streams) \subseteq Processors /\ Once(streams)
          /\ \A i \in 1..n : streams[i] \in Of(streams)
          /\ \A p \in Of(streams) : \E i \in 1..n : p = streams[i]
      BY <3>1, LineupFacts, OfList DEF Of
    <3>3. got' \in [Processors -> Seq(Byte)]
      <4>1. \A p \in Processors : got[p] \o reply.data \in Seq(Byte)
        BY <3>1, ConcatProperties
      <4> QED
        BY <1>3, <3>1, <4>1
    <3>4. ASSUME next >= 1 PROVE Fed'
      <4>1. next \in 1..n /\ q \in Processors /\ ~(next < next)
        BY <1>1, <3>1, <3>2, <3>4
      <4>2. got'[q] = given
        BY <1>3, <3>1, <4>1
      <4>3. \A p \in Processors : p # q => got'[p] = got[p]
        BY <1>3, <3>1
      <4>4. \A p \in Of(streams) : Begins(got'[p], Whole)
        BY <2>2, <3>1, <3>2, <4>2, <4>3
      <4>5. ASSUME NEW i \in 1..n
            PROVE  IF i < next + 1 THEN got'[streams[i]] = given ELSE got'[streams[i]] \o reply.data = given
        <5>1. CASE i = next
          <6>1. got'[streams[i]] = given
            BY <4>2, <5>1
          <6>2. i < next + 1
            BY <3>1, <5>1
          <6> QED
            BY <6>1, <6>2
        <5>2. CASE i # next
          <6>1. streams[i] # q /\ streams[i] \in Processors
            BY <3>2, <4>1, <5>2 DEF Once
          <6>2. got'[streams[i]] = got[streams[i]]
            BY <4>3, <6>1
          <6>3. i < next + 1 <=> i < next
            BY <3>1, <5>2
          <6> QED
            BY <3>1, <6>2, <6>3
        <5> QED
          BY <5>1, <5>2
      <4> QED
        BY <2>1, <2>2, <3>3, <4>4, <4>5 DEF Fed
    <3> QED
      BY <3>1, <3>4
  <2> QED
    BY <2>3, <2>4, <2>5, <2>6, <2>8, <2>9, <2>10, <2>11 DEF ScanInv
<1> QED
  BY <1>1, <1>2, <1>3

LEMMA AddHeadInv ==
  ASSUME ScanInv, AddHead
  PROVE  ScanInv'
<1>1. /\ pc = "text" /\ next > Len(streams) /\ Walks("serve") /\ pc' = "serve" /\ heads' = heads
      /\ buf' = IF pending = <<>> THEN buf ELSE buf \o Prefix(reply.data, Remaining)
      /\ UNCHANGED <<cancelled, pending, got, late>>
  BY DEF AddHead, At, Go, Quiet, Fixed, Walks, results
<1>2. ~reading /\ lineup \in Lineups /\ next \in Nat \ {0}
  BY <1>1 DEF ScanInv, Control
<1>3. /\ UNCHANGED <<resources, delimiter, reading, room, reply, given, handles>>
      /\ UNCHANGED <<streams, falls, Requests, HasHeads, HeadLimit, Whole>>
      /\ IInv' /\ Complete' /\ Fallen' /\ Control'
  BY <1>1, <1>2, WalkFacts DEF Early
<1>4. Lateness'
  BY <1>1 DEF ScanInv, Lateness
<1>5. Fed'
  <2>1. ASSUME NEW p \in Of(streams) PROVE got[p] = given
    <3>1. PICK i \in 1..Len(streams) : p = streams[i]
      BY DEF Of
    <3>2. Len(streams) \in Nat
      BY <1>2, LineupFacts, OfList
    <3>3. i < next
      BY <1>1, <1>2, <3>2
    <3> QED
      BY <1>1, <3>1, <3>3 DEF ScanInv, Fed
  <2> QED
    BY <1>1, <1>3, <2>1 DEF ScanInv, Fed
<1>6. Awaiting'
  BY <1>1, <1>3 DEF ScanInv, Awaiting, Early
<1>7. Buffered'
  <2>1. CASE pending = <<>>
    BY <1>1, <1>3, <2>1 DEF ScanInv, Buffered
  <2>2. CASE pending # <<>>
    <3>1. buf' = Prefix(given, HeadLimit)
      BY <1>1, <2>2 DEF ScanInv, Buffered, Early
    <3>2. given \in Seq(Byte) /\ HeadLimit \in Nat
      BY <1>2, LimitFacts DEF ScanInv, IInv, Types
    <3>3. buf' \in Seq(Byte) /\ Len(buf') <= HeadLimit
      BY <3>1, <3>2, PrefixFacts
    <3> QED
      BY <1>1, <1>3, <3>1, <3>3 DEF Buffered
  <2> QED
    BY <2>1, <2>2
<1>8. Roomy'
  BY <1>1, <1>3 DEF ScanInv, Roomy
<1> QED
  BY <1>3, <1>4, <1>5, <1>6, <1>7, <1>8 DEF ScanInv

\* The first pending processor gets its head.
LEMMA GiveHeadInv ==
  ASSUME ScanInv, GiveHead, pc \in {"serve", "flush"}, pending # <<>>,
         Prefix(buf, Cap[Head(pending)].head) = Prefix(Whole, Cap[Head(pending)].head)
  PROVE  ScanInv'
<1> DEFINE p == Head(pending)
           head == Prefix(buf, Cap[p].head)
<1>1. /\ \/ /\ heads' = [heads EXCEPT ![p] = Append(@, head)]
            /\ UNCHANGED <<rvars, progress>>
         \/ CallFails(p) /\ UNCHANGED heads
      /\ pending' = Tail(pending) /\ Fixed
      /\ UNCHANGED <<book, lineup, cancelled, buf, todo, scanned, got, opened, finished, late>>
  BY DEF GiveHead, Fixed
<1>2. pc \in Early /\ pc # "start" /\ pc # "wait" /\ pc # "text" /\ pc # "read" /\ pc # "check"
  BY DEF Early
<1>3. CASE CallFails(p) /\ UNCHANGED heads
  BY <1>1, <1>2, <1>3, CallFailsInv
<1>4. CASE heads' = [heads EXCEPT ![p] = Append(@, head)] /\ UNCHANGED <<rvars, progress>>
  <2>1. UNCHANGED <<pc, next, outcome, resources, delimiter, reading, room, reply, given, handles>>
    BY <1>4 DEF progress, rvars, stream
  <2>2. /\ UNCHANGED <<streams, falls, Requests, HasHeads, HeadLimit, Whole>>
        /\ Whole \in Seq(Byte)
    BY <1>1, <2>1, SameScan DEF ScanInv
  <2>3. IInv'
    BY <1>4, QuietStream DEF ScanInv
  <2>4. Complete' /\ Fallen'
    BY <1>1, <1>2, <2>1, StillReading
  <2>5. Control'
    BY <1>1, <2>1, <2>2 DEF ScanInv, Control
  <2>6. Lateness'
    BY <1>1, <2>1 DEF ScanInv, Lateness
  <2>7. Fed'
    BY <1>1, <2>1, <2>2 DEF ScanInv, Fed
  <2>8. Roomy'
    BY <1>1, <1>2, <2>1, <2>2 DEF ScanInv, Roomy
  <2>9. /\ pending \in Seq(Processors) /\ Once(pending) /\ Sorted(pending, HeadOf)
        /\ Of(pending) \subseteq Of(Requests) /\ lineup \in Lineups
        /\ \A q \in Of(Requests) : q \in Of(pending) <=> heads[q] = <<>>
        /\ heads \in [Processors -> Seq(Seq(Byte))]
    BY <1>2 DEF ScanInv, Awaiting, Control
  <2>10. /\ p \in Of(pending) /\ p \in Processors /\ heads[p] = <<>>
         /\ pending' \in Seq(Processors) /\ Once(pending') /\ Of(pending') = Of(pending) \ {p}
         /\ Sorted(pending', HeadOf)
    BY <1>1, <2>9, HeadIsFirst, TailList, SortedTail
  <2>11. Prefix(Whole, Cap[p].head) \in Seq(Byte) /\ head = Prefix(Whole, Cap[p].head)
    BY <2>2, <2>10, CapTypes, PrefixFacts
  <2> HIDE DEF head, p
  <2>12. Append(<<>>, head) = <<head>> /\ <<head>> \in Seq(Seq(Byte)) /\ <<head>> # <<>>
    BY <2>11
  <2>13. heads'[p] = <<head>> /\ (\A q \in Processors : q # p => heads'[q] = heads[q])
         /\ heads' \in [Processors -> Seq(Seq(Byte))]
    <3>1. heads' = [heads EXCEPT ![p] = <<head>>]
      BY <1>4, <2>10, <2>12
    <3> QED
      BY <2>9, <2>10, <2>12, <3>1
  <2>14. Awaiting'
    <3>1. ASSUME NEW q \in Processors PROVE heads'[q] \in {<<>>, <<Prefix(Whole, Cap[q].head)>>}
      <4>1. CASE q = p
        BY <2>11, <2>13, <4>1
      <4>2. CASE q # p
        BY <2>13, <4>2 DEF ScanInv, Awaiting
      <4> QED
        BY <4>1, <4>2
    <3>2. ASSUME NEW q \in Of(Requests) PROVE q \in Of(pending') <=> heads'[q] = <<>>
      <4>1. q \in Processors
        BY <2>9, LineupFacts
      <4>2. CASE q = p
        BY <2>10, <2>12, <2>13, <4>2
      <4>3. CASE q # p
        BY <2>9, <2>10, <2>13, <4>1, <4>3
      <4> QED
        BY <4>2, <4>3
    <3>3. Of(pending') \subseteq Of(Requests)
      BY <2>9, <2>10
    <3> QED
      BY <1>2, <2>1, <2>2, <2>10, <2>13, <3>1, <3>2, <3>3 DEF Awaiting
  <2>15. Buffered'
    BY <1>1, <1>2, <2>1, <2>2 DEF ScanInv, Buffered
  <2> QED
    BY <2>3, <2>4, <2>5, <2>6, <2>7, <2>8, <2>14, <2>15 DEF ScanInv
<1> QED
  BY <1>1, <1>3, <1>4

\* What the first pending processor waits for.
LEMMA PendingFacts ==
  ASSUME ScanInv, pc \in {"serve", "flush"}, pending # <<>>
  PROVE  /\ buf = Prefix(given, HeadLimit) /\ HeadLimit \in Nat
         /\ given \in Seq(Byte) /\ Whole \in Seq(Byte) /\ Begins(given, Whole)
         /\ Cap[Head(pending)].head \in Nat /\ Cap[Head(pending)].head <= HeadLimit
<1>1. lineup \in Lineups /\ pc \in Early
  BY DEF ScanInv, Control, Early
<1>2. buf = Prefix(given, HeadLimit)
  BY <1>1 DEF ScanInv, Buffered
<1>3. Head(pending) \in Of(Requests)
  BY <1>1, HeadIsFirst DEF ScanInv, Awaiting
<1> QED
  BY <1>1, <1>2, <1>3, LimitFacts, LineupFacts, CapTypes, WholeType DEF ScanInv, IInv, Types, Progress

LEMMA FlushReadyInv ==
  ASSUME ScanInv, FlushReady
  PROVE  ScanInv'
<1>1. pc = "serve" /\ pending # <<>> /\ Len(buf) >= Cap[Head(pending)].head /\ GiveHead
  BY DEF FlushReady, Ready, At
<1> DEFINE h == Cap[Head(pending)].head
<1>2. /\ buf = Prefix(given, HeadLimit) /\ HeadLimit \in Nat
      /\ given \in Seq(Byte) /\ Whole \in Seq(Byte) /\ Begins(given, Whole)
      /\ h \in Nat /\ h <= HeadLimit
  BY <1>1, PendingFacts
<1>3. h <= Len(given)
  <2>1. Len(buf) <= Len(given) /\ Len(buf) \in Nat /\ Len(given) \in Nat
    BY <1>2, PrefixFacts, LenProperties
  <2> QED
    BY <1>1, <1>2, <2>1
<1> HIDE DEF h
<1>4. Prefix(buf, h) = Prefix(Whole, h)
  BY <1>2, <1>3, PrefixOfWhole
<1> QED
  BY <1>1, <1>4, GiveHeadInv DEF h

LEMMA FlushRemainingInv ==
  ASSUME ScanInv, FlushRemaining
  PROVE  ScanInv'
<1>1. pc = "flush" /\ pending # <<>> /\ GiveHead
  BY DEF FlushRemaining, At
<1> DEFINE h == Cap[Head(pending)].head
<1>2. /\ buf = Prefix(given, HeadLimit) /\ HeadLimit \in Nat
      /\ given \in Seq(Byte) /\ h \in Nat /\ h <= HeadLimit
  BY <1>1, PendingFacts
<1>3. given = Whole
  BY <1>1 DEF ScanInv, Control
<1> HIDE DEF h
<1>4. Prefix(buf, h) = Prefix(Whole, h)
  BY <1>2, <1>3, PrefixOfPrefix
<1> QED
  BY <1>1, <1>4, GiveHeadInv DEF h

\* Nobody waits for a head any more.
LEMMA AllServed ==
  ASSUME ScanInv, pc \in Early, pending = <<>>
  PROVE  AllHeads
<1>1. Of(pending) = {}
  BY EmptyList
<1> QED
  BY <1>1 DEF ScanInv, Awaiting, AllHeads

LEMMA FlushDoneInv ==
  ASSUME ScanInv, FlushDone
  PROVE  ScanInv'
<1>1. /\ pc = "flush" /\ pending = <<>> /\ buf' = <<>> /\ Leave("nil") /\ Fixed
      /\ UNCHANGED <<cancelled, got, heads, todo, scanned, opened, finished, late>>
  BY DEF FlushDone, At, results
<1>2. AllHeads /\ AllText
  BY <1>1, AllServed DEF ScanInv, Fed, Control, AllText, Early
<1>3. SameBook
  BY <1>1, CloseEffect DEF Leave, SameBook, ScanInv
<1>4. buf' \in Seq(Byte) /\ Len(buf') <= HeadLimit
  BY <1>1, EmptySeq, LimitFacts DEF ScanInv, Control
<1> QED
  BY <1>1, <1>2, <1>3, <1>4, LeaveInv DEF Early

LEMMA ChunkDoneInv ==
  ASSUME ScanInv, ChunkDone
  PROVE  ScanInv'
<1>1. /\ pc = "serve" /\ ~Ready /\ Fixed /\ buf' = IF pending = <<>> THEN <<>> ELSE buf
      /\ IF streams = <<>> /\ pending = <<>> THEN Leave("nil")
         ELSE IF reply.err # "none" THEN Leave("error")
         ELSE Go("check") /\ UNCHANGED rvars
      /\ UNCHANGED <<book, lineup, cancelled, pending, got, heads, todo, scanned, opened, finished, late>>
  BY DEF ChunkDone, At, results, Fixed
<1>2. lineup \in Lineups /\ HeadLimit \in Nat /\ ~reading
  BY <1>1, LimitFacts DEF ScanInv, Control
<1>3. buf' \in Seq(Byte) /\ Len(buf') <= HeadLimit
  BY <1>1, <1>2, EmptySeq DEF ScanInv, Buffered
<1>4. CASE Leave("nil") /\ streams = <<>> /\ pending = <<>>
  <2>1. AllHeads /\ AllText
    BY <1>1, <1>4, AllServed, EmptyList DEF AllText, Early
  <2>2. SameBook
    BY <1>4, CloseEffect DEF Leave, SameBook, ScanInv
  <2> QED
    BY <1>1, <1>3, <1>4, <2>1, <2>2, LeaveInv DEF Early
<1>5. CASE Leave("error")
  <2>1. SameBook
    BY <1>5, CloseEffect DEF Leave, SameBook, ScanInv
  <2> QED
    BY <1>1, <1>3, <1>5, <2>1, LeaveInv DEF Early
<1>6. CASE Go("check") /\ UNCHANGED rvars /\ (streams = <<>> => pending # <<>>)
  <2>1. Walks("check") /\ pc \in Early /\ "check" \in Early /\ pc' = "check"
    BY <1>1, <1>6 DEF Go, Walks, Early
  <2>2. /\ UNCHANGED <<resources, delimiter, reading, room, reply, given, handles>>
        /\ UNCHANGED <<streams, falls, Requests, HasHeads, HeadLimit, Whole>>
        /\ IInv' /\ Complete' /\ Fallen' /\ Control'
    BY <1>2, <2>1, WalkFacts
  <2>3. Lateness'
    BY <1>1, <2>1 DEF ScanInv, Lateness
  <2>4. Fed'
    BY <1>1, <2>1, <2>2 DEF ScanInv, Fed
  <2>5. Awaiting'
    BY <1>1, <2>1, <2>2 DEF ScanInv, Awaiting
  <2>6. Buffered'
    <3> SUFFICES ASSUME pending # <<>>
                 PROVE  buf = Prefix(given, HeadLimit) /\ Len(given) < Cap[Head(pending)].head
      BY <1>1, <1>3, <2>1, <2>2 DEF Buffered
    <3>1. /\ buf = Prefix(given, HeadLimit) /\ given \in Seq(Byte)
          /\ Cap[Head(pending)].head \in Nat /\ Cap[Head(pending)].head <= HeadLimit
      BY <1>1, PendingFacts
    <3>2. ~(Len(buf) >= Cap[Head(pending)].head)
      BY <1>1 DEF Ready
    <3>3. Len(buf) = Least(HeadLimit, Len(given)) /\ Len(given) \in Nat
      BY <1>2, <3>1, PrefixFacts, LenProperties
    <3> QED
      BY <1>2, <3>1, <3>2, <3>3 DEF Least
  <2>7. Roomy'
    BY <1>1, <1>2, <1>6, <2>1, <2>2 DEF ScanInv, Roomy
  <2> QED
    BY <2>2, <2>3, <2>4, <2>5, <2>6, <2>7 DEF ScanInv
<1> QED
  BY <1>1, <1>4, <1>5, <1>6

-----------------------------------------------------------------------------
(* The steps behind it *)

\* The stream rests and nothing more is delivered.
LEMMA AfterStep ==
  ASSUME ScanInv, pc \in Later, pc' \in Later \cup {"ended"},
         UNCHANGED <<rvars, book, lineup, cancelled, buf, got, heads, late>>
  PROVE  /\ IInv' /\ Lateness' /\ Fed' /\ Awaiting' /\ Buffered' /\ Roomy' /\ Complete'
         /\ UNCHANGED <<resources, delimiter, reading, reply, given, handles>>
         /\ UNCHANGED <<falls, Whole>>
         /\ lineup \in Lineups /\ book \in Books /\ outcome = "none" /\ handles = 0 /\ ~reading
         /\ next \in Nat \ {0}
<1>1. UNCHANGED <<resources, delimiter, reading, room, reply, given, handles>>
  BY DEF rvars, stream
<1>2. UNCHANGED <<streams, falls, Requests, HeadLimit, Whole>>
  BY <1>1, SameScan
<1>3. IInv'
  BY QuietStream DEF ScanInv
<1>4. /\ lineup \in Lineups /\ book \in Books /\ outcome = "none" /\ handles = 0 /\ ~reading
      /\ next \in Nat \ {0}
  BY DEF ScanInv, Control, Later, Early
<1>5. Fed' /\ Awaiting' /\ Buffered' /\ Roomy'
  <2>1. /\ heads' \in [Processors -> Seq(Seq(Byte))]
        /\ \A p \in Processors : heads'[p] \in {<<>>, <<Prefix(Whole, Cap[p].head)>>}
    BY DEF ScanInv, Awaiting
  <2>2. buf' \in Seq(Byte) /\ Len(buf') <= HeadLimit
    BY DEF ScanInv, Buffered
  <2> QED
    BY <1>1, <1>4, <2>1, <2>2, AfterReading
<1>6. Lateness'
  <2>1. pc' # "start" /\ pc' # "read" /\ pc' # "wait"
    BY DEF Later
  <2> QED
    BY <2>1 DEF ScanInv, Lateness
<1>7. Complete'
  BY <1>1, <1>2 DEF ScanInv, Complete, AllText, AllHeads
<1> QED
  BY <1>1, <1>2, <1>3, <1>4, <1>5, <1>6, <1>7

LEMMA GateInv ==
  ASSUME ScanInv, Gate
  PROVE  ScanInv'
<1>1. /\ pc = "gate" /\ IF cancelled THEN End("ctx") ELSE Go("falls")
      /\ UNCHANGED <<rvars, book, lineup, cancelled, buf, got, heads, late, opened, todo, scanned, finished>>
  BY DEF Gate, At, work, results, Quiet, Fixed
<1>2. \/ pc' = "ended" /\ next' = next
      \/ pc' = "falls" /\ next' = 1 /\ outcome' = outcome
  BY <1>1 DEF End, Go
<1>3. /\ IInv' /\ Lateness' /\ Fed' /\ Awaiting' /\ Buffered' /\ Roomy' /\ Complete'
      /\ UNCHANGED <<resources, delimiter, reading, reply, given, handles>>
      /\ UNCHANGED <<falls, Whole>>
      /\ lineup \in Lineups /\ book \in Books /\ outcome = "none" /\ handles = 0 /\ ~reading
      /\ next \in Nat \ {0}
  BY <1>1, <1>2, AfterStep DEF Later
<1>4. Control'
  BY <1>1, <1>2, <1>3 DEF ScanInv, Control, Early, Later
<1>5. Fallen'
  <2>1. falls \in Seq(Processors) /\ \A j \in 1..Len(falls) : falls[j] \in Processors
    BY <1>3, LineupFacts, ElementOfSeq
  <2> QED
    BY <1>1, <1>2, <1>3, <2>1 DEF ScanInv, Fallen, Early
<1> QED
  BY <1>3, <1>4, <1>5 DEF ScanInv

LEMMA NextFallbackInv ==
  ASSUME ScanInv, NextFallback
  PROVE  ScanInv'
<1>1. /\ pc = "falls"
      /\ UNCHANGED <<rvars, book, lineup, cancelled, buf, got, heads, late, opened, finished>>
  BY DEF NextFallback, At, results, Quiet, Fixed
<1>2. \/ next > Len(falls) /\ Go("finishes") /\ UNCHANGED todo
      \/ Then(next + 1, "falls") /\ UNCHANGED todo
      \/ End("ctx") /\ UNCHANGED todo
      \/ /\ next <= Len(falls) /\ Then(next, "scan") /\ scanned' = {}
         /\ todo' = Others
  <2>1. next \in Nat \ {0} /\ Len(falls) \in Nat
    BY LineupFacts, LenProperties DEF ScanInv, Control
  <2> QED
    BY <2>1 DEF NextFallback
<1>3. \/ pc' = "finishes" /\ next' = 1 /\ outcome' = outcome /\ todo' = todo
      \/ pc' = "falls" /\ next' = next + 1 /\ outcome' = outcome /\ todo' = todo
      \/ pc' = "ended" /\ next' = next /\ todo' = todo
      \/ /\ pc' = "scan" /\ next' = next /\ outcome' = outcome /\ next <= Len(falls) /\ scanned' = {}
         /\ todo' = Others
  BY <1>2 DEF Go, Then, End
<1>4. /\ IInv' /\ Lateness' /\ Fed' /\ Awaiting' /\ Buffered' /\ Roomy' /\ Complete'
      /\ UNCHANGED <<resources, delimiter, reading, reply, given, handles>>
      /\ UNCHANGED <<falls, Whole>>
      /\ lineup \in Lineups /\ book \in Books /\ outcome = "none" /\ handles = 0 /\ ~reading
      /\ next \in Nat \ {0}
  BY <1>1, <1>3, AfterStep DEF Later
<1>5. Control'
  BY <1>1, <1>3, <1>4 DEF ScanInv, Control, Early, Later
<1>6. Fallen'
  <2>1. Len(falls) \in Nat
    BY <1>4, LineupFacts, LenProperties
  <2>2. /\ opened' \in [Processors -> Seq(Resources)]
        /\ \A p \in Processors : Once(opened'[p]) /\ Of(opened'[p]) \cap Of(resources') = {}
        /\ \A j \in 1..Len(falls) : j >= next => opened'[falls[j]] = <<>>
    BY <1>1, <1>4 DEF ScanInv, Fallen
  <2>3. todo' \in Seq(Resources)
    BY <1>3, <1>4, BookFacts DEF ScanInv, Fallen
  <2>4. \A j \in 1..Len(falls) : (j >= next + 1 => j >= next) /\ (j > next => j >= next)
    BY <1>4, <2>1
  <2>5. CASE pc' = "scan" /\ next' = next /\ next <= Len(falls) /\ scanned' = {}
    <3>1. next \in 1..Len(falls) /\ next >= next
      BY <1>4, <2>1, <2>5
    <3>2. opened'[falls[next]] = <<>>
      BY <2>2, <3>1
    <3>3. Of(opened'[falls[next]]) = {}
      BY <3>2, EmptyList
    <3> QED
      BY <1>4, <2>2, <2>3, <2>4, <2>5, <3>1, <3>3 DEF Fallen, Early
  <2>6. CASE pc' = "falls" /\ next' = next + 1
    BY <1>4, <2>2, <2>3, <2>4, <2>6 DEF Fallen, Early
  <2>7. CASE pc' \in {"finishes", "ended"}
    BY <2>2, <2>3, <2>7 DEF Fallen, Early
  <2> QED
    BY <1>3, <2>5, <2>6, <2>7
<1> QED
  BY <1>4, <1>5, <1>6 DEF ScanInv

LEMMA ScanDoneInv ==
  ASSUME ScanInv, ScanDone
  PROVE  ScanInv'
<1>1. /\ pc = "scan" /\ pc' = "falls" /\ next' = next + 1 /\ outcome' = outcome
      /\ UNCHANGED <<rvars, book, lineup, cancelled, buf, got, heads, late, opened, todo, scanned, finished>>
  BY DEF ScanDone, At, work, results, Quiet, Fixed, Then
<1>2. /\ IInv' /\ Lateness' /\ Fed' /\ Awaiting' /\ Buffered' /\ Roomy' /\ Complete'
      /\ UNCHANGED <<resources, delimiter, reading, reply, given, handles>>
      /\ UNCHANGED <<falls, Whole>>
      /\ lineup \in Lineups /\ book \in Books /\ outcome = "none" /\ handles = 0 /\ ~reading
      /\ next \in Nat \ {0}
  BY <1>1, AfterStep DEF Later
<1>3. Control'
  BY <1>1, <1>2 DEF ScanInv, Control, Early, Later
<1>4. Fallen'
  <2>1. \A j \in 1..Len(falls) : j >= next + 1 => j > next
    BY <1>2, LineupFacts, LenProperties
  <2> QED
    BY <1>1, <1>2, <2>1 DEF ScanInv, Fallen, Early
<1> QED
  BY <1>2, <1>3, <1>4 DEF ScanInv

LEMMA ScanNextInv ==
  ASSUME ScanInv, ScanNext
  PROVE  ScanInv'
<1> DEFINE p == falls[next]
           r == Head(todo)
<1>1. /\ pc = "scan" /\ todo # <<>> /\ todo' = Tail(todo)
      /\ scanned' = IF r \in ToSet(resources) THEN scanned ELSE scanned \cup {r}
      /\ UNCHANGED <<rvars, book, lineup, cancelled, buf, got, heads, late, finished>>
  BY DEF ScanNext, At, Quiet, Fixed
<1>2. \/ SkipKnown(r) /\ UNCHANGED <<progress, opened>>
      \/ /\ ~SkipKnown(r) /\ opened' = [opened EXCEPT ![p] = Append(@, r)]
         /\ \/ Then(next + 1, "falls")
            \/ Then(next, "scan")
            \/ End("ctx")
            \/ UNCHANGED progress
  BY DEF ScanNext
<1>3. \/ pc' = "scan" /\ next' = next /\ outcome' = outcome
      \/ pc' = "falls" /\ next' = next + 1 /\ outcome' = outcome
      \/ pc' = "ended" /\ next' = next
  BY <1>1, <1>2 DEF Then, End, progress
<1>4. /\ IInv' /\ Lateness' /\ Fed' /\ Awaiting' /\ Buffered' /\ Roomy' /\ Complete'
      /\ UNCHANGED <<resources, delimiter, reading, reply, given, handles>>
      /\ UNCHANGED <<falls, Whole>>
      /\ lineup \in Lineups /\ book \in Books /\ outcome = "none" /\ handles = 0 /\ ~reading
      /\ next \in Nat \ {0}
  BY <1>1, <1>3, AfterStep DEF Later
<1>5. Control'
  BY <1>1, <1>3, <1>4 DEF ScanInv, Control, Early, Later
<1>6. /\ opened \in [Processors -> Seq(Resources)] /\ todo \in Seq(Resources)
      /\ \A q \in Processors : Once(opened[q]) /\ Of(opened[q]) \cap Of(resources) = {}
      /\ next \in 1..Len(falls) /\ Of(opened[p]) \subseteq scanned
      /\ \A j \in 1..Len(falls) : j > next => opened[falls[j]] = <<>>
  BY <1>1 DEF ScanInv, Fallen
<1>7. r \in Resources /\ Tail(todo) \in Seq(Resources)
  BY <1>1, <1>6, HeadTailProperties
<1>8. /\ Len(falls) \in Nat /\ \A j \in 1..Len(falls) : falls[j] \in Processors
      /\ \A i, j \in 1..Len(falls) : falls[i] = falls[j] => i = j
  BY <1>4, LineupFacts, LenProperties, ElementOfSeq DEF Once
<1>9. ToSet(resources) = Of(resources)
  <2>1. resources \in Seq(Resources)
    BY DEF ScanInv, IInv, Types, Arguments
  <2> QED
    BY <2>1, OfIsToSet
<1>10. scanned \subseteq scanned'
  BY <1>1
<1>11. \A j \in 1..Len(falls) : (j >= next + 1 => j > next) /\ (j > next => j # next)
  BY <1>4, <1>8
<1>12. p \in Processors
  BY <1>6, <1>8
<1>13. CASE SkipKnown(r) /\ UNCHANGED <<progress, opened>>
  <2>1. pc' = "scan" /\ next' = next
    BY <1>1, <1>13 DEF progress
  <2>2. opened' = opened
    BY <1>13
  <2>3. Fallen'
    BY <1>1, <1>4, <1>6, <1>7, <1>10, <2>1, <2>2 DEF Fallen, Early
  <2> QED
    BY <1>4, <1>5, <2>3 DEF ScanInv
<1>14. CASE ~SkipKnown(r) /\ opened' = [opened EXCEPT ![p] = Append(@, r)]
  <2>1. r \notin Of(resources) /\ r \notin scanned
    BY <1>9, <1>14 DEF SkipKnown
  <2> DEFINE s == opened[p]
             t == Append(s, r)
  <2>2. s \in Seq(Resources) /\ Once(s) /\ r \notin Of(s) /\ Of(s) \cap Of(resources) = {}
    BY <1>6, <1>12, <2>1
  <2> HIDE DEF s, p, r
  <2>3. t \in Seq(Resources) /\ Of(t) = Of(s) \cup {r} /\ Once(t)
    BY <1>7, <2>2, AppendList
  <2>4. /\ opened' \in [Processors -> Seq(Resources)] /\ opened'[p] = t
        /\ \A q \in Processors : q # p => opened'[q] = opened[q]
    <3>1. opened' = [opened EXCEPT ![p] = t]
      BY <1>14 DEF s
    <3> HIDE DEF t
    <3> QED
      BY <1>6, <1>12, <2>3, <3>1
  <2> HIDE DEF t
  <2>5. \A q \in Processors : Once(opened'[q]) /\ Of(opened'[q]) \cap Of(resources') = {}
    <3> SUFFICES ASSUME NEW q \in Processors
                 PROVE  Once(opened'[q]) /\ Of(opened'[q]) \cap Of(resources) = {}
      BY <1>4
    <3>1. CASE q = p
      BY <2>1, <2>2, <2>3, <2>4, <3>1
    <3>2. CASE q # p
      BY <1>6, <2>4, <3>2
    <3> QED
      BY <3>1, <3>2
  <2>6. Of(opened'[p]) \subseteq scanned'
    <3>1. scanned' = scanned \cup {r}
      BY <1>1, <1>9, <2>1 DEF r
    <3>2. Of(s) \subseteq scanned
      BY <1>6 DEF s, p
    <3> QED
      BY <2>3, <2>4, <3>1, <3>2
  <2>7. \A j \in 1..Len(falls) : j > next => opened'[falls[j]] = <<>>
    <3> SUFFICES ASSUME NEW j \in 1..Len(falls), j > next PROVE opened'[falls[j]] = <<>>
      OBVIOUS
    <3>1. falls[j] # p /\ falls[j] \in Processors
      BY <1>6, <1>8, <1>11 DEF p
    <3> QED
      BY <1>6, <2>4, <3>1
  <2>8. Fallen'
    <3>1. CASE pc' = "scan" /\ next' = next
      BY <1>1, <1>4, <1>6, <1>7, <2>4, <2>5, <2>6, <2>7, <3>1 DEF Fallen, Early, p
    <3>2. CASE pc' = "falls" /\ next' = next + 1
      BY <1>1, <1>4, <1>7, <1>11, <2>4, <2>5, <2>7, <3>2 DEF Fallen, Early
    <3>3. CASE pc' = "ended"
      BY <1>1, <1>7, <2>4, <2>5, <3>3 DEF Fallen, Early
    <3> QED
      BY <1>3, <3>1, <3>2, <3>3
  <2> QED
    BY <1>4, <1>5, <2>8 DEF ScanInv
<1> QED
  BY <1>2, <1>13, <1>14

LEMMA NextFinishInv ==
  ASSUME ScanInv, NextFinish
  PROVE  ScanInv'
<1>1. /\ pc = "finishes"
      /\ UNCHANGED <<rvars, book, lineup, cancelled, buf, got, heads, late, opened, todo, scanned, finished>>
      /\ \/ End("ok") \/ End("ctx") \/ Then(next, "finish")
  BY DEF NextFinish, At, work, results, Quiet, Fixed
<1>2. \/ pc' = "ended" /\ next' = next
      \/ pc' = "finish" /\ next' = next /\ outcome' = outcome
  BY <1>1 DEF End, Then
<1>3. /\ IInv' /\ Lateness' /\ Fed' /\ Awaiting' /\ Buffered' /\ Roomy' /\ Complete'
      /\ UNCHANGED <<resources, delimiter, reading, reply, given, handles>>
      /\ UNCHANGED <<falls, Whole>>
      /\ lineup \in Lineups /\ book \in Books /\ outcome = "none" /\ handles = 0 /\ ~reading
      /\ next \in Nat \ {0}
  BY <1>1, <1>2, AfterStep DEF Later
<1>4. Control'
  BY <1>1, <1>2, <1>3 DEF ScanInv, Control, Early, Later
<1>5. Fallen'
  BY <1>1, <1>2, <1>3 DEF ScanInv, Fallen, Early
<1> QED
  BY <1>3, <1>4, <1>5 DEF ScanInv

LEMMA FinishInv ==
  ASSUME ScanInv, Finish
  PROVE  ScanInv'
<1>1. /\ pc = "finish"
      /\ UNCHANGED <<rvars, book, lineup, cancelled, buf, got, heads, late, opened, todo, scanned>>
      /\ \/ Then(next + 1, "finishes") \/ End("error")
  BY DEF Finish, At, work, Quiet, Fixed
<1>2. \/ pc' = "ended" /\ next' = next
      \/ pc' = "finishes" /\ next' = next + 1 /\ outcome' = outcome
  BY <1>1 DEF End, Then
<1>3. /\ IInv' /\ Lateness' /\ Fed' /\ Awaiting' /\ Buffered' /\ Roomy' /\ Complete'
      /\ UNCHANGED <<resources, delimiter, reading, reply, given, handles>>
      /\ UNCHANGED <<falls, Whole>>
      /\ lineup \in Lineups /\ book \in Books /\ outcome = "none" /\ handles = 0 /\ ~reading
      /\ next \in Nat \ {0}
  BY <1>1, <1>2, AfterStep DEF Later
<1>4. Control'
  BY <1>1, <1>2, <1>3 DEF ScanInv, Control, Early, Later
<1>5. Fallen'
  BY <1>1, <1>2, <1>3 DEF ScanInv, Fallen, Early
<1> QED
  BY <1>3, <1>4, <1>5 DEF ScanInv

-----------------------------------------------------------------------------
(* The theorems *)

LEMMA ScanStepInv ==
  ASSUME ScanInv, [ScanAction]_vars
  PROVE  ScanInv'
<1>1. CASE Reading
  BY <1>1, AskReadInv, StreamStepInv, TakeChunkInv, TakeNothingInv, ProcessChunkInv, AddHeadInv,
     FlushReadyInv, ChunkDoneInv, CheckContextInv, FlushRemainingInv, FlushDoneInv DEF Reading
<1>2. CASE After
  BY <1>2, GateInv, NextFallbackInv, ScanNextInv, ScanDoneInv, NextFinishInv, FinishInv DEF After
<1>3. CASE UNCHANGED vars
  BY <1>3, IdleScan DEF vars
<1> QED
  BY <1>1, <1>2, <1>3, StartInv, CancelInv DEF ScanAction, Scan, Returned

\* What the processors got, what is in hand and what is still asked for make up
\* the text returned so far, at every place of the scan.
THEOREM ScanInvariance == ScanSpec => []ScanInv
<1>1. ScanInv /\ [ScanAction]_vars => ScanInv'
  BY ScanStepInv
<1> QED
  BY InitScanInv, <1>1, PTL DEF ScanSpec

\* Every text processor gets the reading order without a gap or a repetition,
\* and all of it when the scan succeeds (pipeline.go:22).
THEOREM TextsComplete == ScanSpec => []TextComplete
<1>1. ScanInv => TextComplete
  <2> SUFFICES ASSUME ScanInv, NEW p \in ToSet(streams)
               PROVE  IsPrefix(got[p], Whole) /\ (outcome = "ok" => got[p] = Whole)
    BY DEF TextComplete
  <2>1. lineup \in Lineups /\ Arguments
    BY DEF ScanInv, Control, IInv, Types
  <2>2. streams \in Seq(Processors) /\ p \in Of(streams) /\ p \in Processors
    BY <2>1, LineupFacts, OfIsToSet, OfList
  <2>3. got[p] \in Seq(Byte) /\ Begins(got[p], Whole) /\ Whole \in Seq(Byte)
    BY <2>1, <2>2, WholeType DEF ScanInv, Fed
  <2>4. IsPrefix(got[p], Whole)
    BY <2>3, PrefixIsPrefix
  <2> QED
    BY <2>2, <2>4 DEF ScanInv, Complete, AllText
<1> QED
  BY ScanInvariance, <1>1, PTL

\* A head is given at most once and is the beginning of the reading order, and
\* every head asked for is given when the scan succeeds.
THEOREM HeadsExact == ScanSpec => []HeadExact
<1>1. ScanInv => HeadExact
  <2> SUFFICES ASSUME ScanInv, NEW p \in Processors
               PROVE  /\ heads[p] \in {<<>>, <<Prefix(Whole, Cap[p].head)>>}
                      /\ outcome = "ok" /\ p \in ToSet(Requests) => heads[p] # <<>>
    BY DEF HeadExact
  <2>1. ToSet(Requests) = Of(Requests)
    BY LineupFacts, OfIsToSet DEF ScanInv, Control
  <2> QED
    BY <2>1 DEF ScanInv, Awaiting, Complete, AllHeads
<1> QED
  BY ScanInvariance, <1>1, PTL

\* A head is given as soon as its bytes are there: before each read nobody who
\* still waits could have been served (pipeline.go:28).
THEOREM HeadsOnTime == ScanSpec => []HeadOnTime
<1>1. ScanInv => HeadOnTime
  <2> SUFFICES ASSUME ScanInv, pc = "read", NEW p \in ToSet(Requests), heads[p] = <<>>
               PROVE  Len(given) < Cap[p].head
    BY DEF HeadOnTime, At
  <2>1. /\ lineup \in Lineups /\ given \in Seq(Byte) /\ pc \in Early
        /\ pending \in Seq(Processors) /\ Sorted(pending, HeadOf)
        /\ \A q \in Of(Requests) : q \in Of(pending) <=> heads[q] = <<>>
    BY DEF ScanInv, Control, IInv, Types, Awaiting, Early
  <2>2. p \in Of(Requests) /\ p \in Of(pending) /\ p \in Processors
    BY <2>1, LineupFacts, OfIsToSet
  <2>3. pending # <<>>
    BY <2>2, EmptyList
  <2>4. Len(given) < Cap[Head(pending)].head
    BY <2>1, <2>3 DEF ScanInv, Buffered
  <2>5. HeadOf[Head(pending)] <= HeadOf[p] /\ Head(pending) \in Processors
    BY <2>1, <2>2, <2>3, SortedTail, HeadTailProperties
  <2>6. Len(given) \in Nat
    BY <2>1, LenProperties
  <2> QED
    BY <2>2, <2>4, <2>5, <2>6, CapTypes
<1> QED
  BY ScanInvariance, <1>1, PTL

\* Without a text processor no byte is read past the longest head, and no more
\* than that is ever kept (pipeline.go:133).
THEOREM ReadsNoFurther == ScanSpec => []NoOverread
<1>1. ScanInv => NoOverread
  BY DEF ScanInv, Buffered, Roomy, NoOverread
<1> QED
  BY ScanInvariance, <1>1, PTL

\* The fallback opens a resource once for each processor, and none of the
\* reading order (pipeline_processors.go).
THEOREM FallbacksOnce == ScanSpec => []FallbackOnce
<1>1. ScanInv => FallbackOnce
  <2> SUFFICES ASSUME ScanInv, NEW p \in ToSet(falls)
               PROVE  /\ \A i, j \in DOMAIN opened[p] : opened[p][i] = opened[p][j] => i = j
                      /\ ToSet(opened[p]) \cap ToSet(resources) = {}
    BY DEF FallbackOnce
  <2>1. p \in Processors /\ resources \in Seq(Resources)
    BY LineupFacts, OfIsToSet, OfList DEF ScanInv, Control, IInv, Types, Arguments
  <2>2. opened[p] \in Seq(Resources) /\ Once(opened[p]) /\ Of(opened[p]) \cap Of(resources) = {}
    BY <2>1 DEF ScanInv, Fallen
  <2>3. DOMAIN opened[p] = 1..Len(opened[p])
    BY <2>2, LenProperties
  <2>4. ToSet(opened[p]) = Of(opened[p]) /\ ToSet(resources) = Of(resources)
    BY <2>1, <2>2, OfIsToSet
  <2> QED
    BY <2>2, <2>3, <2>4 DEF Once
<1> QED
  BY ScanInvariance, <1>1, PTL

\* At most the read under way is delivered after the cancellation.
THEOREM OneLateChunk == ScanSpec => []AtMostOneLateChunk
<1>1. ScanInv => AtMostOneLateChunk
  BY DEF ScanInv, Lateness, AtMostOneLateChunk
<1> QED
  BY ScanInvariance, <1>1, PTL

\* The stream is closed whenever the reading phase is over, on success, on every
\* error and on cancellation.
THEOREM StreamIsClosed == ScanSpec => []StreamClosed
<1>1. ScanInv => StreamClosed
  BY DEF ScanInv, Control, StreamClosed, Early
<1> QED
  BY ScanInvariance, <1>1, PTL

-----------------------------------------------------------------------------
(* The ISBNs expected: each key once, where it is first met, up to the limit *)

\* The positions where a key comes first, and all of them.
Firsts(s) == {i \in 1..Len(s) : \A j \in 1..(i - 1) : Key[s[j]] # Key[s[i]]}
Positions(s) == [i \in 1..Len(s) |-> i]

\* One ISBN more is one key more.
LEMMA KeysAppend ==
  ASSUME NEW s \in Seq(Byte), NEW x \in Byte
  PROVE  Keys(Append(s, x)) = Keys(s) \cup {Key[x]}
<1> DEFINE t == Append(s, x)
           n == Len(s)
<1>1. n \in Nat /\ Len(t) = n + 1 /\ (\A i \in 1..n : t[i] = s[i]) /\ t[n + 1] = x
  BY AppendProperties, LenProperties
<1> HIDE DEF t, n
<1>2. 1..n + 1 = 1..n \cup {n + 1}
  BY <1>1
<1>3. Keys(t) = {Key[t[i]] : i \in 1..n + 1} /\ Keys(s) = {Key[s[i]] : i \in 1..n}
  BY <1>1 DEF Keys, n
<1>4. \A i \in 1..n : Key[t[i]] = Key[s[i]]
  BY <1>1
<1>5. ASSUME NEW key PROVE key \in Keys(t) <=> key \in Keys(s) \cup {Key[x]}
  <2>1. key \in Keys(t) <=> \E i \in 1..n + 1 : key = Key[t[i]]
    BY <1>3
  <2>2. key \in Keys(s) <=> \E i \in 1..n : key = Key[s[i]]
    BY <1>3
  <2> QED
    BY <1>1, <1>2, <1>4, <2>1, <2>2
<1> QED
  BY <1>5 DEF t

\* The list of the positions of a list.
LEMMA PositionsList ==
  ASSUME NEW s \in Seq(Byte)
  PROVE  /\ Len(s) \in Nat /\ Positions(s) \in Seq(1..Len(s)) /\ Len(Positions(s)) = Len(s)
         /\ \A i \in 1..Len(s) : Positions(s)[i] = i
<1>1. Len(s) \in Nat
  BY LenProperties
<1>2. Positions(s) \in [1..Len(s) -> 1..Len(s)]
  BY DEF Positions
<1>3. Positions(s) \in Seq(1..Len(s))
  BY <1>1, <1>2, SeqDef
<1>4. DOMAIN Positions(s) = 1..Len(s) /\ DOMAIN Positions(s) = 1..Len(Positions(s)) /\ Len(Positions(s)) \in Nat
  BY <1>2, <1>3, LenProperties
<1>5. Len(Positions(s)) = Len(s)
  <2> DEFINE m == Len(Positions(s))
             n == Len(s)
  <2>1. 1..m = 1..n /\ m \in Nat /\ n \in Nat
    BY <1>1, <1>4
  <2> HIDE DEF m, n
  <2>2. m = n
    BY <2>1
  <2> QED
    BY <2>2 DEF m, n
<1> QED
  BY <1>1, <1>3, <1>5 DEF Positions

\* Unique takes the ISBNs at those positions, in order.
LEMMA UniqueList ==
  ASSUME NEW s \in Seq(Byte)
  PROVE  LET f == Chosen(Positions(s), Firsts(s)) IN
         /\ f \in Seq(1..Len(s)) /\ Of(f) \subseteq Firsts(s)
         /\ Len(f) \in Nat /\ \A k \in 1..Len(f) : f[k] \in 1..Len(s) /\ s[f[k]] \in Byte
         /\ Unique(s) = [k \in 1..Len(f) |-> s[f[k]]]
         /\ Unique(s) \in Seq(Byte) /\ Len(Unique(s)) = Len(f)
<1> DEFINE f == Chosen(Positions(s), Firsts(s))
<1>1. Positions(s) \in Seq(1..Len(s)) /\ Len(s) \in Nat
  BY PositionsList
<1>2. f \in Seq(1..Len(s)) /\ Of(f) \subseteq Firsts(s)
  BY <1>1, ChosenList
<1>3. Unique(s) = [k \in DOMAIN f |-> s[f[k]]]
  BY DEF Unique, Positions, Firsts
<1> HIDE DEF f
<1>4. Len(f) \in Nat /\ DOMAIN f = 1..Len(f) /\ \A k \in 1..Len(f) : f[k] \in 1..Len(s)
  BY <1>2, LenProperties, ElementOfSeq
<1>5. \A k \in 1..Len(f) : s[f[k]] \in Byte
  BY <1>4, ElementOfSeq
<1> DEFINE u == [k \in 1..Len(f) |-> s[f[k]]]
<1>6. u \in [1..Len(f) -> Byte]
  BY <1>5
<1>7. u \in Seq(Byte) /\ DOMAIN u = 1..Len(f)
  BY <1>4, <1>6, SeqDef
<1> HIDE DEF u
<1>8. Len(u) = Len(f)
  <2> DEFINE m == Len(u)
             n == Len(f)
  <2>1. 1..m = 1..n /\ m \in Nat /\ n \in Nat
    BY <1>4, <1>7, LenProperties
  <2> HIDE DEF m, n
  <2>2. m = n
    BY <2>1
  <2> QED
    BY <2>2 DEF m, n
<1>9. Unique(s) = u
  BY <1>3, <1>4 DEF u
<1> QED
  BY <1>2, <1>4, <1>5, <1>7, <1>8, <1>9 DEF f, u

\* Whether a key comes first is decided by what comes before it.
LEMMA FirstsAppend ==
  ASSUME NEW s \in Seq(Byte), NEW x \in Byte
  PROVE  LET n == Len(s)
             t == Append(s, x)
         IN /\ \A i \in 1..n : i \in Firsts(t) <=> i \in Firsts(s)
            /\ n + 1 \in Firsts(t) <=> Key[x] \notin Keys(s)
            /\ Positions(t) = Append(Positions(s), n + 1)
<1> DEFINE t == Append(s, x)
           n == Len(s)
<1>1. /\ n \in Nat /\ t \in Seq(Byte) /\ Len(t) = n + 1
      /\ (\A i \in 1..n : t[i] = s[i]) /\ t[n + 1] = x
  BY AppendProperties, LenProperties
<1> DEFINE ps == Positions(s)
           pt == Positions(t)
           q == Append(ps, n + 1)
<1>2. /\ ps \in Seq(1..n) /\ Len(ps) = n /\ \A i \in 1..n : ps[i] = i
  BY PositionsList
<1>3. /\ pt \in Seq(1..n + 1) /\ Len(pt) = n + 1 /\ \A i \in 1..n + 1 : pt[i] = i
  <2> HIDE DEF t, n
  <2>1. /\ Positions(t) \in Seq(1..Len(t)) /\ Len(Positions(t)) = Len(t)
        /\ \A i \in 1..Len(t) : Positions(t)[i] = i
    BY <1>1, PositionsList
  <2> QED
    BY <1>1, <2>1
<1> HIDE DEF t, n, ps, pt
<1>4. \A i \in 1..n : i \in Firsts(t) <=> i \in Firsts(s)
  <2> TAKE i \in 1..n
  <2>1. i \in 1..n + 1 /\ t[i] = s[i] /\ \A j \in 1..(i - 1) : t[j] = s[j]
    BY <1>1
  <2>2. i \in Firsts(t) <=> \A j \in 1..(i - 1) : Key[t[j]] # Key[t[i]]
    BY <1>1, <2>1 DEF Firsts
  <2>3. i \in Firsts(s) <=> \A j \in 1..(i - 1) : Key[s[j]] # Key[s[i]]
    BY DEF Firsts, n
  <2> QED
    BY <2>1, <2>2, <2>3
<1>5. n + 1 \in Firsts(t) <=> Key[x] \notin Keys(s)
  <2>1. n + 1 \in 1..n + 1 /\ (n + 1) - 1 = n
    BY <1>1
  <2>2. n + 1 \in Firsts(t) <=> \A j \in 1..n : Key[t[j]] # Key[x]
    BY <1>1, <2>1 DEF Firsts
  <2>3. Key[x] \in Keys(s) <=> \E j \in 1..n : Key[s[j]] = Key[x]
    BY DEF Keys, n
  <2> QED
    BY <1>1, <2>2, <2>3
<1>6. q = pt
  <2>1. ps \in Seq(1..n + 1) /\ n + 1 \in 1..n + 1
    <3>1. 1..n \subseteq 1..n + 1
      BY <1>1
    <3> QED
      BY <1>1, <1>2, <3>1, SeqMonotonic
  <2>2. /\ q \in Seq(1..n + 1) /\ Len(q) = n + 1 /\ (\A i \in 1..n : q[i] = ps[i]) /\ q[n + 1] = n + 1
    BY <1>2, <2>1, AppendProperties
  <2> HIDE DEF q
  <2>3. \A i \in 1..n + 1 : q[i] = pt[i]
    <3> TAKE i \in 1..n + 1
    <3>1. i \in 1..n \/ i = n + 1
      BY <1>1
    <3> QED
      BY <1>2, <1>3, <2>2, <3>1
  <2>4. Len(q) = Len(pt) /\ \A i \in 1..Len(q) : q[i] = pt[i]
    BY <1>3, <2>2, <2>3
  <2> QED
    BY <1>3, <2>2, <2>4, SeqEqual
<1> QED
  BY <1>4, <1>5, <1>6 DEF t, n, ps, pt, q

\* One more ISBN is one more if its key is new.
LEMMA UniqueAppend ==
  ASSUME NEW s \in Seq(Byte), NEW x \in Byte
  PROVE  Unique(Append(s, x)) = IF Key[x] \in Keys(s) THEN Unique(s) ELSE Append(Unique(s), x)
<1> DEFINE t == Append(s, x)
           n == Len(s)
           f == Chosen(Positions(s), Firsts(s))
           g == Chosen(Positions(t), Firsts(t))
<1>1. /\ n \in Nat /\ t \in Seq(Byte) /\ Len(t) = n + 1
      /\ (\A i \in 1..n : t[i] = s[i]) /\ t[n + 1] = x
  BY AppendProperties, LenProperties
<1>2. /\ \A i \in 1..n : i \in Firsts(t) <=> i \in Firsts(s)
      /\ n + 1 \in Firsts(t) <=> Key[x] \notin Keys(s)
      /\ Positions(t) = Append(Positions(s), n + 1)
  BY FirstsAppend
<1>3. /\ f \in Seq(1..n) /\ Len(f) \in Nat
      /\ \A k \in 1..Len(f) : f[k] \in 1..n /\ s[f[k]] \in Byte
      /\ Unique(s) = [k \in 1..Len(f) |-> s[f[k]]]
      /\ Unique(s) \in Seq(Byte) /\ Len(Unique(s)) = Len(f)
  BY UniqueList
<1> HIDE DEF t
<1>4. /\ Unique(t) = [k \in 1..Len(g) |-> t[g[k]]]
      /\ Unique(t) \in Seq(Byte) /\ Len(Unique(t)) = Len(g)
  BY <1>1, UniqueList
<1>5. Positions(s) \in Seq(1..n) /\ Len(Positions(s)) = n /\ \A i \in 1..n : Positions(s)[i] = i
  BY PositionsList
<1> HIDE DEF n
<1>6. Chosen(Positions(s), Firsts(t)) = f
  <2>1. \A y \in Of(Positions(s)) : y \in Firsts(t) <=> y \in Firsts(s)
    BY <1>2, <1>5 DEF Of
  <2> QED
    BY <1>5, <2>1, ChosenSame
<1>7. g = IF n + 1 \in Firsts(t) THEN Append(f, n + 1) ELSE f
  <2>1. 1..n \subseteq 1..n + 1 /\ n + 1 \in 1..n + 1
    BY <1>1
  <2>2. Positions(s) \in Seq(1..n + 1)
    BY <1>5, <2>1, SeqMonotonic
  <2> DEFINE ps == Positions(s)
             P == Firsts(t)
             B == 1..n + 1
             y == n + 1
  <2>3. ps \in Seq(B) /\ y \in B
    BY <2>1, <2>2
  <2> HIDE DEF ps, P, B, y
  <2>4. Chosen(Append(ps, y), P) = IF y \in P THEN Append(Chosen(ps, P), y) ELSE Chosen(ps, P)
    BY <2>3, ChosenAppend
  <2>5. Chosen(Append(ps, n + 1), P) = IF n + 1 \in P THEN Append(Chosen(ps, P), n + 1) ELSE Chosen(ps, P)
    BY <2>4 DEF y
  <2>6. Chosen(ps, P) = f
    BY <1>6 DEF ps, P
  <2>7. g = Chosen(Append(ps, n + 1), P)
    BY <1>2 DEF ps, P
  <2> HIDE DEF f, g
  <2>8. g = IF n + 1 \in P THEN Append(f, n + 1) ELSE f
    BY <2>5, <2>6, <2>7
  <2> QED
    BY <2>8 DEF P
<1> HIDE DEF f, g
<1>8. CASE Key[x] \in Keys(s)
  <2>1. g = f
    BY <1>2, <1>7, <1>8
  <2>2. Len(Unique(t)) = Len(Unique(s)) /\ \A k \in 1..Len(Unique(t)) : Unique(t)[k] = Unique(s)[k]
    BY <1>1, <1>3, <1>4, <2>1
  <2>3. Unique(t) = Unique(s)
    BY <1>3, <1>4, <2>2, SeqEqual
  <2> QED
    BY <1>8, <2>3 DEF t
<1>9. CASE Key[x] \notin Keys(s)
  <2> DEFINE u == Unique(s)
             v == Unique(t)
             w == Append(u, x)
             m == Len(f)
  <2>1. g = Append(f, n + 1)
    BY <1>2, <1>7, <1>9
  <2>2. Len(g) = m + 1 /\ (\A k \in 1..m : g[k] = f[k]) /\ g[m + 1] = n + 1
    <3>1. 1..n \subseteq 1..n + 1 /\ n + 1 \in 1..n + 1
      BY <1>1
    <3>2. f \in Seq(1..n + 1)
      BY <1>3, <3>1, SeqMonotonic
    <3> QED
      BY <2>1, <3>1, <3>2, AppendProperties
  <2>3. /\ v \in Seq(Byte) /\ Len(v) = m + 1
        /\ \A k \in 1..m + 1 : v[k] = t[g[k]]
    BY <1>3, <1>4, <2>2
  <2>4. /\ u \in Seq(Byte) /\ Len(u) = m /\ \A k \in 1..m : u[k] = s[f[k]]
    BY <1>3
  <2> HIDE DEF u, v
  <2>5. /\ w \in Seq(Byte) /\ Len(w) = m + 1 /\ (\A k \in 1..m : w[k] = u[k]) /\ w[m + 1] = x
    BY <2>4, AppendProperties
  <2> HIDE DEF w, m
  <2>6. \A k \in 1..m : f[k] \in 1..n
    BY <1>3 DEF m
  <2>7. m \in Nat
    BY <1>3 DEF m
  <2>8. \A k \in 1..m + 1 : v[k] = w[k]
    <3> TAKE k \in 1..m + 1
    <3>1. CASE k = m + 1
      BY <1>1, <2>2, <2>3, <2>5, <3>1 DEF m
    <3>2. CASE k \in 1..m
      BY <1>1, <2>2, <2>3, <2>4, <2>5, <2>6, <3>2 DEF m
    <3> QED
      BY <2>7, <3>1, <3>2
  <2>9. v = w
    <3>1. Len(v) = Len(w) /\ \A k \in 1..Len(v) : v[k] = w[k]
      BY <2>3, <2>5, <2>8
    <3> QED
      BY <2>3, <2>5, <3>1, SeqEqual
  <2> QED
    BY <1>9, <2>9 DEF t, u, v, w
<1> QED
  BY <1>8, <1>9

\* No key is repeated.
Distinct(s) == \A i, j \in 1..Len(s) : Key[s[i]] = Key[s[j]] => i = j

\* A new key keeps the list free of repetitions.
LEMMA DistinctAppend ==
  ASSUME NEW s \in Seq(Byte), NEW x \in Byte, Distinct(s), Key[x] \notin Keys(s)
  PROVE  Distinct(Append(s, x))
<1> DEFINE t == Append(s, x)
           n == Len(s)
<1>1. n \in Nat /\ Len(t) = n + 1 /\ (\A i \in 1..n : t[i] = s[i]) /\ t[n + 1] = x
  BY AppendProperties, LenProperties
<1> HIDE DEF t
<1>2. \A i \in 1..n : Key[t[i]] # Key[x]
  BY <1>1 DEF Keys
<1>3. \A i, j \in 1..n : Key[t[i]] = Key[t[j]] => i = j
  BY <1>1 DEF Distinct
<1> HIDE DEF n
<1>4. \A i \in 1..n + 1 : i \in 1..n \/ i = n + 1
  BY <1>1
<1>5. \A i, j \in 1..n + 1 : Key[t[i]] = Key[t[j]] => i = j
  <2> SUFFICES ASSUME NEW i \in 1..n + 1, NEW j \in 1..n + 1, Key[t[i]] = Key[t[j]] PROVE i = j
    OBVIOUS
  <2> QED
    BY <1>1, <1>2, <1>3, <1>4
<1> QED
  BY <1>1, <1>5 DEF Distinct, t

LEMMA EmptyKeys == Keys(<<>>) = {} /\ Distinct(<<>>) /\ Unique(<<>>) = <<>>
<1>1. <<>> \in Seq(Byte) /\ Len(<<>>) = 0
  BY EmptySeq
<1>2. Keys(<<>>) = {} /\ Distinct(<<>>)
  BY <1>1 DEF Keys, Distinct
<1>3. Unique(<<>>) = <<>>
  <2> DEFINE s == <<>>
  <2> HIDE DEF s
  <2>1. s \in Seq(Byte) /\ Len(s) = 0
    BY <1>1 DEF s
  <2>2. PICK f : f \in Seq(1..Len(s)) /\ Unique(s) \in Seq(Byte) /\ Len(Unique(s)) = Len(f)
                 /\ \A k \in 1..Len(f) : f[k] \in 1..Len(s)
    BY <2>1, UniqueList
  <2>3. Len(f) \in Nat
    BY <2>2, LenProperties
  <2>4. Len(f) = 0
    BY <2>1, <2>2, <2>3
  <2>5. Unique(s) = <<>>
    BY <2>2, <2>4, EmptySeq
  <2> QED
    BY <2>5 DEF s
<1> QED
  BY <1>2, <1>3

\* Each key is kept, once.
LEMMA UniqueFacts ==
  ASSUME NEW s \in Seq(Byte)
  PROVE  Unique(s) \in Seq(Byte) /\ Keys(Unique(s)) = Keys(s) /\ Distinct(Unique(s))
<1> DEFINE Good(t) == Unique(t) \in Seq(Byte) /\ Keys(Unique(t)) = Keys(t) /\ Distinct(Unique(t))
           S == {t \in Seq(Byte) : Good(t)}
<1>1. <<>> \in S
  BY EmptyKeys, EmptySeq
<1>2. \A t \in Seq(Byte), x \in Byte : t \in S => Append(t, x) \in S
  <2> SUFFICES ASSUME NEW t \in Seq(Byte), NEW x \in Byte, Good(t)
               PROVE  Append(t, x) \in Seq(Byte) /\ Good(Append(t, x))
    OBVIOUS
  <2> DEFINE u == Unique(t)
             v == Unique(Append(t, x))
  <2>1. Append(t, x) \in Seq(Byte) /\ Keys(Append(t, x)) = Keys(t) \cup {Key[x]}
    BY AppendProperties, KeysAppend
  <2>2. v = IF Key[x] \in Keys(t) THEN u ELSE Append(u, x)
    BY UniqueAppend
  <2>3. u \in Seq(Byte) /\ Keys(u) = Keys(t) /\ Distinct(u)
    OBVIOUS
  <2> HIDE DEF u, v
  <2>4. v \in Seq(Byte) /\ Keys(v) = Keys(t) \cup {Key[x]} /\ Distinct(v)
    <3>1. CASE Key[x] \in Keys(t)
      BY <2>2, <2>3, <3>1
    <3>2. CASE Key[x] \notin Keys(t)
      <4>1. Append(u, x) \in Seq(Byte) /\ Keys(Append(u, x)) = Keys(u) \cup {Key[x]}
        BY <2>3, AppendProperties, KeysAppend
      <4>2. Distinct(Append(u, x))
        BY <2>3, <3>2, DistinctAppend
      <4> QED
        BY <2>2, <2>3, <3>2, <4>1, <4>2
    <3> QED
      BY <3>1, <3>2
  <2> QED
    BY <2>1, <2>4 DEF v
<1> HIDE DEF S
<1>3. Seq(Byte) \subseteq S
  BY <1>1, <1>2, AllLists
<1> QED
  BY <1>3 DEF S

\* ISBNs with keys that were met before add nothing.
LEMMA UniqueKnown ==
  ASSUME NEW s \in Seq(Byte), NEW t \in Seq(Byte), Keys(t) \subseteq Keys(s)
  PROVE  Unique(s \o t) = Unique(s)
<1> DEFINE Good(u) == Keys(u) \subseteq Keys(s) =>
                        Unique(s \o u) = Unique(s) /\ Keys(s \o u) = Keys(s)
           S == {u \in Seq(Byte) : Good(u)}
<1>1. <<>> \in S
  BY EmptySeq, ConcatEmptySeq
<1>2. \A u \in Seq(Byte), x \in Byte : u \in S => Append(u, x) \in S
  <2> SUFFICES ASSUME NEW u \in Seq(Byte), NEW x \in Byte, Good(u)
               PROVE  Append(u, x) \in Seq(Byte) /\ Good(Append(u, x))
    OBVIOUS
  <2> DEFINE v == s \o u
  <2>1. Append(u, x) \in Seq(Byte) /\ Keys(Append(u, x)) = Keys(u) \cup {Key[x]}
    BY AppendProperties, KeysAppend
  <2>2. s \o Append(u, x) = Append(v, x) /\ v \in Seq(Byte)
    BY ConcatAppend
  <2> HIDE DEF v
  <2>3. /\ Unique(Append(v, x)) = IF Key[x] \in Keys(v) THEN Unique(v) ELSE Append(Unique(v), x)
        /\ Keys(Append(v, x)) = Keys(v) \cup {Key[x]}
    BY <2>2, UniqueAppend, KeysAppend
  <2> QED
    BY <2>1, <2>2, <2>3 DEF v
<1> HIDE DEF S
<1>3. Seq(Byte) \subseteq S
  BY <1>1, <1>2, AllLists
<1> QED
  BY <1>3 DEF S

\* More ISBNs are added at the end.
LEMMA UniqueGrows ==
  ASSUME NEW s \in Seq(Byte), NEW t \in Seq(Byte)
  PROVE  \E v \in Seq(Byte) : Unique(s \o t) = Unique(s) \o v
<1> DEFINE S == {u \in Seq(Byte) : \E v \in Seq(Byte) : Unique(s \o u) = Unique(s) \o v}
<1>0. Unique(s) \in Seq(Byte)
  BY UniqueFacts
<1>1. <<>> \in S
  BY <1>0, EmptySeq, ConcatEmptySeq
<1>2. \A u \in Seq(Byte), x \in Byte : u \in S => Append(u, x) \in S
  <2> SUFFICES ASSUME NEW u \in Seq(Byte), NEW x \in Byte, NEW v \in Seq(Byte),
                      Unique(s \o u) = Unique(s) \o v
               PROVE  Append(u, x) \in Seq(Byte)
                      /\ \E w \in Seq(Byte) : Unique(s \o Append(u, x)) = Unique(s) \o w
    OBVIOUS
  <2> DEFINE w == s \o u
  <2>1. Append(u, x) \in Seq(Byte) /\ s \o Append(u, x) = Append(w, x) /\ w \in Seq(Byte)
    BY AppendProperties, ConcatAppend
  <2> HIDE DEF w
  <2>2. Unique(Append(w, x)) = IF Key[x] \in Keys(w) THEN Unique(w) ELSE Append(Unique(w), x)
    BY <2>1, UniqueAppend
  <2>3. Append(v, x) \in Seq(Byte) /\ Unique(s) \o Append(v, x) = Append(Unique(s) \o v, x)
    BY <1>0, AppendProperties, ConcatAppend
  <2>4. Unique(w) = Unique(s) \o v
    BY DEF w
  <2>5. CASE Key[x] \in Keys(w)
    BY <2>1, <2>2, <2>4, <2>5
  <2>6. CASE Key[x] \notin Keys(w)
    BY <2>1, <2>2, <2>3, <2>4, <2>6
  <2> QED
    BY <2>5, <2>6
<1> HIDE DEF S
<1>3. Seq(Byte) \subseteq S
  BY <1>1, <1>2, AllLists
<1> QED
  BY <1>3 DEF S

LEMMA LimitTypes ==
  ASSUME NEW p \in Processors
  PROVE  Cap[p].limit \in Nat
BY ProcessorsAssumption

\* What is expected has no repetition and keeps the limit; below the limit it
\* is every key met.
LEMMA ExpectedFacts ==
  ASSUME NEW p \in Processors, NEW s \in Seq(Byte)
  PROVE  LET e == ExpectedISBNs(p, s) IN
         /\ e \in Seq(Byte) /\ Distinct(e)
         /\ Cap[p].limit > 0 => Len(e) <= Cap[p].limit
         /\ ~IsbnDone(p, e) => /\ e = Unique(s)
                               /\ Cap[p].limit > 0 => Len(e) + 1 <= Cap[p].limit
<1> DEFINE l == Cap[p].limit
           u == Unique(s)
           e == ExpectedISBNs(p, s)
<1>1. l \in Nat /\ u \in Seq(Byte) /\ Distinct(u)
  BY LimitTypes, UniqueFacts
<1>2. e = IF l = 0 THEN u ELSE Prefix(u, l)
  BY DEF ExpectedISBNs
<1>3. IsbnDone(p, e) <=> l > 0 /\ Len(e) >= l
  BY DEF IsbnDone
<1> HIDE DEF e, l, u
<1>4. /\ Prefix(u, l) \in Seq(Byte) /\ Len(Prefix(u, l)) = Least(l, Len(u))
      /\ Len(Prefix(u, l)) <= l /\ Len(Prefix(u, l)) <= Len(u)
      /\ \A i \in 1..Len(Prefix(u, l)) : Prefix(u, l)[i] = u[i]
      /\ Len(u) <= l => Prefix(u, l) = u
  BY <1>1, PrefixFacts
<1>5. Len(u) \in Nat /\ Len(Prefix(u, l)) \in Nat
  BY <1>1, <1>4, LenProperties
<1>6. Distinct(Prefix(u, l))
  <2> DEFINE v == Prefix(u, l)
  <2> HIDE DEF v
  <2>1. \A i \in 1..Len(v) : i \in 1..Len(u) /\ v[i] = u[i]
    BY <1>4, <1>5 DEF v
  <2>2. Distinct(v)
    BY <1>1, <2>1 DEF Distinct
  <2> QED
    BY <2>2 DEF v
<1>7. CASE l = 0
  <2>1. e = u /\ ~(l > 0)
    BY <1>2, <1>7
  <2> QED
    BY <1>1, <2>1 DEF e, l, u
<1>8. CASE l # 0
  <2>1. e = Prefix(u, l)
    BY <1>2, <1>8
  <2>2. ~(Len(e) >= l) => e = u /\ Len(e) + 1 <= l
    <3> SUFFICES ASSUME ~(Len(e) >= l) PROVE e = u /\ Len(e) + 1 <= l
      OBVIOUS
    <3>1. Len(u) <= l
      BY <1>1, <1>4, <1>5, <2>1 DEF Least
    <3> QED
      BY <1>1, <1>4, <1>5, <2>1, <3>1
  <2>3. l > 0
    BY <1>1, <1>8
  <2>4. e \in Seq(Byte) /\ Distinct(e) /\ Len(e) <= l
    BY <1>4, <1>6, <2>1
  <2> QED
    BY <1>3, <2>2, <2>3, <2>4 DEF e, l, u
<1> QED
  BY <1>7, <1>8

\* Once the limit is reached nothing more is expected.
LEMMA ExpectedDone ==
  ASSUME NEW p \in Processors, NEW s \in Seq(Byte), NEW t \in Seq(Byte),
         IsbnDone(p, ExpectedISBNs(p, s))
  PROVE  ExpectedISBNs(p, s \o t) = ExpectedISBNs(p, s)
<1> DEFINE l == Cap[p].limit
           u == Unique(s)
           w == Unique(s \o t)
<1>1. l \in Nat /\ u \in Seq(Byte) /\ l > 0 /\ Len(ExpectedISBNs(p, s)) >= l
  BY LimitTypes, UniqueFacts DEF IsbnDone
<1>2. PICK v \in Seq(Byte) : w = u \o v
  BY UniqueGrows
<1>3. w \in Seq(Byte)
  BY UniqueFacts, ConcatProperties
<1>4. ExpectedISBNs(p, s) = Prefix(u, l) /\ ExpectedISBNs(p, s \o t) = Prefix(w, l)
  BY <1>1 DEF ExpectedISBNs
<1> HIDE DEF l, u, w
<1>5. Len(u) \in Nat
  BY <1>1, LenProperties
<1>6. l <= Len(u)
  <2>1. Len(Prefix(u, l)) <= Len(u) /\ Len(Prefix(u, l)) >= l /\ Len(Prefix(u, l)) <= l
    BY <1>1, <1>4, PrefixFacts
  <2>2. Len(Prefix(u, l)) = l
    BY <1>1, <2>1, PrefixFacts, LenProperties
  <2> QED
    BY <2>1, <2>2
<1>7. Prefix(u, Len(u)) = u
  BY <1>1, <1>5, PrefixFacts
<1>8. Begins(u, w)
  BY <1>2 DEF Begins
<1>9. Prefix(Prefix(u, Len(u)), l) = Prefix(w, l)
  BY <1>1, <1>3, <1>5, <1>6, <1>8, PrefixOfWhole
<1> QED
  BY <1>4, <1>7, <1>9

\* add, one ISBN at a time.
AddOne(p, out, o, i) ==
  IF (o # out /\ IsbnDone(p, o)) \/ Key[i] \in Keys(o) THEN o ELSE Append(o, i)
AddRun(u, p, out, isbns) ==
  u = [k \in 0..Len(isbns) |-> IF k = 0 THEN out ELSE AddOne(p, out, u[k - 1], isbns[k])]

\* There is one run of add.
LEMMA AddRunOnce ==
  ASSUME NEW p, NEW out, NEW s \in Seq(Byte),
         NEW u, AddRun(u, p, out, s), NEW v, AddRun(v, p, out, s)
  PROVE  u = v
<1> DEFINE n == Len(s)
<1>1. n \in Nat
  BY LenProperties
<1>2. u = [k \in 0..n |-> u[k]] /\ v = [k \in 0..n |-> v[k]]
  BY DEF AddRun
<1>3. \A k \in 0..n : u[k] = IF k = 0 THEN out ELSE AddOne(p, out, u[k - 1], s[k])
  BY DEF AddRun
<1>4. \A k \in 0..n : v[k] = IF k = 0 THEN out ELSE AddOne(p, out, v[k - 1], s[k])
  BY DEF AddRun
<1> HIDE DEF n
<1>5. u[0] = v[0]
  <2>1. 0 \in 0..n
    BY <1>1
  <2> QED
    BY <1>3, <1>4, <2>1
<1>6. \A k \in 1..n : u[k - 1] = v[k - 1] => u[k] = v[k]
  <2> SUFFICES ASSUME NEW k \in 1..n, u[k - 1] = v[k - 1] PROVE u[k] = v[k]
    OBVIOUS
  <2>1. k \in 0..n /\ k # 0
    BY <1>1
  <2> QED
    BY <1>3, <1>4, <2>1
<1>7. \A k \in 0..n : u[k] = v[k]
  BY <1>1, <1>5, <1>6, RunsAgree
<1> QED
  BY <1>2, <1>7

\* add is the end of its run.
LEMMA AddRecurs ==
  ASSUME NEW p, NEW out \in Seq(Byte), NEW s \in Seq(Byte)
  PROVE  \E u \in [0..Len(s) -> Seq(Byte)] : AddRun(u, p, out, s) /\ AddISBNs(p, out, s) = u[Len(s)]
<1> DEFINE n == Len(s)
           F == [q \in Nat \X Seq(Byte) |->
                  IF q[1] \in 1..n THEN AddOne(p, out, q[2], s[q[1]]) ELSE q[2]]
<1>1. n \in Nat /\ \A k \in 1..n : s[k] \in Byte
  BY LenProperties, ElementOfSeq
<1>2. \A k \in 1..n, t \in Seq(Byte) : AddOne(p, out, t, s[k]) \in Seq(Byte)
  BY <1>1, AppendProperties DEF AddOne
<1>3. F \in [Nat \X Seq(Byte) -> Seq(Byte)]
  BY <1>2
<1>4. \A k \in 1..n, t \in Seq(Byte) : F[<<k, t>>] = AddOne(p, out, t, s[k])
  <2> TAKE k \in 1..n, t \in Seq(Byte)
  <2>1. k \in Nat /\ <<k, t>> \in Nat \X Seq(Byte)
    BY <1>1
  <2> HIDE DEF n
  <2> QED
    BY <2>1
<1> HIDE DEF F
<1>5. PICK f \in [0..n -> Seq(Byte)] : f[0] = out /\ \A k \in 1..n : f[k] = F[<<k, f[k - 1]>>]
  <2> DEFINE S == Seq(Byte)
  <2>1. n \in Nat /\ out \in S /\ F \in [Nat \X S -> S]
    BY <1>1, <1>3
  <2> HIDE DEF S, n
  <2>2. HasRun(S, out, F, n)
    BY <2>1, Iterates
  <2> QED
    BY <2>2 DEF HasRun, Repeats, S, n
<1>6. AddRun(f, p, out, s)
  <2>1. ASSUME NEW k \in 0..n
        PROVE  f[k] = IF k = 0 THEN out ELSE AddOne(p, out, f[k - 1], s[k])
    <3>1. CASE k = 0
      BY <1>5, <3>1
    <3>2. CASE k # 0
      <4>1. k \in 1..n /\ k - 1 \in 0..n
        BY <1>1, <3>2
      <4>2. f[k - 1] \in Seq(Byte)
        BY <1>5, <4>1
      <4> QED
        BY <1>4, <1>5, <3>2, <4>1, <4>2
    <3> QED
      BY <3>1, <3>2
  <2>2. f = [k \in 0..n |-> f[k]]
    BY <1>5
  <2> QED
    BY <2>1, <2>2 DEF AddRun
<1>7. AddISBNs(p, out, s) = (CHOOSE u : AddRun(u, p, out, s))[n]
  BY DEF AddISBNs, AddRun, AddOne
<1>8. \A u : AddRun(u, p, out, s) => u = f
  BY <1>6, AddRunOnce
<1> QED
  BY <1>6, <1>7, <1>8

\* add takes one ISBN after the other.
LEMMA AddAppend ==
  ASSUME NEW p, NEW out \in Seq(Byte), NEW s \in Seq(Byte), NEW x \in Byte
  PROVE  AddISBNs(p, out, Append(s, x)) = AddOne(p, out, AddISBNs(p, out, s), x)
<1> DEFINE t == Append(s, x)
           n == Len(s)
<1>1. /\ t \in Seq(Byte) /\ Len(t) = n + 1 /\ n \in Nat
      /\ (\A i \in 1..n : t[i] = s[i]) /\ t[n + 1] = x
  BY AppendProperties, LenProperties
<1> HIDE DEF t
<1>2. PICK u : AddRun(u, p, out, s) /\ AddISBNs(p, out, s) = u[n]
  BY AddRecurs
<1>3. PICK v : AddRun(v, p, out, t) /\ AddISBNs(p, out, t) = v[n + 1]
  BY <1>1, AddRecurs
<1>4. \A k \in 0..n : u[k] = IF k = 0 THEN out ELSE AddOne(p, out, u[k - 1], s[k])
  BY <1>2 DEF AddRun
<1>5. \A k \in 0..n + 1 : v[k] = IF k = 0 THEN out ELSE AddOne(p, out, v[k - 1], t[k])
  BY <1>1, <1>3 DEF AddRun
<1> HIDE DEF n
<1>6. u[0] = v[0]
  BY <1>1, <1>4, <1>5
<1>7. \A k \in 0..n : u[k] = v[k]
  <2>1. \A k \in 1..n : u[k - 1] = v[k - 1] => u[k] = v[k]
    BY <1>1, <1>4, <1>5
  <2>2. n \in Nat
    BY <1>1
  <2> QED
    BY <1>6, <2>1, <2>2, RunsAgree
<1>8. u[n] = v[n]
  BY <1>1, <1>7
<1>9. n + 1 \in 0..n + 1 /\ n + 1 # 0 /\ (n + 1) - 1 = n
  BY <1>1
<1>10. v[n + 1] = AddOne(p, out, v[n], x)
  BY <1>1, <1>5, <1>9
<1> QED
  BY <1>2, <1>3, <1>8, <1>10 DEF t

\* What add makes of more ISBNs is what is expected of all of them.
LEMMA AddExpected ==
  ASSUME NEW p \in Processors, NEW s \in Seq(Byte), NEW t \in Seq(Byte),
         ~IsbnDone(p, ExpectedISBNs(p, s))
  PROVE  AddISBNs(p, ExpectedISBNs(p, s), t) = ExpectedISBNs(p, s \o t)
<1> DEFINE out == ExpectedISBNs(p, s)
           S == {u \in Seq(Byte) : AddISBNs(p, out, u) = ExpectedISBNs(p, s \o u)}
<1>0. out \in Seq(Byte)
  BY ExpectedFacts
<1>1. <<>> \in S
  <2> DEFINE e == <<>>
  <2> HIDE DEF e
  <2>1. e \in Seq(Byte) /\ Len(e) = 0 /\ s \o e = s
    BY EmptySeq, ConcatEmptySeq DEF e
  <2> HIDE DEF out
  <2>2. PICK u \in [0..Len(e) -> Seq(Byte)] : AddRun(u, p, out, e) /\ AddISBNs(p, out, e) = u[Len(e)]
    BY <1>0, <2>1, AddRecurs
  <2>3. u[0] = out
    BY <2>1, <2>2 DEF AddRun
  <2>4. AddISBNs(p, out, e) = ExpectedISBNs(p, s \o e)
    BY <2>1, <2>2, <2>3 DEF out
  <2> QED
    BY <2>1, <2>4 DEF e
<1>2. \A u \in Seq(Byte), x \in Byte : u \in S => Append(u, x) \in S
  <2> SUFFICES ASSUME NEW u \in Seq(Byte), NEW x \in Byte,
                      AddISBNs(p, out, u) = ExpectedISBNs(p, s \o u)
               PROVE  Append(u, x) \in Seq(Byte)
                      /\ AddISBNs(p, out, Append(u, x)) = ExpectedISBNs(p, s \o Append(u, x))
    OBVIOUS
  <2> DEFINE w == s \o u
             o == ExpectedISBNs(p, w)
  <2>1. Append(u, x) \in Seq(Byte) /\ s \o Append(u, x) = Append(w, x) /\ w \in Seq(Byte)
        /\ Append(w, x) = w \o <<x>> /\ <<x>> \in Seq(Byte)
    BY AppendProperties, ConcatAppend, AppendIsConcat
  <2>2. AddISBNs(p, out, Append(u, x)) = AddOne(p, out, o, x)
    BY <1>0, AddAppend
  <2>3. IsbnDone(p, o) => o # out
    OBVIOUS
  <2> HIDE DEF w, out
  <2>4. CASE IsbnDone(p, o)
    <3>1. ExpectedISBNs(p, w \o <<x>>) = o
      BY <2>1, <2>4, ExpectedDone
    <3> QED
      BY <2>1, <2>2, <2>3, <2>4, <3>1 DEF AddOne
  <2>5. CASE ~IsbnDone(p, o)
    <3>1. o = Unique(w) /\ (Cap[p].limit > 0 => Len(o) + 1 <= Cap[p].limit) /\ o \in Seq(Byte)
      BY <2>1, <2>5, ExpectedFacts
    <3>2. Keys(o) = Keys(w)
      BY <2>1, <3>1, UniqueFacts
    <3>3. Unique(Append(w, x)) = IF Key[x] \in Keys(w) THEN Unique(w) ELSE Append(Unique(w), x)
      BY <2>1, UniqueAppend
    <3>4. AddOne(p, out, o, x) = Unique(Append(w, x))
      BY <2>5, <3>1, <3>2, <3>3 DEF AddOne
    <3> DEFINE n == Unique(Append(w, x))
    <3>5. n \in Seq(Byte) /\ (Cap[p].limit > 0 => Len(n) <= Cap[p].limit)
      <4> HIDE DEF o
      <4>1. Len(o) \in Nat /\ Cap[p].limit \in Nat /\ Len(Append(o, x)) = Len(o) + 1 /\ Append(o, x) \in Seq(Byte)
        BY <3>1, LenProperties, LimitTypes, AppendProperties
      <4>2. n = o \/ n = Append(o, x)
        BY <3>1, <3>3
      <4> HIDE DEF n
      <4>3. CASE n = o
        BY <3>1, <4>1, <4>3
      <4>4. CASE n = Append(o, x)
        BY <3>1, <4>1, <4>4
      <4> QED
        BY <4>2, <4>3, <4>4
    <3>6. ExpectedISBNs(p, Append(w, x)) = IF Cap[p].limit = 0 THEN n ELSE Prefix(n, Cap[p].limit)
      BY DEF ExpectedISBNs
    <3> HIDE DEF n
    <3>7. ExpectedISBNs(p, Append(w, x)) = n
      BY <3>5, <3>6, LimitTypes, PrefixFacts
    <3> QED
      BY <2>1, <2>2, <3>4, <3>7 DEF n
  <2> QED
    BY <2>4, <2>5
<1> HIDE DEF S
<1>3. Seq(Byte) \subseteq S
  BY <1>1, <1>2, AllLists
<1> QED
  BY <1>3 DEF S

-----------------------------------------------------------------------------
(* The ISBNs met in the resources visited *)

\* The keys of two lists.
LEMMA KeysConcat ==
  ASSUME NEW s \in Seq(Byte), NEW t \in Seq(Byte)
  PROVE  Keys(s \o t) = Keys(s) \cup Keys(t)
<1>1. \A u : Keys(u) = {Key[x] : x \in Of(u)}
  BY DEF Keys, Of
<1>2. Of(s \o t) = Of(s) \cup Of(t)
  BY ConcatList
<1> QED
  BY <1>1, <1>2

\* The ISBNs at the beginning of a text.
Within(text, n) == FindISBNs(Prefix(text, n))

LEMMA WithinType ==
  ASSUME NEW text \in Seq(Byte), NEW n \in Nat
  PROVE  Within(text, n) \in Seq(Byte)
BY PrefixFacts, ChosenList DEF Within, FindISBNs

\* Those of the wanted resources among some, resource by resource.
Pieces(want, n, visited) ==
  [i \in DOMAIN Chosen(visited, want) |-> Within(Text[Chosen(visited, want)[i]], n)]
Gathered(want, n, visited) == FlattenSeq(Pieces(want, n, visited))

\* There is one piece for each wanted resource.
LEMMA PiecesList ==
  ASSUME NEW want, NEW n \in Nat, NEW visited \in Seq(Resources)
  PROVE  LET c == Chosen(visited, want)
             l == Pieces(want, n, visited)
         IN /\ c \in Seq(Resources) /\ Len(c) \in Nat
            /\ l \in Seq(Seq(Byte)) /\ Len(l) = Len(c)
            /\ \A i \in 1..Len(c) : c[i] \in Resources /\ l[i] = Within(Text[c[i]], n)
<1> DEFINE c == Chosen(visited, want)
           l == [i \in 1..Len(c) |-> Within(Text[c[i]], n)]
<1>1. c \in Seq(Resources)
  BY ChosenList
<1> HIDE DEF c
<1>2. Len(c) \in Nat /\ DOMAIN c = 1..Len(c) /\ \A i \in 1..Len(c) : c[i] \in Resources
  BY <1>1, LenProperties, ElementOfSeq
<1>3. \A i \in 1..Len(c) : Within(Text[c[i]], n) \in Seq(Byte)
  BY <1>2, WithinType, OrdersAssumption
<1>4. l \in [1..Len(c) -> Seq(Byte)]
  BY <1>3
<1>5. l \in Seq(Seq(Byte)) /\ DOMAIN l = 1..Len(c) /\ \A i \in 1..Len(c) : l[i] = Within(Text[c[i]], n)
  BY <1>2, <1>4, SeqDef
<1>6. l = Pieces(want, n, visited)
  BY <1>2 DEF Pieces, c
<1> HIDE DEF l
<1>7. Len(l) = Len(c)
  <2> DEFINE m == Len(l)
             k == Len(c)
  <2>1. 1..m = 1..k /\ m \in Nat /\ k \in Nat
    BY <1>2, <1>5, LenProperties
  <2> HIDE DEF m, k
  <2>2. m = k
    BY <2>1
  <2> QED
    BY <2>2 DEF m, k
<1> QED
  BY <1>1, <1>2, <1>5, <1>6, <1>7 DEF c

LEMMA NothingGathered ==
  ASSUME NEW want, NEW n \in Nat
  PROVE  Gathered(want, n, <<>>) = <<>>
<1> DEFINE v == <<>>
<1> HIDE DEF v
<1>1. v \in Seq(Resources) /\ Len(v) = 0 /\ Chosen(v, want) = <<>>
  BY EmptySeq, ChosenEmpty DEF v
<1> DEFINE l == Pieces(want, n, v)
<1>2. l \in Seq(Seq(Byte)) /\ Len(l) = Len(Chosen(v, want))
  BY <1>1, PiecesList
<1> HIDE DEF l
<1>3. Len(l) = 0
  BY <1>1, <1>2, EmptySeq
<1>4. l = <<>>
  BY <1>2, <1>3, EmptySeq
<1>5. FlattenSeq(l) = <<>>
  BY <1>3, <1>4 DEF FlattenSeq
<1> QED
  BY <1>5 DEF Gathered, l, v

\* One resource more.
LEMMA GatheredAppend ==
  ASSUME NEW want, NEW n \in Nat, NEW visited \in Seq(Resources), NEW r \in Resources
  PROVE  /\ Gathered(want, n, visited) \in Seq(Byte)
         /\ r \in want =>
              Gathered(want, n, Append(visited, r)) = Gathered(want, n, visited) \o Within(Text[r], n)
         /\ r \notin want => Gathered(want, n, Append(visited, r)) = Gathered(want, n, visited)
<1> DEFINE v == Append(visited, r)
           c == Chosen(visited, want)
           d == Chosen(v, want)
           l == Pieces(want, n, visited)
           k == Pieces(want, n, v)
           t == Within(Text[r], n)
<1>1. v \in Seq(Resources) /\ d = IF r \in want THEN Append(c, r) ELSE c
  BY AppendProperties, ChosenAppend
<1>2. /\ c \in Seq(Resources) /\ Len(c) \in Nat
      /\ l \in Seq(Seq(Byte)) /\ Len(l) = Len(c)
      /\ \A i \in 1..Len(c) : c[i] \in Resources /\ l[i] = Within(Text[c[i]], n)
  BY PiecesList
<1>3. t \in Seq(Byte)
  BY WithinType, OrdersAssumption
<1> HIDE DEF v
<1>4. /\ d \in Seq(Resources) /\ Len(d) \in Nat
      /\ k \in Seq(Seq(Byte)) /\ Len(k) = Len(d)
      /\ \A i \in 1..Len(d) : d[i] \in Resources /\ k[i] = Within(Text[d[i]], n)
  BY <1>1, PiecesList
<1>5. FlattenSeq(l) \in Seq(Byte)
  BY <1>2, FlattenList
<1> HIDE DEF c, d, l, k, t
<1>6. CASE r \in want
  <2> DEFINE m == Append(l, t)
  <2>1. d = Append(c, r) /\ Len(d) = Len(c) + 1 /\ (\A i \in 1..Len(c) : d[i] = c[i]) /\ d[Len(c) + 1] = r
    BY <1>1, <1>2, <1>6, AppendProperties
  <2>2. /\ m \in Seq(Seq(Byte)) /\ Len(m) = Len(c) + 1 /\ (\A i \in 1..Len(c) : m[i] = l[i])
        /\ m[Len(c) + 1] = t
    BY <1>2, <1>3, AppendProperties
  <2>3. FlattenSeq(m) = FlattenSeq(l) \o t
    BY <1>2, <1>3, FlattenAppend
  <2> HIDE DEF m
  <2>4. \A i \in 1..Len(c) + 1 : k[i] = m[i]
    <3> TAKE i \in 1..Len(c) + 1
    <3>1. CASE i = Len(c) + 1
      BY <1>2, <1>4, <2>1, <2>2, <3>1 DEF t
    <3>2. CASE i \in 1..Len(c)
      BY <1>2, <1>4, <2>1, <2>2, <3>2
    <3> QED
      BY <1>2, <3>1, <3>2
  <2>5. Len(k) = Len(m) /\ \A i \in 1..Len(k) : k[i] = m[i]
    BY <1>4, <2>1, <2>2, <2>4
  <2>6. k = m
    BY <1>4, <2>2, <2>5, SeqEqual
  <2> QED
    BY <1>5, <1>6, <2>3, <2>6 DEF Gathered, l, k, v, t
<1>7. CASE r \notin want
  <2>1. d = c
    BY <1>1, <1>7
  <2>2. Len(k) = Len(l) /\ \A i \in 1..Len(k) : k[i] = l[i]
    BY <1>2, <1>4, <2>1
  <2>3. k = l
    BY <1>2, <1>4, <2>2, SeqEqual
  <2> QED
    BY <1>5, <1>7, <2>3 DEF Gathered, l, k, v
<1> QED
  BY <1>6, <1>7

LEMMA GatheredType ==
  ASSUME NEW want, NEW n \in Nat, NEW visited \in Seq(Resources)
  PROVE  Gathered(want, n, visited) \in Seq(Byte)
<1>1. Pieces(want, n, visited) \in Seq(Seq(Byte))
  BY PiecesList
<1> QED
  BY <1>1, FlattenList DEF Gathered

\* The ISBNs of a wanted resource are among those of the visited ones.
LEMMA GatheredMember ==
  ASSUME NEW want, NEW n \in Nat, NEW visited \in Seq(Resources),
         NEW r \in Of(visited), r \in want
  PROVE  Keys(Within(Text[r], n)) \subseteq Keys(Gathered(want, n, visited))
<1> DEFINE Good(v) == r \in Of(v) => Keys(Within(Text[r], n)) \subseteq Keys(Gathered(want, n, v))
           S == {v \in Seq(Resources) : Good(v)}
<1>0. \A v \in Seq(Resources), x \in Resources :
        /\ Gathered(want, n, v) \in Seq(Byte)
        /\ x \in want => Gathered(want, n, Append(v, x)) = Gathered(want, n, v) \o Within(Text[x], n)
        /\ x \notin want => Gathered(want, n, Append(v, x)) = Gathered(want, n, v)
  BY GatheredAppend
<1>1. <<>> \in S
  BY EmptyList
<1>2. \A v \in Seq(Resources), x \in Resources : v \in S => Append(v, x) \in S
  <2> SUFFICES ASSUME NEW v \in Seq(Resources), NEW x \in Resources, Good(v)
               PROVE  Append(v, x) \in Seq(Resources) /\ Good(Append(v, x))
    OBVIOUS
  <2>1. Append(v, x) \in Seq(Resources) /\ Of(Append(v, x)) = Of(v) \cup {x}
    BY AppendList
  <2>2. /\ Gathered(want, n, v) \in Seq(Byte)
        /\ x \in want => Gathered(want, n, Append(v, x)) = Gathered(want, n, v) \o Within(Text[x], n)
        /\ x \notin want => Gathered(want, n, Append(v, x)) = Gathered(want, n, v)
    BY <1>0
  <2> DEFINE g == Gathered(want, n, v)
             h == Gathered(want, n, Append(v, x))
             t == Within(Text[x], n)
  <2>3. t \in Seq(Byte)
    BY WithinType, OrdersAssumption
  <2> HIDE DEF g, h, t
  <2>4. Keys(g \o t) = Keys(g) \cup Keys(t)
    BY <2>2, <2>3, KeysConcat DEF g
  <2>5. r \in Of(v) \cup {x} => Keys(Within(Text[r], n)) \subseteq Keys(h)
    <3>1. CASE r = x
      <4>1. h = g \o t
        BY <2>2, <3>1 DEF g, h, t
      <4> QED
        BY <2>4, <3>1, <4>1 DEF t
    <3>2. CASE r \in Of(v)
      <4>1. Keys(Within(Text[r], n)) \subseteq Keys(g)
        BY <3>2 DEF g
      <4>2. h = g \/ h = g \o t
        BY <2>2 DEF g, h, t
      <4> QED
        BY <2>4, <4>1, <4>2
    <3> QED
      BY <3>1, <3>2
  <2> QED
    BY <2>1, <2>5 DEF h
<1> HIDE DEF S
<1>3. Seq(Resources) \subseteq S
  BY <1>1, <1>2, AllLists
<1> QED
  BY <1>3 DEF S

\* More resources are added at the end.
LEMMA GatheredGrows ==
  ASSUME NEW want, NEW n \in Nat, NEW visited \in Seq(Resources), NEW more \in Seq(Resources)
  PROVE  \E t \in Seq(Byte) : Gathered(want, n, visited \o more) = Gathered(want, n, visited) \o t
<1> DEFINE g == Gathered(want, n, visited)
           S == {v \in Seq(Resources) : \E t \in Seq(Byte) : Gathered(want, n, visited \o v) = g \o t}
<1>0. g \in Seq(Byte)
  BY GatheredType
<1>1. <<>> \in S
  BY <1>0, EmptySeq, ConcatEmptySeq
<1>2. \A v \in Seq(Resources), x \in Resources : v \in S => Append(v, x) \in S
  <2> SUFFICES ASSUME NEW v \in Seq(Resources), NEW x \in Resources, NEW t \in Seq(Byte),
                      Gathered(want, n, visited \o v) = g \o t
               PROVE  /\ Append(v, x) \in Seq(Resources)
                      /\ \E u \in Seq(Byte) : Gathered(want, n, visited \o Append(v, x)) = g \o u
    OBVIOUS
  <2> DEFINE w == visited \o v
             i == Within(Text[x], n)
  <2>1. Append(v, x) \in Seq(Resources) /\ visited \o Append(v, x) = Append(w, x) /\ w \in Seq(Resources)
    BY AppendProperties, ConcatAppend
  <2>2. i \in Seq(Byte)
    BY WithinType, OrdersAssumption
  <2> HIDE DEF w
  <2>3. /\ x \in want => Gathered(want, n, Append(w, x)) = Gathered(want, n, w) \o i
        /\ x \notin want => Gathered(want, n, Append(w, x)) = Gathered(want, n, w)
    BY <2>1, GatheredAppend
  <2> HIDE DEF g, i
  <2>4. /\ (g \o t) \o i = g \o (t \o i)
        /\ t \o i \in Seq(Byte)
    <3>1. (g \o t) \o i = g \o (t \o i)
      BY <1>0, <2>2, ConcatAssociative, SMTT(30)
    <3>2. t \o i \in Seq(Byte)
      BY <1>0, <2>2, ConcatProperties, SMTT(30)
    <3> QED
      BY <3>1, <3>2
  <2>5. Gathered(want, n, w) = g \o t
    BY DEF w
  <2>6. \E u \in Seq(Byte) : Gathered(want, n, Append(w, x)) = g \o u
    BY <2>3, <2>4, <2>5
  <2> QED
    BY <2>1, <2>6
<1> HIDE DEF S
<1>3. Seq(Resources) \subseteq S
  BY <1>1, <1>2, AllLists
<1> QED
  BY <1>3 DEF S

\* What is gathered depends on the resources visited alone.
LEMMA GatheredSame ==
  ASSUME NEW want, NEW wish, NEW n, NEW visited \in Seq(Resources),
         \A x \in Of(visited) : x \in want <=> x \in wish
  PROVE  Gathered(want, n, visited) = Gathered(wish, n, visited)
<1>1. Chosen(visited, want) = Chosen(visited, wish)
  BY ChosenSame
<1> QED
  BY <1>1 DEF Gathered, Pieces

-----------------------------------------------------------------------------
(* The search for ISBNs *)

\* What is expected of a text and the wanted ones of the resources visited.
SoughtIn(p, text, want, visited) ==
  ExpectedISBNs(p, Within(text, Cap[p].head) \o Gathered(want, Cap[p].head, visited))

Sought(p, visited) == SoughtIn(p, Whole, Wanted(p), visited)

\* It is what the property speaks of.
LEMMA SoughtIsExpected ==
  ASSUME NEW p, NEW visited
  PROVE  Sought(p, visited) = ExpectedISBNs(p, MetISBNs(p, visited))
BY DEF Sought, SoughtIn, MetISBNs, Within, Gathered, Pieces

LEMMA MetType ==
  ASSUME NEW p \in Processors, NEW text \in Seq(Byte), NEW want, NEW visited \in Seq(Resources)
  PROVE  /\ Cap[p].head \in Nat /\ Within(text, Cap[p].head) \in Seq(Byte)
         /\ Gathered(want, Cap[p].head, visited) \in Seq(Byte)
         /\ Within(text, Cap[p].head) \o Gathered(want, Cap[p].head, visited) \in Seq(Byte)
<1>1. Cap[p].head \in Nat
  BY CapTypes
<1>2. Within(text, Cap[p].head) \in Seq(Byte) /\ Gathered(want, Cap[p].head, visited) \in Seq(Byte)
  BY <1>1, WithinType, GatheredType
<1> QED
  BY <1>1, <1>2, ConcatProperties

\* Nothing is expected of a resource that is not wanted or was visited before.
LEMMA SoughtAgain ==
  ASSUME NEW p \in Processors, NEW text \in Seq(Byte), NEW want, NEW visited \in Seq(Resources),
         NEW r \in Resources, r \in want => r \in Of(visited)
  PROVE  SoughtIn(p, text, want, Append(visited, r)) = SoughtIn(p, text, want, visited)
<1> DEFINE n == Cap[p].head
           t == Within(text, n)
           g == Gathered(want, n, visited)
           h == Gathered(want, n, Append(visited, r))
           i == Within(Text[r], n)
<1>1. n \in Nat /\ t \in Seq(Byte) /\ g \in Seq(Byte) /\ t \o g \in Seq(Byte)
  BY MetType
<1> HIDE DEF n
<1>2. i \in Seq(Byte)
  BY <1>1, WithinType, OrdersAssumption
<1>3. (r \in want => h = g \o i) /\ (r \notin want => h = g)
  BY <1>1, GatheredAppend
<1>4. r \in want => Keys(i) \subseteq Keys(g)
  BY <1>1, GatheredMember
<1> HIDE DEF t, g, h, i
<1>5. ExpectedISBNs(p, t \o h) = ExpectedISBNs(p, t \o g)
  <2>1. CASE r \notin want
    BY <1>3, <2>1
  <2>2. CASE r \in want
    <3>1. t \o h = (t \o g) \o i
      <4>1. (t \o g) \o i = t \o (g \o i)
        BY <1>1, <1>2, ConcatAssociative, SMTT(30)
      <4> QED
        BY <1>3, <2>2, <4>1
    <3>2. Keys(i) \subseteq Keys(t \o g)
      BY <1>1, <1>4, <2>2, KeysConcat
    <3>3. Unique((t \o g) \o i) = Unique(t \o g)
      BY <1>1, <1>2, <3>2, UniqueKnown
    <3> QED
      BY <3>1, <3>3 DEF ExpectedISBNs
  <2> QED
    BY <2>1, <2>2
<1> QED
  BY <1>5 DEF SoughtIn, n, t, g, h

\* add makes what is expected out of one resource more.
LEMMA SoughtMore ==
  ASSUME NEW p \in Processors, NEW text \in Seq(Byte), NEW want, NEW visited \in Seq(Resources),
         NEW r \in Resources, r \in want, ~IsbnDone(p, SoughtIn(p, text, want, visited))
  PROVE  AddISBNs(p, SoughtIn(p, text, want, visited), Within(Text[r], Cap[p].head))
           = SoughtIn(p, text, want, Append(visited, r))
<1> DEFINE n == Cap[p].head
           t == Within(text, n)
           g == Gathered(want, n, visited)
           h == Gathered(want, n, Append(visited, r))
           i == Within(Text[r], n)
<1>1. n \in Nat /\ t \in Seq(Byte) /\ g \in Seq(Byte) /\ t \o g \in Seq(Byte)
  BY MetType
<1>2. ~IsbnDone(p, ExpectedISBNs(p, t \o g))
  BY DEF SoughtIn
<1> HIDE DEF n
<1>3. i \in Seq(Byte)
  BY <1>1, WithinType, OrdersAssumption
<1>4. h = g \o i
  BY <1>1, GatheredAppend
<1> HIDE DEF t, g, h, i
<1>5. t \o h = (t \o g) \o i
  <2>1. (t \o g) \o i = t \o (g \o i)
    BY <1>1, <1>3, ConcatAssociative, SMTT(30)
  <2> QED
    BY <1>4, <2>1
<1> DEFINE s == t \o g
<1>6. s \in Seq(Byte) /\ ~IsbnDone(p, ExpectedISBNs(p, s))
  BY <1>1, <1>2
<1> HIDE DEF s
<1>7. AddISBNs(p, ExpectedISBNs(p, s), i) = ExpectedISBNs(p, s \o i)
  BY <1>3, <1>6, AddExpected
<1> QED
  BY <1>5, <1>7 DEF SoughtIn, n, t, g, h, i, s

\* Once the limit is reached the rest does not count.
LEMMA SoughtEnough ==
  ASSUME NEW p \in Processors, NEW text \in Seq(Byte), NEW want,
         NEW visited \in Seq(Resources), NEW more \in Seq(Resources),
         IsbnDone(p, SoughtIn(p, text, want, visited))
  PROVE  SoughtIn(p, text, want, visited \o more) = SoughtIn(p, text, want, visited)
<1> DEFINE n == Cap[p].head
           t == Within(text, n)
           g == Gathered(want, n, visited)
           h == Gathered(want, n, visited \o more)
           s == t \o g
<1>1. n \in Nat /\ t \in Seq(Byte) /\ g \in Seq(Byte) /\ s \in Seq(Byte)
  BY MetType
<1>2. IsbnDone(p, ExpectedISBNs(p, s))
  BY DEF SoughtIn
<1> HIDE DEF n
<1>3. PICK u \in Seq(Byte) : h = g \o u
  BY <1>1, GatheredGrows
<1> HIDE DEF t, g, h
<1>4. t \o h = s \o u
  <2>1. (t \o g) \o u = t \o (g \o u)
    BY <1>1, ConcatAssociative, SMTT(30)
  <2> QED
    BY <1>3, <2>1
<1> HIDE DEF s
<1>5. ExpectedISBNs(p, s \o u) = ExpectedISBNs(p, s)
  BY <1>1, <1>2, ExpectedDone
<1> QED
  BY <1>4, <1>5 DEF SoughtIn, n, t, g, h, s

\* Resources that were not visited may become unwanted.
LEMMA SoughtSame ==
  ASSUME NEW p, NEW text, NEW want, NEW wish, NEW visited \in Seq(Resources),
         \A x \in Of(visited) : x \in want <=> x \in wish
  PROVE  SoughtIn(p, text, want, visited) = SoughtIn(p, text, wish, visited)
<1> DEFINE n == Cap[p].head
<1> HIDE DEF n
<1>1. Gathered(want, n, visited) = Gathered(wish, n, visited)
  BY GatheredSame
<1> QED
  BY <1>1 DEF SoughtIn, n

\* Of nothing, nothing is expected.
LEMMA NothingExpected ==
  ASSUME NEW p \in Processors
  PROVE  ExpectedISBNs(p, <<>>) = <<>> /\ <<>> \in Seq(Byte)
BY LimitTypes, EmptyKeys, PrefixEmpty, EmptySeq DEF ExpectedISBNs

\* The head is all that was met before the first resource.
LEMMA SoughtFirst ==
  ASSUME NEW p \in Processors, NEW text \in Seq(Byte), NEW want
  PROVE  SoughtIn(p, text, want, <<>>) = AddISBNs(p, <<>>, Within(text, Cap[p].head))
<1> DEFINE n == Cap[p].head
           t == Within(text, n)
           e == <<>>
<1>1. n \in Nat
  BY CapTypes
<1> HIDE DEF n
<1>2. t \in Seq(Byte)
  BY <1>1, WithinType
<1>3. Gathered(want, n, <<>>) = <<>>
  BY <1>1, NothingGathered
<1> HIDE DEF t
<1>4. t \o <<>> = t /\ <<>> \o t = t /\ <<>> \in Seq(Byte) /\ Len(<<>>) = 0
  BY <1>2, ConcatEmptySeq, EmptySeq
<1>5. ExpectedISBNs(p, <<>>) = <<>>
  BY NothingExpected
<1>6. ~IsbnDone(p, <<>>)
  BY <1>4, LimitTypes DEF IsbnDone
<1> HIDE DEF e
<1>7. e \in Seq(Byte) /\ ExpectedISBNs(p, e) = e /\ ~IsbnDone(p, ExpectedISBNs(p, e)) /\ e \o t = t
  BY <1>4, <1>5, <1>6 DEF e
<1>8. AddISBNs(p, ExpectedISBNs(p, e), t) = ExpectedISBNs(p, e \o t)
  BY <1>2, <1>7, AddExpected
<1> QED
  BY <1>3, <1>4, <1>7, <1>8 DEF SoughtIn, n, t, e

-----------------------------------------------------------------------------
(* The invariant of the search *)

\* Where the search of a processor stands before and after the other resources.
AtStart(p) == found[p] = Sought(p, <<>>)
AtEnd(p)   == found[p] = Sought(p, Others)

\* In the midst of the others: what was visited, and what is still to come.
Midway(p) ==
  /\ ~IsbnDone(p, found[p])
  /\ \E visited \in Seq(Resources) :
       /\ Others = visited \o todo
       /\ scanned = Of(visited) \ Of(resources)
       /\ found[p] = Sought(p, visited)

\* Each search has found what is expected of what it has met so far.
Searched ==
  /\ found \in [Processors -> Seq(Byte)] /\ skipped \in [Processors -> SUBSET Resources]
  /\ \A p \in Processors :
       /\ \E isbns \in Seq(Byte) : found[p] = ExpectedISBNs(p, isbns)
       /\ skipped[p] \subseteq Of(opened[p])
       /\ heads[p] = <<>> => found[p] = <<>>
  /\ pc \in Early \cup {"gate"} => \A p \in Of(falls) : heads[p] # <<>> => AtStart(p)
  /\ pc = "falls" => \A j \in 1..Len(falls) :
       /\ j < next => AtEnd(falls[j])
       /\ j >= next => AtStart(falls[j])
  /\ pc = "scan" =>
       /\ Midway(falls[next])
       /\ \A j \in 1..Len(falls) :
            /\ j < next => AtEnd(falls[j])
            /\ j > next => AtStart(falls[j])
  /\ pc \in {"finishes", "finish"} \/ outcome = "ok" => \A p \in Of(falls) : AtEnd(p)

\* The processors that search ask for a head.
LEMMA FallFacts ==
  ASSUME lineup \in Lineups
  PROVE  /\ falls \in Seq(Processors) /\ Len(falls) \in Nat
         /\ \A j \in 1..Len(falls) : falls[j] \in Processors /\ falls[j] \in Of(falls)
         /\ \A i, j \in 1..Len(falls) : falls[i] = falls[j] => i = j
         /\ \A p \in Of(falls) : p \in Processors /\ p \in Of(Requests) /\ IsFall(p)
<1>1. falls \in Seq(Processors) /\ Once(falls)
  BY LineupFacts
<1>2. /\ Len(falls) \in Nat /\ \A j \in 1..Len(falls) : falls[j] \in Processors /\ falls[j] \in Of(falls)
      /\ \A p \in Of(falls) : p \in Processors
  BY <1>1, OfList
<1>3. lineup \in Seq(Processors)
  BY ProcessorsAssumption
<1>4. Of(falls) = Of(lineup) \cap {p \in Processors : IsFall(p)}
  BY <1>3, ChosenList DEF falls, Having
<1>5. Of(Requests) = {x \in Of(lineup) : HeadOf[x] \in 1..MaxHead}
  <2>1. \A n : {p \in Processors : Cap[p].head = n} = Class(Processors, HeadOf, n)
    BY DEF Class, HeadOf
  <2>2. Requests = InClasses(lineup, Processors, HeadOf, MaxHead)
    BY <2>1 DEF Requests, InClasses
  <2>3. MaxHead \in Nat /\ HeadOf \in [Processors -> Nat]
    BY ProcessorsAssumption, CapTypes DEF HeadOf
  <2>4. Of(InClasses(lineup, Processors, HeadOf, MaxHead)) = Keyed(lineup, HeadOf, MaxHead)
    BY <1>3, <2>3, SortedList
  <2> QED
    BY <2>2, <2>4 DEF Keyed
<1>6. ASSUME NEW p \in Of(falls) PROVE p \in Of(Requests) /\ IsFall(p)
  <2>1. p \in Processors /\ p \in Of(lineup) /\ IsFall(p)
    BY <1>4, <1>6
  <2>2. Cap[p].head > 0 /\ Cap[p].head \in 0..MaxHead /\ HeadOf[p] = Cap[p].head
    BY <2>1, CapTypes, ProcessorsAssumption DEF IsFall
  <2>3. HeadOf[p] \in 1..MaxHead
    BY <2>2, ProcessorsAssumption
  <2> QED
    BY <1>5, <2>1, <2>3
<1> QED
  BY <1>1, <1>2, <1>6 DEF Once

\* The text and the other resources of a book.
LEMMA SameOthers ==
  ASSUME UNCHANGED <<book, resources, delimiter>>
  PROVE  UNCHANGED <<Whole, Others>>
BY SameBookFacts DEF SameBook, Others

\* What is expected does not change with a step that skips no resource.
LEMMA SameSought ==
  ASSUME UNCHANGED <<book, resources, delimiter>>, NEW p, skipped'[p] = skipped[p]
  PROVE  /\ Wanted(p)' = Wanted(p)
         /\ \A visited : Sought(p, visited)' = Sought(p, visited)
<1>1. Wanted(p)' = Wanted(p)
  BY DEF Wanted
<1> QED
  BY <1>1, SameOthers DEF Sought

\* What the search of one processor has found is judged alike before and after
\* a step that leaves it alone.
LEMMA SameSearch ==
  ASSUME UNCHANGED <<book, resources, delimiter>>, NEW p,
         found'[p] = found[p], skipped'[p] = skipped[p]
  PROVE  (AtStart(p)' <=> AtStart(p)) /\ (AtEnd(p)' <=> AtEnd(p))
<1>1. UNCHANGED Others
  BY SameOthers
<1>2. Sought(p, <<>>)' = Sought(p, <<>>) /\ Sought(p, Others)' = Sought(p, Others)
  BY <1>1, SameSought DEF Sought
<1> QED
  BY <1>1, <1>2 DEF AtStart, AtEnd

-----------------------------------------------------------------------------
(* The steps of the search *)

\* Nothing was searched at the start.
LEMMA InitSearched == ScanInit => Searched
<1> SUFFICES ASSUME ScanInit PROVE Searched
  OBVIOUS
<1>1. /\ pc = "start" /\ outcome = "none"
      /\ found = [p \in Processors |-> <<>>] /\ heads = [p \in Processors |-> <<>>]
      /\ skipped = [p \in Processors |-> {}] /\ book \in Books /\ lineup \in Lineups
  BY DEF ScanInit
<1>2. found \in [Processors -> Seq(Byte)] /\ skipped \in [Processors -> SUBSET Resources]
  BY <1>1, EmptySeq
<1>3. ASSUME NEW p \in Processors
      PROVE  /\ \E isbns \in Seq(Byte) : found[p] = ExpectedISBNs(p, isbns)
             /\ skipped[p] \subseteq Of(opened[p])
             /\ heads[p] = <<>> => found[p] = <<>>
  BY <1>1, NothingExpected
<1>4. \A p \in Of(falls) : heads[p] = <<>>
  BY <1>1, FallFacts
<1> QED
  BY <1>1, <1>2, <1>3, <1>4 DEF Searched

\* The reading phase goes on, is over, or ends the scan.
Onward ==
  \/ pc' \in Early \cup {"gate"} /\ outcome' = outcome
  \/ pc' = "ended" /\ outcome' \in {"ctx", "error"}

\* The end of the reading phase.
LEMMA LeaveOnward ==
  ASSUME ScanInv, NEW result \in {"nil", "error", "ctx"}, Leave(result)
  PROVE  SameBook /\ Onward
<1>1. SameBook
  BY CloseEffect DEF ScanInv, Leave, SameBook
<1>2. \/ result = "nil" /\ pc' = "gate" /\ outcome' = outcome
      \/ result # "nil" /\ pc' = "ended" /\ outcome' = result
  BY DEF Leave, Go, End
<1> QED
  BY <1>1, <1>2 DEF Onward

\* What the steps of the reading phase leave alone.
LEMMA ReadingEffect ==
  ASSUME ScanInv, Start \/ Reading
  PROVE  /\ pc \in Early /\ SameBook /\ Onward
         /\ UNCHANGED <<book, lineup, opened, skipped>>
         /\ UNCHANGED <<found, heads>> \/ (GiveHead /\ pending # <<>>)
<1>1. UNCHANGED rvars => SameBook
  BY DEF rvars, stream, SameBook
<1>2. CASE Start
  BY <1>1, <1>2 DEF Start, At, End, Go, Onward, Early, results, Quiet, Fixed
<1>3. CASE AskRead
  <2>1. SameBook
    BY <1>3 DEF AskRead, CallRead, stream, SameBook
  <2> QED
    BY <1>3, <2>1 DEF AskRead, At, Go, Onward, Early, results, Fixed
<1>4. CASE StreamStep
  <2>1. SameBook
    BY <1>4, StreamEffect DEF StreamStep, SameBook, ScanInv
  <2> QED
    BY <1>4, <2>1 DEF StreamStep, At, Onward, Early, progress, results, Fixed
<1>5. CASE TakeChunk
  BY <1>1, <1>5 DEF TakeChunk, At, Go, Onward, Early, Quiet, Fixed
<1>6. CASE TakeNothing
  <2>1. /\ pc = "wait" /\ UNCHANGED <<book, lineup, opened, skipped, found, heads>>
        /\ \/ Go("check") /\ UNCHANGED rvars
           \/ Go("flush") /\ UNCHANGED rvars
           \/ Leave("error")
    BY <1>6 DEF TakeNothing, At, results, Fixed
  <2> QED
    BY <1>1, <2>1, LeaveOnward DEF Go, Onward, Early
<1>7. CASE ProcessChunk
  <2>1. /\ pc = "text" /\ UNCHANGED <<book, lineup, opened, skipped, found, heads>>
        /\ \/ Then(next + 1, "text") /\ UNCHANGED rvars
           \/ Leave("error")
    BY <1>7 DEF ProcessChunk, At, CallFails, Fixed
  <2> QED
    BY <1>1, <2>1, LeaveOnward DEF Then, Onward, Early
<1>8. CASE AddHead
  BY <1>1, <1>8 DEF AddHead, At, Go, Onward, Early, results, Quiet, Fixed
<1>9. ASSUME GiveHead, pc \in {"serve", "flush"}
      PROVE  /\ pc \in Early /\ SameBook /\ Onward
             /\ UNCHANGED <<book, lineup, opened, skipped>>
  <2>1. /\ UNCHANGED <<book, lineup, opened, skipped>>
        /\ UNCHANGED <<rvars, progress>> \/ Leave("error")
    BY <1>9 DEF GiveHead, CallFails, Fixed
  <2>2. CASE UNCHANGED <<rvars, progress>>
    BY <1>1, <1>9, <2>1, <2>2 DEF progress, Onward, Early
  <2> QED
    BY <1>9, <2>1, <2>2, LeaveOnward DEF Early
<1>10. CASE FlushReady
  BY <1>9, <1>10 DEF FlushReady, Ready, At
<1>11. CASE FlushRemaining
  BY <1>9, <1>11 DEF FlushRemaining, At
<1>12. CASE ChunkDone
  <2>1. /\ pc = "serve" /\ UNCHANGED <<book, lineup, opened, skipped, found, heads>>
        /\ \/ Leave("nil") \/ Leave("error")
           \/ Go("check") /\ UNCHANGED rvars
    BY <1>12 DEF ChunkDone, At, results, Fixed
  <2> QED
    BY <1>1, <2>1, LeaveOnward DEF Go, Onward, Early
<1>13. CASE CheckContext
  <2>1. /\ pc = "check" /\ UNCHANGED <<book, lineup, opened, skipped, found, heads>>
        /\ \/ Leave("ctx")
           \/ Go("read") /\ UNCHANGED rvars
    BY <1>13 DEF CheckContext, At, results, Fixed
  <2> QED
    BY <1>1, <2>1, LeaveOnward DEF Go, Onward, Early
<1>14. CASE FlushDone
  <2>1. pc = "flush" /\ UNCHANGED <<book, lineup, opened, skipped, found, heads>> /\ Leave("nil")
    BY <1>14 DEF FlushDone, At, results, Fixed
  <2> QED
    BY <2>1, LeaveOnward DEF Early
<1> QED
  BY <1>2, <1>3, <1>4, <1>5, <1>6, <1>7, <1>8, <1>10, <1>11, <1>12, <1>13, <1>14 DEF Reading

\* The results of the search and the places where nothing is said of them.
LEMMA IdleSearch ==
  ASSUME ScanInv, Searched, UNCHANGED <<book, lineup, found, skipped, opened, heads>>, SameBook,
         \/ UNCHANGED <<pc, outcome, next, todo, scanned>>
         \/ pc \in Early /\ Onward
         \/ pc' = "ended" /\ outcome' # "ok"
  PROVE  Searched'
<1>1. UNCHANGED <<falls, Whole, Others, resources>> /\ lineup \in Lineups
  BY SameLineup, SameOthers DEF SameBook, ScanInv, Control
<1>2. \A p : (AtStart(p)' <=> AtStart(p)) /\ (AtEnd(p)' <=> AtEnd(p)) /\ Wanted(p)' = Wanted(p)
  BY SameSearch, SameSought DEF SameBook
<1>3. CASE UNCHANGED <<pc, outcome, next, todo, scanned>>
  <2>1. \A p : Midway(p) => Midway(p)'
    BY <1>1, <1>2, <1>3 DEF Midway, Sought
  <2> QED
    BY <1>1, <1>2, <1>3, <2>1 DEF Searched
<1>4. CASE pc \in Early /\ Onward
  <2>1. pc' # "falls" /\ pc' # "scan" /\ pc' \notin {"finishes", "finish"} /\ outcome' # "ok"
    BY <1>4 DEF Onward, Early, ScanInv, Control
  <2> QED
    BY <1>1, <1>2, <1>4, <2>1 DEF Searched
<1>5. CASE pc' = "ended" /\ outcome' # "ok"
  BY <1>1, <1>2, <1>5 DEF Searched, Early
<1> QED
  BY <1>3, <1>4, <1>5

\* A searching processor begins with its head.
LEMMA GiveHeadSearched ==
  ASSUME ScanInv, ScanInv', Searched, Start \/ Reading, GiveHead, pending # <<>>
  PROVE  Searched'
<1> DEFINE p == Head(pending)
           h == Cap[p].head
           head == Prefix(buf, h)
<1>1. /\ pc \in Early /\ SameBook /\ Onward
      /\ UNCHANGED <<book, lineup, opened, skipped>>
  BY ReadingEffect
<1>2. \/ /\ heads' = [heads EXCEPT ![p] = Append(@, head)]
         /\ found' = IF IsFall(p) THEN [found EXCEPT ![p] = AddISBNs(p, @, FindISBNs(head))] ELSE found
      \/ UNCHANGED <<heads, found>>
  BY DEF GiveHead
<1>3. CASE UNCHANGED <<heads, found>>
  BY <1>1, <1>3, IdleSearch
<1>4. CASE /\ heads' = [heads EXCEPT ![p] = Append(@, head)]
           /\ found' = IF IsFall(p) THEN [found EXCEPT ![p] = AddISBNs(p, @, FindISBNs(head))] ELSE found
  <2>1. /\ pending \in Seq(Processors) /\ \A q \in Of(pending) : q \in Of(Requests) /\ heads[q] = <<>>
        /\ heads \in [Processors -> Seq(Seq(Byte))] /\ lineup \in Lineups
        /\ Whole \in Seq(Byte)
    BY <1>1, WholeType DEF ScanInv, Awaiting, Control, IInv, Types
  <2>2. p \in Processors /\ heads[p] = <<>>
    BY <2>1, HeadIsFirst, OfList
  <2>3. found[p] = <<>> /\ found \in [Processors -> Seq(Byte)]
    BY <2>2 DEF Searched
  <2>4. UNCHANGED <<falls, Whole>> /\ \A q : Sought(q, <<>>)' = Sought(q, <<>>)
    BY <1>1, SameLineup, SameOthers, SameSought DEF SameBook
  <2> HIDE DEF p
  <2>5. heads'[p] = <<head>> /\ \A q \in Processors : q # p => heads'[q] = heads[q]
    <3>1. Append(<<>>, head) = <<head>>
      OBVIOUS
    <3> QED
      BY <1>4, <2>1, <2>2, <3>1
  <2>6. head = Prefix(Whole, h)
    <3>1. heads'[p] = <<>> \/ heads'[p] = <<Prefix(Whole, h)>>
      BY <2>2, <2>4 DEF ScanInv, Awaiting
    <3> QED
      BY <2>5, <3>1
  <2>7. AddISBNs(p, <<>>, FindISBNs(head)) = Sought(p, <<>>)
    BY <2>1, <2>2, <2>6, SoughtFirst DEF Within, Sought
  <2>8. \E isbns \in Seq(Byte) : Sought(p, <<>>) = ExpectedISBNs(p, isbns)
    BY <2>1, <2>2, EmptySeq, MetType DEF Sought, SoughtIn
  <2>9. Sought(p, <<>>) \in Seq(Byte)
    BY <2>2, <2>8, ExpectedFacts
  <2> HIDE DEF head, h
  <2>10. /\ found' \in [Processors -> Seq(Byte)]
         /\ IsFall(p) => found'[p] = Sought(p, <<>>)
         /\ ~IsFall(p) => found'[p] = found[p]
         /\ \A q \in Processors : q # p => found'[q] = found[q]
    <3> DEFINE s == Sought(p, <<>>)
    <3>1. found' = IF IsFall(p) THEN [found EXCEPT ![p] = s] ELSE found
      BY <1>4, <2>3, <2>7
    <3> HIDE DEF s
    <3>2. s \in Seq(Byte)
      BY <2>9 DEF s
    <3>3. CASE IsFall(p)
      BY <2>2, <2>3, <3>1, <3>2, <3>3 DEF s
    <3>4. CASE ~IsFall(p)
      BY <2>3, <3>1, <3>4
    <3> QED
      BY <3>3, <3>4
  <2>11. ASSUME NEW q \in Processors
         PROVE  /\ \E isbns \in Seq(Byte) : found'[q] = ExpectedISBNs(q, isbns)
                /\ heads'[q] = <<>> => found'[q] = <<>>
    <3>1. CASE q = p
      <4>1. heads'[p] # <<>>
        BY <2>5
      <4>2. \E isbns \in Seq(Byte) : found[p] = ExpectedISBNs(p, isbns)
        BY <2>2 DEF Searched
      <4>3. \E isbns \in Seq(Byte) : found'[p] = ExpectedISBNs(p, isbns)
        BY <2>8, <2>10, <4>2
      <4> QED
        BY <3>1, <4>1, <4>3
    <3>2. CASE q # p
      BY <2>5, <2>10, <3>2 DEF Searched
    <3> QED
      BY <3>1, <3>2
  <2>12. ASSUME NEW q \in Of(falls), heads'[q] # <<>> PROVE AtStart(q)'
    <3>1. q \in Processors /\ IsFall(q)
      BY <2>1, FallFacts
    <3>2. CASE q = p
      BY <2>4, <2>10, <3>1, <3>2 DEF AtStart
    <3>3. CASE q # p
      <4>1. AtStart(q)
        BY <1>1, <2>5, <2>12, <3>1, <3>3 DEF Searched
      <4> QED
        BY <2>4, <2>10, <3>1, <3>3, <4>1 DEF AtStart
    <3> QED
      BY <3>2, <3>3
  <2>13. pc' # "falls" /\ pc' # "scan" /\ pc' \notin {"finishes", "finish"} /\ outcome' # "ok"
    BY <1>1 DEF Onward, Early, ScanInv, Control
  <2>14. skipped' \in [Processors -> SUBSET Resources] /\ \A q \in Processors : skipped'[q] \subseteq Of(opened'[q])
    BY <1>1 DEF Searched
  <2> QED
    BY <2>4, <2>10, <2>11, <2>12, <2>13, <2>14 DEF Searched
<1> QED
  BY <1>2, <1>3, <1>4

\* The search is begun for every processor when the fallback phase starts.
LEMMA GateSearched ==
  ASSUME ScanInv, Searched, Gate
  PROVE  Searched'
<1>1. /\ pc = "gate" /\ IF cancelled THEN End("ctx") ELSE Go("falls")
      /\ UNCHANGED <<rvars, book, lineup, found, skipped, opened, heads>>
  BY DEF Gate, At, results, Quiet, Fixed
<1>2. SameBook
  BY <1>1 DEF rvars, stream, SameBook
<1>3. CASE pc' = "ended" /\ outcome' = "ctx"
  BY <1>1, <1>2, <1>3, IdleSearch
<1>4. CASE pc' = "falls" /\ next' = 1 /\ outcome' = outcome
  <2>1. /\ UNCHANGED falls /\ lineup \in Lineups /\ outcome = "none"
        /\ \A p \in Of(Requests) : heads[p] # <<>>
    BY <1>1, SameLineup DEF ScanInv, Control, Complete, AllHeads, Later
  <2>2. \A j \in 1..Len(falls) : AtStart(falls[j])
    BY <1>1, <2>1, FallFacts DEF Searched
  <2>3. \A p : AtStart(p)' <=> AtStart(p)
    BY <1>1, <1>2, SameSearch DEF SameBook
  <2>4. \A j \in 1..Len(falls) : ~(j < next') /\ AtStart(falls[j])'
    <3>1. Len(falls) \in Nat
      BY <2>1, FallFacts
    <3> QED
      BY <1>4, <2>1, <2>2, <2>3, <3>1
  <2>5. pc' \notin Early \cup {"gate"}
    BY <1>4 DEF Early
  <2> QED
    BY <1>1, <1>4, <2>1, <2>4, <2>5 DEF Searched
<1> QED
  BY <1>1, <1>3, <1>4 DEF End, Go

\* A processor that has enough is at its end; another begins with all the
\* others before it.
LEMMA NextFallbackSearched ==
  ASSUME ScanInv, Searched, NextFallback
  PROVE  Searched'
<1>0. PICK p : p = falls[next]
  OBVIOUS
<1>1. pc = "falls" /\ UNCHANGED <<rvars, book, lineup, found, skipped, opened, heads>>
  BY DEF NextFallback, At, results, Quiet, Fixed
<1>2. SameBook
  BY <1>1 DEF rvars, stream, SameBook
<1>3. /\ UNCHANGED <<falls, Others, Whole, resources>> /\ lineup \in Lineups /\ outcome = "none" /\ book \in Books
      /\ Whole \in Seq(Byte) /\ next \in Nat \ {0}
  BY <1>1, <1>2, SameLineup, SameOthers, WholeType DEF SameBook, ScanInv, Control, IInv, Types
<1>4. /\ falls \in Seq(Processors) /\ Len(falls) \in Nat
      /\ \A j \in 1..Len(falls) : falls[j] \in Processors /\ falls[j] \in Of(falls)
      /\ \A q \in Of(falls) : \E j \in 1..Len(falls) : q = falls[j]
  BY <1>3, FallFacts DEF Of
<1>5. \A j \in 1..Len(falls) : (j < next => AtEnd(falls[j])) /\ (j >= next => AtStart(falls[j]))
  BY <1>1 DEF Searched
<1>6. \A q : /\ AtStart(q)' <=> AtStart(q)
             /\ AtEnd(q)' <=> AtEnd(q)
             /\ \A visited : Sought(q, visited)' = Sought(q, visited)
  BY <1>1, <1>2, SameSearch, SameSought DEF SameBook
<1>7. /\ found' \in [Processors -> Seq(Byte)] /\ skipped' \in [Processors -> SUBSET Resources]
      /\ \A q \in Processors :
           /\ \E isbns \in Seq(Byte) : found'[q] = ExpectedISBNs(q, isbns)
           /\ skipped'[q] \subseteq Of(opened'[q])
           /\ heads'[q] = <<>> => found'[q] = <<>>
  BY <1>1 DEF Searched
<1>8. CASE next > Len(falls) /\ Go("finishes")
  <2>1. \A q \in Of(falls) : AtEnd(q)'
    BY <1>3, <1>4, <1>5, <1>6, <1>8
  <2>2. pc' = "finishes" /\ outcome' = outcome
    BY <1>8 DEF Go
  <2> QED
    BY <1>3, <1>7, <2>1, <2>2 DEF Searched, Early
<1>9. CASE next <= Len(falls) /\ IsbnDone(p, found[p]) /\ Then(next + 1, "falls")
  <2>1. next \in 1..Len(falls) /\ p \in Processors /\ AtStart(p)
    BY <1>0, <1>3, <1>4, <1>5, <1>9
  <2>2. AtEnd(p)
    <3>1. Others \in Seq(Resources) /\ <<>> \o Others = Others /\ <<>> \in Seq(Resources)
      BY <1>3, BookFacts, ConcatEmptySeq, EmptySeq
    <3> DEFINE want == Wanted(p)
               none == <<>>
    <3>2. IsbnDone(p, SoughtIn(p, Whole, want, none))
      BY <1>9, <2>1 DEF AtStart, Sought
    <3> HIDE DEF want, none
    <3>3. none \in Seq(Resources)
      BY <3>1 DEF none
    <3>4. SoughtIn(p, Whole, want, none \o Others) = SoughtIn(p, Whole, want, none)
      BY <1>3, <2>1, <3>1, <3>2, <3>3, SoughtEnough
    <3> QED
      BY <2>1, <3>1, <3>4 DEF AtStart, AtEnd, Sought, want, none
  <2>3. pc' = "falls" /\ next' = next + 1 /\ outcome' = outcome
    BY <1>9 DEF Then
  <2>4. \A j \in 1..Len(falls) : (j < next + 1 => j < next \/ j = next) /\ (j >= next + 1 => j >= next)
    BY <1>3, <1>4
  <2>5. \A j \in 1..Len(falls) : (j < next + 1 => AtEnd(falls[j])') /\ (j >= next + 1 => AtStart(falls[j])')
    BY <1>0, <1>3, <1>5, <1>6, <2>2, <2>4
  <2> QED
    BY <1>3, <1>7, <2>3, <2>5 DEF Searched, Early
<1>10. CASE End("ctx")
  <2>1. pc' = "ended" /\ outcome' # "ok"
    BY <1>10 DEF End
  <2> QED
    BY <1>1, <1>2, <2>1, IdleSearch
<1>11. CASE /\ next <= Len(falls) /\ ~IsbnDone(p, found[p])
            /\ todo' = Others /\ scanned' = {} /\ Then(next, "scan")
  <2>1. next \in 1..Len(falls) /\ p \in Processors /\ AtStart(p)
    BY <1>0, <1>3, <1>4, <1>5, <1>11
  <2>2. Others \in Seq(Resources) /\ <<>> \o Others = Others /\ <<>> \in Seq(Resources) /\ Of(<<>>) = {}
    BY <1>3, BookFacts, ConcatEmptySeq, EmptyList
  <2>3. Midway(p)'
    <3>1. /\ ~IsbnDone(p, found'[p]) /\ found'[p] = Sought(p, <<>>)'
          /\ Others' = <<>> \o todo' /\ scanned' = Of(<<>>) \ Of(resources')
      BY <1>1, <1>3, <1>6, <1>11, <2>1, <2>2 DEF AtStart
    <3> QED
      BY <2>2, <3>1 DEF Midway
  <2>4. pc' = "scan" /\ next' = next /\ outcome' = outcome
    BY <1>11 DEF Then
  <2>5. \A j \in 1..Len(falls) : (j < next => AtEnd(falls[j])') /\ (j > next => AtStart(falls[j])')
    <3>1. \A j \in 1..Len(falls) : j > next => j >= next
      BY <1>3, <1>4
    <3> QED
      BY <1>3, <1>5, <1>6, <3>1
  <2>6. Midway(falls[next])'
    BY <1>0, <1>3, <2>3, <2>4
  <2> QED
    BY <1>3, <1>7, <2>4, <2>5, <2>6 DEF Searched, Early
<1>12. next > Len(falls) \/ next <= Len(falls)
  BY <1>3, <1>4
<1> QED
  BY <1>0, <1>8, <1>9, <1>10, <1>11, <1>12 DEF NextFallback

\* The search of a processor is at its end when all the others were visited.
LEMMA ScanDoneSearched ==
  ASSUME ScanInv, Searched, ScanDone
  PROVE  Searched'
<1>0. PICK p : p = falls[next]
  OBVIOUS
<1>1. /\ pc = "scan" /\ todo = <<>> /\ pc' = "falls" /\ next' = next + 1 /\ outcome' = outcome
      /\ UNCHANGED <<rvars, book, lineup, found, skipped, opened, heads>>
  BY DEF ScanDone, At, results, Quiet, Fixed, Then
<1>2. SameBook
  BY <1>1 DEF rvars, stream, SameBook
<1>3. /\ UNCHANGED <<falls, Others>> /\ lineup \in Lineups /\ outcome = "none" /\ next \in 1..Len(falls)
  BY <1>1, <1>2, SameLineup, SameOthers DEF SameBook, ScanInv, Control, Fallen
<1>4. \A q : (AtStart(q)' <=> AtStart(q)) /\ (AtEnd(q)' <=> AtEnd(q))
  BY <1>1, <1>2, SameSearch DEF SameBook
<1>5. /\ Midway(p)
      /\ \A j \in 1..Len(falls) : (j < next => AtEnd(falls[j])) /\ (j > next => AtStart(falls[j]))
  BY <1>0, <1>1 DEF Searched
<1>6. AtEnd(p)
  <2>1. PICK visited \in Seq(Resources) : Others = visited \o todo /\ found[p] = Sought(p, visited)
    BY <1>5 DEF Midway
  <2>2. Others = visited
    BY <1>1, <2>1, ConcatEmptySeq
  <2> QED
    BY <2>1, <2>2 DEF AtEnd
<1>7. \A j \in 1..Len(falls) : (j < next + 1 => j < next \/ j = next) /\ (j >= next + 1 => j > next)
  BY <1>3, FallFacts
<1>8. \A j \in 1..Len(falls) : (j < next + 1 => AtEnd(falls[j])') /\ (j >= next + 1 => AtStart(falls[j])')
  BY <1>0, <1>3, <1>4, <1>5, <1>6, <1>7
<1>9. /\ found' \in [Processors -> Seq(Byte)] /\ skipped' \in [Processors -> SUBSET Resources]
      /\ \A q \in Processors :
           /\ \E isbns \in Seq(Byte) : found'[q] = ExpectedISBNs(q, isbns)
           /\ skipped'[q] \subseteq Of(opened'[q])
           /\ heads'[q] = <<>> => found'[q] = <<>>
  BY <1>1 DEF Searched
<1> QED
  BY <1>1, <1>3, <1>8, <1>9 DEF Searched, Early

\* The finish phase leaves the results alone.
LEMMA NextFinishSearched ==
  ASSUME ScanInv, Searched, NextFinish
  PROVE  Searched'
<1>1. /\ pc = "finishes" /\ UNCHANGED <<rvars, book, lineup, found, skipped, opened, heads>>
      /\ \/ pc' = "ended" \/ pc' = "finish"
  BY DEF NextFinish, At, results, Quiet, Fixed, End, Then
<1>2. SameBook
  BY <1>1 DEF rvars, stream, SameBook
<1>3. UNCHANGED falls
  BY <1>1, SameLineup
<1>4. \A q : AtEnd(q)' <=> AtEnd(q)
  BY <1>1, <1>2, SameSearch DEF SameBook
<1>5. \A q \in Of(falls) : AtEnd(q)
  BY <1>1 DEF Searched
<1> QED
  BY <1>1, <1>3, <1>4, <1>5 DEF Searched, Early

LEMMA FinishSearched ==
  ASSUME ScanInv, Searched, Finish
  PROVE  Searched'
<1>1. /\ pc = "finish" /\ UNCHANGED <<rvars, book, lineup, found, skipped, opened, heads>>
      /\ \/ pc' = "ended" \/ pc' = "finishes"
  BY DEF Finish, At, Quiet, Fixed, End, Then
<1>2. SameBook
  BY <1>1 DEF rvars, stream, SameBook
<1>3. UNCHANGED falls
  BY <1>1, SameLineup
<1>4. \A q : AtEnd(q)' <=> AtEnd(q)
  BY <1>1, <1>2, SameSearch DEF SameBook
<1>5. \A q \in Of(falls) : AtEnd(q)
  BY <1>1 DEF Searched
<1> QED
  BY <1>1, <1>3, <1>4, <1>5 DEF Searched, Early

\* One resource more was visited: known, read, or skipped.
LEMMA ScanNextSearched ==
  ASSUME ScanInv, Searched, ScanNext
  PROVE  Searched'
<1>0. PICK p, r, rest, out :
        /\ p = falls[next] /\ r = Head(todo) /\ rest = Tail(todo)
        /\ out = AddISBNs(p, found[p], Within(Text[r], Cap[p].head))
  OBVIOUS
<1>1. /\ pc = "scan" /\ todo # <<>> /\ todo' = rest
      /\ scanned' = IF r \in ToSet(resources) THEN scanned ELSE scanned \cup {r}
      /\ UNCHANGED <<rvars, book, lineup, heads>>
  BY <1>0 DEF ScanNext, At, Quiet, Fixed
<1>2. \/ SkipKnown(r) /\ UNCHANGED <<progress, found, opened, skipped>>
      \/ /\ ~SkipKnown(r) /\ opened' = [opened EXCEPT ![p] = Append(@, r)]
         /\ \/ /\ found' = [found EXCEPT ![p] = out]
               /\ \/ IsbnDone(p, out) /\ Then(next + 1, "falls")
                  \/ ~IsbnDone(p, out) /\ Then(next, "scan")
               /\ UNCHANGED skipped
            \/ /\ End("ctx") \/ UNCHANGED progress
               /\ skipped' = [skipped EXCEPT ![p] = @ \cup {r}]
               /\ UNCHANGED found
  BY <1>0 DEF ScanNext, Within
<1>3. SameBook
  BY <1>1 DEF rvars, stream, SameBook
<1>4. UNCHANGED <<book, falls, Others, Whole, resources, delimiter>>
  BY <1>1, <1>3, SameLineup, SameOthers DEF SameBook
<1>5. /\ lineup \in Lineups /\ outcome = "none" /\ next \in 1..Len(falls)
      /\ Whole \in Seq(Byte) /\ todo \in Seq(Resources) /\ resources \in Seq(Resources)
      /\ opened \in [Processors -> Seq(Resources)] /\ Of(opened[p]) \subseteq scanned
  BY <1>0, <1>1, WholeType DEF ScanInv, Control, Fallen, IInv, Types, Arguments
<1>6. /\ falls \in Seq(Processors) /\ Len(falls) \in Nat
      /\ \A j \in 1..Len(falls) : falls[j] \in Processors
      /\ \A i, j \in 1..Len(falls) : falls[i] = falls[j] => i = j
      /\ p \in Processors
  BY <1>0, <1>5, FallFacts
<1>7. /\ found \in [Processors -> Seq(Byte)] /\ skipped \in [Processors -> SUBSET Resources]
      /\ \A q \in Processors :
           /\ \E isbns \in Seq(Byte) : found[q] = ExpectedISBNs(q, isbns)
           /\ skipped[q] \subseteq Of(opened[q])
           /\ heads[q] = <<>> => found[q] = <<>>
  BY DEF Searched
<1>8. \A j \in 1..Len(falls) : (j < next => AtEnd(falls[j])) /\ (j > next => AtStart(falls[j]))
  BY <1>1 DEF Searched
<1>9. PICK visited \in Seq(Resources) :
        /\ ~IsbnDone(p, found[p]) /\ Others = visited \o todo
        /\ scanned = Of(visited) \ Of(resources) /\ found[p] = Sought(p, visited)
  BY <1>0, <1>1 DEF Searched, Midway
<1>10. PICK seen : seen = Append(visited, r)
  OBVIOUS
<1>11. r \in Resources /\ rest \in Seq(Resources) /\ seen \in Seq(Resources)
       /\ Of(seen) = Of(visited) \cup {r}
  BY <1>0, <1>1, <1>5, <1>10, HeadTailProperties, AppendList
<1>12. Others = seen \o rest
  <2>1. todo = <<r>> \o rest
    BY <1>0, <1>1, <1>5
  <2>2. seen = visited \o <<r>> /\ <<r>> \in Seq(Resources)
    BY <1>10, <1>11, AppendIsConcat
  <2> QED
    BY <1>9, <1>11, <2>1, <2>2, ConcatAssociative, SMTT(30)
<1>13. ToSet(resources) = Of(resources)
  BY <1>5, OfIsToSet
<1>14. scanned' = Of(seen) \ Of(resources')
  BY <1>1, <1>4, <1>9, <1>11, <1>13
<1>15. \A j \in 1..Len(falls) : j # next => falls[j] # p
  BY <1>0, <1>5, <1>6
\* The searches of the others.
<1>16. ASSUME \A q \in Processors : q # p => found'[q] = found[q] /\ skipped'[q] = skipped[q]
       PROVE  \A j \in 1..Len(falls) : /\ j < next => AtEnd(falls[j])'
                                       /\ j > next => AtStart(falls[j])'
  <2>1. \A q \in Processors : q # p => (AtStart(q)' <=> AtStart(q)) /\ (AtEnd(q)' <=> AtEnd(q))
    BY <1>4, <1>16, SameSearch
  <2>2. \A j \in 1..Len(falls) : j < next \/ j > next => j # next
    BY <1>5, <1>6
  <2> QED
    BY <1>4, <1>6, <1>8, <1>15, <2>1, <2>2
<1>17. CASE SkipKnown(r) /\ UNCHANGED <<progress, found, opened, skipped>>
  <2>1. r \in Wanted(p) => r \in Of(visited)
    BY <1>9, <1>17 DEF SkipKnown, Wanted
  <2>2. Sought(p, seen) = Sought(p, visited)
    <3> DEFINE want == Wanted(p)
    <3>1. r \in want => r \in Of(visited)
      BY <2>1
    <3> HIDE DEF want
    <3>2. SoughtIn(p, Whole, want, seen) = SoughtIn(p, Whole, want, visited)
      BY <1>5, <1>6, <1>10, <1>11, <3>1, SoughtAgain
    <3> QED
      BY <3>2 DEF Sought, want
  <2>3. Midway(p)'
    <3>1. Sought(p, seen)' = Sought(p, seen)
      BY <1>4, <1>17, SameSought
    <3>2. /\ ~IsbnDone(p, found'[p]) /\ found'[p] = Sought(p, seen)'
          /\ Others' = seen \o todo' /\ scanned' = Of(seen) \ Of(resources')
      BY <1>1, <1>4, <1>9, <1>12, <1>14, <1>17, <2>2, <3>1
    <3> QED
      BY <1>11, <3>2 DEF Midway
  <2>4. pc' = "scan" /\ next' = next /\ outcome' = outcome
    BY <1>1, <1>17 DEF progress
  <2>5. Midway(falls[next])'
    BY <1>0, <1>4, <2>3, <2>4
  <2>6. \A j \in 1..Len(falls) : (j < next => AtEnd(falls[j])') /\ (j > next => AtStart(falls[j])')
    BY <1>16, <1>17
  <2> QED
    BY <1>1, <1>4, <1>5, <1>7, <1>17, <2>4, <2>5, <2>6 DEF Searched, Early
\* A resource that was not visited yet.
<1>18. ASSUME ~SkipKnown(r), opened' = [opened EXCEPT ![p] = Append(@, r)]
       PROVE  /\ r \notin Of(visited) /\ r \in Wanted(p)
              /\ Of(opened'[p]) = Of(opened[p]) \cup {r}
              /\ \A q \in Processors : q # p => opened'[q] = opened[q]
  <2>1. r \notin Of(resources) /\ r \notin scanned /\ r \in Convertible
    BY <1>13, <1>18 DEF SkipKnown
  <2>2. r \notin Of(visited) /\ r \notin skipped[p]
    BY <1>5, <1>6, <1>7, <1>9, <2>1
  <2>3. r \in Wanted(p)
    BY <1>13, <2>1, <2>2 DEF Wanted
  <2>4. opened'[p] = Append(opened[p], r) /\ \A q \in Processors : q # p => opened'[q] = opened[q]
    BY <1>5, <1>6, <1>18
  <2>5. Of(opened'[p]) = Of(opened[p]) \cup {r}
    BY <1>5, <1>6, <1>11, <2>4, AppendList
  <2> QED
    BY <2>2, <2>3, <2>4, <2>5
<1>19. CASE /\ ~SkipKnown(r) /\ opened' = [opened EXCEPT ![p] = Append(@, r)]
            /\ found' = [found EXCEPT ![p] = out]
            /\ \/ IsbnDone(p, out) /\ Then(next + 1, "falls")
               \/ ~IsbnDone(p, out) /\ Then(next, "scan")
            /\ UNCHANGED skipped
  <2>1. out = Sought(p, seen)
    <3> DEFINE want == Wanted(p)
    <3>1. r \in want /\ ~IsbnDone(p, SoughtIn(p, Whole, want, visited))
      BY <1>9, <1>18, <1>19 DEF Sought
    <3>2. out = AddISBNs(p, SoughtIn(p, Whole, want, visited), Within(Text[r], Cap[p].head))
      BY <1>0, <1>9 DEF Sought
    <3> HIDE DEF want
    <3>3. out = SoughtIn(p, Whole, want, Append(visited, r))
      BY <1>5, <1>6, <1>11, <3>1, <3>2, SoughtMore
    <3> QED
      BY <1>10, <3>3 DEF Sought, want
  <2>2. \E isbns \in Seq(Byte) : out = ExpectedISBNs(p, isbns)
    BY <1>5, <1>6, <1>11, <2>1, MetType DEF Sought, SoughtIn
  <2>3. out \in Seq(Byte)
    BY <1>6, <2>2, ExpectedFacts
  <2>4. /\ found' \in [Processors -> Seq(Byte)] /\ found'[p] = out
        /\ \A q \in Processors : q # p => found'[q] = found[q]
    BY <1>6, <1>7, <1>19, <2>3
  <2>5. ASSUME NEW q \in Processors
        PROVE  /\ \E isbns \in Seq(Byte) : found'[q] = ExpectedISBNs(q, isbns)
               /\ skipped'[q] \subseteq Of(opened'[q])
    <3>1. CASE q = p
      BY <1>7, <1>18, <1>19, <2>2, <2>4, <3>1
    <3>2. CASE q # p
      BY <1>7, <1>18, <1>19, <2>4, <3>2
    <3> QED
      BY <3>1, <3>2
  <2>6. \A q \in Processors : heads'[q] = <<>> => found'[q] = <<>>
    <3>1. heads'[p] # <<>>
      <4>1. p \in Of(Requests)
        BY <1>0, <1>5, FallFacts
      <4> QED
        BY <1>1, <4>1 DEF ScanInv, Complete, AllHeads, Later
    <3> QED
      BY <1>1, <1>7, <2>4, <3>1
  <2>7. Sought(p, seen)' = Sought(p, seen) /\ Sought(p, Others)' = Sought(p, Others)
    BY <1>4, <1>19, SameSought DEF Sought
  <2>8. \A j \in 1..Len(falls) : (j < next => AtEnd(falls[j])') /\ (j > next => AtStart(falls[j])')
    BY <1>16, <1>19, <2>4
  <2>9. CASE IsbnDone(p, out) /\ pc' = "falls" /\ next' = next + 1 /\ outcome' = outcome
    <3>1. Sought(p, Others) = Sought(p, seen)
      <4> DEFINE want == Wanted(p)
      <4>1. IsbnDone(p, SoughtIn(p, Whole, want, seen))
        BY <2>1, <2>9 DEF Sought
      <4> HIDE DEF want
      <4>2. SoughtIn(p, Whole, want, seen \o rest) = SoughtIn(p, Whole, want, seen)
        BY <1>5, <1>6, <1>11, <4>1, SoughtEnough
      <4> QED
        BY <1>12, <4>2 DEF Sought, want
    <3>2. AtEnd(p)'
      BY <1>4, <2>1, <2>4, <2>7, <3>1 DEF AtEnd
    <3>3. \A j \in 1..Len(falls) : (j < next + 1 => j < next \/ j = next) /\ (j >= next + 1 => j > next)
      BY <1>5, <1>6
    <3>4. \A j \in 1..Len(falls) : (j < next + 1 => AtEnd(falls[j])') /\ (j >= next + 1 => AtStart(falls[j])')
      BY <1>0, <1>4, <2>8, <3>2, <3>3
    <3> QED
      BY <1>4, <1>5, <1>7, <1>19, <2>4, <2>5, <2>6, <2>9, <3>4 DEF Searched, Early
  <2>10. CASE ~IsbnDone(p, out) /\ pc' = "scan" /\ next' = next /\ outcome' = outcome
    <3>1. Midway(p)'
      <4>1. /\ ~IsbnDone(p, found'[p]) /\ found'[p] = Sought(p, seen)'
            /\ Others' = seen \o todo' /\ scanned' = Of(seen) \ Of(resources')
        BY <1>1, <1>4, <1>12, <1>14, <2>1, <2>4, <2>7, <2>10
      <4> QED
        BY <1>11, <4>1 DEF Midway
    <3>2. Midway(falls[next])'
      BY <1>0, <1>4, <2>10, <3>1
    <3> QED
      BY <1>4, <1>5, <1>7, <1>19, <2>4, <2>5, <2>6, <2>8, <2>10, <3>2 DEF Searched, Early
  <2> QED
    BY <1>19, <2>9, <2>10 DEF Then
<1>20. CASE /\ ~SkipKnown(r) /\ opened' = [opened EXCEPT ![p] = Append(@, r)]
            /\ End("ctx") \/ UNCHANGED progress
            /\ skipped' = [skipped EXCEPT ![p] = @ \cup {r}]
            /\ UNCHANGED found
  <2>1. /\ skipped' \in [Processors -> SUBSET Resources] /\ skipped'[p] = skipped[p] \cup {r}
        /\ \A q \in Processors : q # p => skipped'[q] = skipped[q]
    BY <1>6, <1>7, <1>11, <1>20
  <2>2. ASSUME NEW q \in Processors PROVE skipped'[q] \subseteq Of(opened'[q])
    <3>1. CASE q = p
      BY <1>7, <1>18, <1>20, <2>1, <3>1
    <3>2. CASE q # p
      BY <1>7, <1>18, <1>20, <2>1, <3>2
    <3> QED
      BY <3>1, <3>2
  <2>3. \A j \in 1..Len(falls) : (j < next => AtEnd(falls[j])') /\ (j > next => AtStart(falls[j])')
    BY <1>16, <1>20, <2>1
  <2>4. Sought(p, seen)' = found[p]
    <3>1. PICK want, wish : want = Wanted(p) /\ wish = Wanted(p)'
      OBVIOUS
    <3>2. r \notin wish /\ \A x \in Of(visited) : x \in wish <=> x \in want
      BY <1>4, <1>18, <1>20, <2>1, <3>1 DEF Wanted
    <3>3. SoughtIn(p, Whole, wish, seen) = SoughtIn(p, Whole, wish, visited)
      BY <1>5, <1>6, <1>10, <1>11, <3>2, SoughtAgain
    <3>4. SoughtIn(p, Whole, wish, visited) = SoughtIn(p, Whole, want, visited)
      BY <3>2, SoughtSame
    <3>5. Sought(p, seen)' = SoughtIn(p, Whole, wish, seen)
      BY <1>4, <3>1 DEF Sought
    <3> QED
      BY <1>9, <3>1, <3>3, <3>4, <3>5 DEF Sought
  <2>5. CASE pc' = "ended" /\ outcome' # "ok"
    BY <1>1, <1>7, <1>20, <2>1, <2>2, <2>5 DEF Searched, Early
  <2>6. CASE pc' = "scan" /\ next' = next /\ outcome' = outcome
    <3>1. Midway(p)'
      <4>1. /\ ~IsbnDone(p, found'[p]) /\ found'[p] = Sought(p, seen)'
            /\ Others' = seen \o todo' /\ scanned' = Of(seen) \ Of(resources')
        BY <1>1, <1>4, <1>9, <1>12, <1>14, <1>20, <2>4
      <4> QED
        BY <1>11, <4>1 DEF Midway
    <3>2. Midway(falls[next])'
      BY <1>0, <1>4, <2>6, <3>1
    <3> QED
      BY <1>1, <1>4, <1>5, <1>7, <1>20, <2>1, <2>2, <2>3, <2>6, <3>2 DEF Searched, Early
  <2> QED
    BY <1>1, <1>20, <2>5, <2>6 DEF End, progress
<1> QED
  BY <1>2, <1>17, <1>19, <1>20

\* Every step of the scan keeps the searches right.
LEMMA SearchStep ==
  ASSUME ScanInv, ScanInv', Searched, [ScanAction]_vars
  PROVE  Searched'
<1>1. CASE Start \/ Reading
  BY <1>1, ReadingEffect, IdleSearch, GiveHeadSearched
<1>2. CASE After
  BY <1>2, GateSearched, NextFallbackSearched, ScanNextSearched, ScanDoneSearched, NextFinishSearched,
     FinishSearched DEF After
<1>3. CASE Cancel \/ UNCHANGED vars
  <2>1. UNCHANGED <<rvars, book, lineup, pc, outcome, next, todo, scanned, found, skipped, opened, heads>>
    BY <1>3 DEF Cancel, Quiet, Fixed, vars, progress, work, results
  <2>2. SameBook
    BY <2>1 DEF rvars, stream, SameBook
  <2> QED
    BY <2>1, <2>2, IdleSearch
<1> QED
  BY <1>1, <1>2, <1>3 DEF ScanAction, Scan, Returned

-----------------------------------------------------------------------------
\* An ISBN processor never has an ISBN twice in any of its forms nor more than
\* its limit, and a scan that succeeds leaves it with the keys of its head and
\* of every other resource it should read and can, each where it is first met,
\* cut at the limit (pipeline_processors.go, ProcessHead, ProcessFallback and
\* add).
THEOREM IsbnsAreExact == ScanSpec => []IsbnExact
<1>1. ScanInit => ScanInv /\ Searched
  BY InitScanInv, InitSearched
<1>2. (ScanInv /\ Searched) /\ [ScanAction]_vars => (ScanInv /\ Searched)'
  BY ScanStepInv, SearchStep
<1>3. ScanInv /\ Searched => IsbnExact
  <2> SUFFICES ASSUME ScanInv, Searched, NEW p \in ToSet(falls)
               PROVE  /\ Cap[p].limit > 0 => Len(found[p]) <= Cap[p].limit
                      /\ \A i, j \in DOMAIN found[p] : Key[found[p][i]] = Key[found[p][j]] => i = j
                      /\ outcome = "ok" => found[p] = ExpectedISBNs(p, MetISBNs(p, Others))
    BY DEF IsbnExact
  <2>1. lineup \in Lineups
    BY DEF ScanInv, Control
  <2>2. p \in Of(falls) /\ p \in Processors
    BY <2>1, FallFacts, OfIsToSet
  <2>3. PICK isbns \in Seq(Byte) : found[p] = ExpectedISBNs(p, isbns)
    BY <2>2 DEF Searched
  <2>4. /\ found[p] \in Seq(Byte) /\ Distinct(found[p])
        /\ Cap[p].limit > 0 => Len(found[p]) <= Cap[p].limit
    BY <2>2, <2>3, ExpectedFacts
  <2>5. DOMAIN found[p] = 1..Len(found[p])
    BY <2>4, LenProperties
  <2>6. outcome = "ok" => found[p] = ExpectedISBNs(p, MetISBNs(p, Others))
    BY <2>2, SoughtIsExpected DEF Searched, AtEnd
  <2> QED
    BY <2>4, <2>5, <2>6 DEF Distinct
<1> QED
  BY <1>1, <1>2, <1>3, PTL DEF ScanSpec

-----------------------------------------------------------------------------
(* The calls of Finish *)

\* Those made are the first of the list, as far as the finish phase has come.
Called ==
  /\ finished \in Seq(Processors) /\ Len(finished) <= Len(finishes)
  /\ \A i \in 1..Len(finished) : finished[i] = finishes[i]
  /\ pc \in {"finishes", "finish"} => Len(finished) = next - 1
  /\ pc = "finish" => next <= Len(finishes)
  /\ outcome = "ok" => Len(finished) = Len(finishes)

\* Behind the first of them every search is at its end.
SearchedFirst == finished # <<>> => \A p \in Of(falls) : AtEnd(p)

LEMMA FinishesFacts ==
  ASSUME lineup \in Lineups
  PROVE  finishes \in Seq(Processors) /\ Len(finishes) \in Nat
<1>1. lineup \in Seq(Processors)
  BY ProcessorsAssumption
<1>2. finishes = Chosen(lineup, {p \in Processors : IsFinish(p)})
  BY DEF finishes, Having
<1> QED
  BY <1>1, <1>2, ChosenList, LenProperties

\* A list that agrees with the beginning of another is a prefix of it.
LEMMA FirstPart ==
  ASSUME NEW S, NEW s \in Seq(S), NEW t \in Seq(S), Len(s) <= Len(t),
         \A i \in 1..Len(s) : s[i] = t[i]
  PROVE  IsPrefix(s, t)
<1> DEFINE u == SubSeq(t, 1, Len(s))
<1>1. Len(s) \in Nat /\ Len(t) \in Nat
  BY LenProperties
<1>2. \A i \in 1..Len(s) : t[i] \in S
  BY <1>1, ElementOfSeq
<1>3. /\ u \in Seq(S) /\ Len(u) = IF 1 <= Len(s) THEN Len(s) - 1 + 1 ELSE 0
      /\ \A i \in 1..Len(s) - 1 + 1 : u[i] = t[1 + i - 1]
  BY <1>1, <1>2, SubSeqProperties
<1> HIDE DEF u
<1>4. Len(u) = Len(s) /\ \A i \in 1..Len(s) : u[i] = s[i]
  BY <1>1, <1>3
<1>5. u = s
  BY <1>3, <1>4, SeqEqual
<1>6. SubSeq(s, 1, Len(s)) = s
  BY SubSeqFull
<1> QED
  BY <1>5, <1>6 DEF IsPrefix, u

LEMMA InitCalled == ScanInit => Called /\ SearchedFirst
<1> SUFFICES ASSUME ScanInit PROVE Called /\ SearchedFirst
  OBVIOUS
<1>1. finished = <<>> /\ pc = "start" /\ outcome = "none" /\ lineup \in Lineups
  BY DEF ScanInit
<1>2. <<>> \in Seq(Processors) /\ Len(<<>>) = 0
  BY EmptySeq
<1>3. Len(finishes) \in Nat
  BY <1>1, FinishesFacts
<1> QED
  BY <1>1, <1>2, <1>3 DEF Called, SearchedFirst

\* No step before the finish phase calls Finish or succeeds; the phase begins
\* with the first of the list.
LEMMA BeforeFinish ==
  ASSUME ScanInv, Start \/ Reading \/ Gate \/ NextFallback \/ ScanNext \/ ScanDone
  PROVE  /\ finished = <<>> /\ finished' = <<>> /\ lineup' = lineup
         /\ outcome' # "ok" /\ pc' # "finish" /\ (pc' = "finishes" => next' = 1)
<1>1. CASE Start \/ Reading
  <2>1. pc \in Early /\ Onward /\ UNCHANGED lineup
    BY <1>1, ReadingEffect
  <2>2. finished = <<>> /\ outcome = "none"
    BY <2>1 DEF ScanInv, Control, Early
  <2>3. UNCHANGED finished
    BY <1>1 DEF Start, Reading, AskRead, StreamStep, TakeChunk, TakeNothing, ProcessChunk, AddHead, FlushReady,
       ChunkDone, CheckContext, FlushRemaining, FlushDone, GiveHead, results
  <2> QED
    BY <2>1, <2>2, <2>3 DEF Onward, Early
<1>2. CASE Gate \/ NextFallback \/ ScanNext \/ ScanDone
  <2>1. pc \in {"gate", "falls", "scan"} /\ UNCHANGED <<lineup, finished>>
    BY <1>2 DEF Gate, NextFallback, ScanNext, ScanDone, At, results, Quiet, Fixed
  <2>2. finished = <<>> /\ outcome = "none"
    BY <2>1 DEF ScanInv, Control
  <2>3. \/ End("ctx") \/ Go("falls") \/ Go("finishes") \/ UNCHANGED progress
        \/ Then(next + 1, "falls") \/ Then(next, "scan")
    BY <1>2 DEF Gate, NextFallback, ScanNext, ScanDone
  <2> QED
    BY <2>1, <2>2, <2>3 DEF End, Go, Then, progress
<1> QED
  BY <1>1, <1>2

LEMMA NextFinishCalled ==
  ASSUME ScanInv, Called, NextFinish
  PROVE  Called'
<1>1. pc = "finishes" /\ UNCHANGED <<lineup, finished>> /\ outcome = "none"
  BY DEF NextFinish, At, results, Quiet, Fixed, ScanInv, Control
<1>2. UNCHANGED finishes /\ Len(finishes) \in Nat /\ next \in Nat \ {0} /\ Len(finished) \in Nat
  BY <1>1, SameLineup, FinishesFacts, LenProperties DEF ScanInv, Control, Called
<1>3. \/ next > Len(finishes) /\ pc' = "ended" /\ outcome' = "ok"
      \/ pc' = "ended" /\ outcome' = "ctx"
      \/ ~(next > Len(finishes)) /\ pc' = "finish" /\ next' = next /\ outcome' = outcome
  BY DEF NextFinish, End, Then
<1>4. Len(finished) = next - 1 /\ Len(finished) <= Len(finishes)
  BY <1>1 DEF Called
<1>5. next > Len(finishes) => Len(finished) = Len(finishes)
  BY <1>2, <1>4
<1>6. ~(next > Len(finishes)) => next <= Len(finishes)
  BY <1>2
<1> QED
  BY <1>1, <1>2, <1>3, <1>4, <1>5, <1>6 DEF Called

LEMMA FinishCalled ==
  ASSUME ScanInv, Called, Finish
  PROVE  Called'
<1>1. /\ pc = "finish" /\ UNCHANGED lineup /\ outcome = "none" /\ lineup \in Lineups
      /\ finished' = Append(finished, finishes[next])
  BY DEF Finish, At, Quiet, Fixed, ScanInv, Control
<1>2. /\ UNCHANGED finishes /\ finishes \in Seq(Processors) /\ Len(finishes) \in Nat
      /\ next \in Nat \ {0} /\ finished \in Seq(Processors) /\ Len(finished) \in Nat
  BY <1>1, SameLineup, FinishesFacts, LenProperties DEF ScanInv, Control, Called
<1>3. /\ next <= Len(finishes) /\ Len(finished) = next - 1
      /\ \A i \in 1..Len(finished) : finished[i] = finishes[i]
  BY <1>1 DEF Called
<1>4. finishes[next] \in Processors
  BY <1>2, <1>3, ElementOfSeq
<1>5. /\ finished' \in Seq(Processors) /\ Len(finished') = Len(finished) + 1
      /\ \A i \in 1..Len(finished) : finished'[i] = finished[i]
      /\ finished'[Len(finished) + 1] = finishes[next]
  BY <1>1, <1>2, <1>4, AppendProperties
<1>6. \A i \in 1..Len(finished) + 1 : i \in 1..Len(finished) \/ i = Len(finished) + 1
  BY <1>2
<1>7. Len(finished) + 1 = next
  BY <1>2, <1>3
<1>8. \A i \in 1..Len(finished') : finished'[i] = finishes[i]
  BY <1>3, <1>5, <1>6, <1>7
<1>9. \/ pc' = "finishes" /\ next' = next + 1 /\ outcome' = outcome
      \/ pc' = "ended" /\ outcome' = "error"
  BY DEF Finish, End, Then
<1>10. next = (next + 1) - 1
  BY <1>2
<1> QED
  BY <1>1, <1>2, <1>3, <1>5, <1>7, <1>8, <1>9, <1>10 DEF Called

LEMMA CalledStep ==
  ASSUME ScanInv, Called, [ScanAction]_vars
  PROVE  Called'
<1>1. CASE Start \/ Reading \/ Gate \/ NextFallback \/ ScanNext \/ ScanDone
  <2>1. <<>> \in Seq(Processors) /\ Len(<<>>) = 0
    BY EmptySeq
  <2>2. UNCHANGED finishes /\ Len(finishes) \in Nat
    BY <1>1, BeforeFinish, SameLineup, FinishesFacts DEF ScanInv, Control
  <2> QED
    BY <1>1, <2>1, <2>2, BeforeFinish DEF Called
<1>2. CASE Cancel \/ UNCHANGED vars
  <2>1. UNCHANGED <<lineup, pc, outcome, next, finished>>
    BY <1>2 DEF Cancel, Quiet, Fixed, vars, progress, work, results
  <2>2. UNCHANGED finishes
    BY <2>1, SameLineup
  <2> QED
    BY <2>1, <2>2 DEF Called
<1> QED
  BY <1>1, <1>2, NextFinishCalled, FinishCalled DEF ScanAction, Scan, After, Returned

LEMMA SearchedFirstStep ==
  ASSUME ScanInv, Searched, SearchedFirst, [ScanAction]_vars
  PROVE  SearchedFirst'
<1>1. CASE Start \/ Reading \/ Gate \/ NextFallback \/ ScanNext \/ ScanDone
  BY <1>1, BeforeFinish DEF SearchedFirst
<1>2. ASSUME Cancel \/ UNCHANGED vars \/ NextFinish \/ Finish
      PROVE  SearchedFirst'
  <2>1. UNCHANGED <<rvars, book, lineup, found, skipped>>
    BY <1>2 DEF Cancel, NextFinish, Finish, Quiet, Fixed, vars, results
  <2>2. UNCHANGED <<book, resources, delimiter>> /\ UNCHANGED falls
    BY <2>1, SameLineup DEF rvars, stream
  <2>3. \A p : AtEnd(p)' <=> AtEnd(p)
    BY <2>1, <2>2, SameSearch
  <2>4. Finish => \A p \in Of(falls) : AtEnd(p)
    BY DEF Finish, At, Searched
  <2>5. ~Finish => UNCHANGED finished
    BY <1>2 DEF Cancel, NextFinish, vars, results
  <2> QED
    BY <2>2, <2>3, <2>4, <2>5 DEF SearchedFirst
<1> QED
  BY <1>1, <1>2 DEF ScanAction, Scan, After, Returned

\* Finish is called once for each processor that has it, in their order and
\* never before all text and every head was delivered, every fallback has
\* found all it should, and the stream is closed (pipeline.go:48).
THEOREM FinishesLast == ScanSpec => []FinishLast
<1>1. ScanInit => ScanInv /\ Searched /\ Called /\ SearchedFirst
  BY InitScanInv, InitSearched, InitCalled
<1>2. /\ ScanInv /\ Searched /\ Called /\ SearchedFirst
      /\ [ScanAction]_vars
      => (ScanInv /\ Searched /\ Called /\ SearchedFirst)'
  BY ScanStepInv, SearchStep, CalledStep, SearchedFirstStep
<1>3. ScanInv /\ Searched /\ Called /\ SearchedFirst => FinishLast
  <2> SUFFICES ASSUME ScanInv, Searched, Called, SearchedFirst
               PROVE  FinishLast
    OBVIOUS
  <2>1. /\ lineup \in Lineups
        /\ ToSet(Requests) = Of(Requests) /\ ToSet(streams) = Of(streams) /\ ToSet(falls) = Of(falls)
    BY LineupFacts, OfIsToSet DEF ScanInv, Control
  <2>2. /\ finishes \in Seq(Processors) /\ Len(finishes) \in Nat
        /\ finished \in Seq(Processors) /\ Len(finished) \in Nat /\ Len(finished) <= Len(finishes)
        /\ \A i \in 1..Len(finished) : finished[i] = finishes[i]
    BY <2>1, FinishesFacts, LenProperties DEF Called
  <2>3. IsPrefix(finished, finishes)
    BY <2>2, FirstPart
  <2>4. outcome = "ok" => finished = finishes
    BY <2>2, SeqEqual DEF Called
  <2>5. ASSUME finished # <<>>
        PROVE  /\ \A p \in ToSet(streams) : got[p] = Whole
               /\ \A p \in ToSet(Requests) : heads[p] # <<>>
               /\ handles = 0 /\ ~reading
    <3>1. pc \in {"finishes", "finish", "ended"} /\ AllText /\ AllHeads
      BY <2>5 DEF ScanInv, Control, Complete
    <3>2. handles = 0 /\ ~reading
      BY <3>1 DEF ScanInv, Control, Early
    <3> QED
      BY <2>1, <3>1, <3>2 DEF AllText, AllHeads
  <2>6. ASSUME finished # <<>>, NEW p \in ToSet(falls)
        PROVE  found[p] = ExpectedISBNs(p, MetISBNs(p, Others))
    <3>1. p \in Processors /\ AtEnd(p)
      BY <2>1, <2>6, FallFacts DEF SearchedFirst
    <3> QED
      BY <3>1, SoughtIsExpected DEF AtEnd
  <2> QED
    BY <2>3, <2>4, <2>5, <2>6 DEF FinishLast
<1> QED
  BY <1>1, <1>2, <1>3, PTL DEF ScanSpec
=============================================================================
