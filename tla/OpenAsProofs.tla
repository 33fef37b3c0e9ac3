---------------------------- MODULE OpenAsProofs ----------------------------
(***************************************************************************)
(* Proofs about OpenAs and the registry it searches, for any goroutines,   *)
(* transformers, resources and targets: FindPath returns a shortest chain  *)
(* whatever is registered meanwhile, no stream is left open, and           *)
(* transformers are given UTF-8.                                           *)
(***************************************************************************)
EXTENDS OpenAs, ListLemmas, FiniteSetTheorems, SequenceTheorems

-----------------------------------------------------------------------------
(* Hops in a set of edges *)

\* The definition of hops in Within, up to m hops.
Recurs(f, m, edges, from) ==
  f = [k \in 0..m |-> IF k = 0 THEN {from} ELSE f[k - 1] \cup Beyond(edges, f[k - 1])]

LEMMA RecursExtends ==
  ASSUME NEW edges, NEW from, NEW m \in Nat, NEW f, Recurs(f, m, edges, from)
  PROVE  \E g : Recurs(g, m + 1, edges, from)
<1> DEFINE last == f[m] \cup Beyond(edges, f[m])
           g == [k \in 0..m + 1 |-> IF k = m + 1 THEN last ELSE f[k]]
<1>1. \A k \in 0..m : f[k] = IF k = 0 THEN {from} ELSE f[k - 1] \cup Beyond(edges, f[k - 1])
  BY DEF Recurs
<1> HIDE DEF last
<1>2. \A k \in 0..m : g[k] = f[k]
  OBVIOUS
<1>3. g[m + 1] = last
  OBVIOUS
<1> HIDE DEF g
<1>4. \A k \in 0..m + 1 : g[k] = IF k = 0 THEN {from} ELSE g[k - 1] \cup Beyond(edges, g[k - 1])
  <2> TAKE k \in 0..m + 1
  <2>1. CASE k = m + 1
    <3>1. k - 1 \in 0..m /\ k - 1 = m /\ k # 0
      BY <2>1
    <3> QED
      BY <1>2, <1>3, <2>1, <3>1 DEF last
  <2>2. CASE k \in 0..m
    <3>1. k # 0 => k - 1 \in 0..m
      BY <2>2
    <3> QED
      BY <1>1, <1>2, <2>2, <3>1
  <2>3. k = m + 1 \/ k \in 0..m
    OBVIOUS
  <2> QED
    BY <2>1, <2>2, <2>3
<1>5. Recurs(g, m + 1, edges, from)
  <2>1. g = [k \in 0..m + 1 |-> g[k]]
    BY DEF g
  <2> QED
    BY <1>4, <2>1 DEF Recurs
<1> QED
  BY <1>5

LEMMA RecursExists ==
  ASSUME NEW edges, NEW from
  PROVE  \A m \in Nat : \E f : Recurs(f, m, edges, from)
<1> DEFINE S == {m \in Nat : \E f : Recurs(f, m, edges, from)}
<1>1. 0 \in S
  <2>1. Recurs([k \in 0..0 |-> {from}], 0, edges, from)
    BY DEF Recurs
  <2> QED
    BY <2>1
<1>2. \A n \in Nat : n \in S => n + 1 \in S
  BY RecursExtends
<1> HIDE DEF S
<1>3. Nat \subseteq S
  BY <1>1, <1>2, AllNaturals
<1> QED
  BY <1>3 DEF S

\* Two of them agree as far as both go.
LEMMA RecursUnique ==
  ASSUME NEW edges, NEW from, NEW m \in Nat, NEW n \in Nat, NEW f, NEW g,
         Recurs(f, m, edges, from), Recurs(g, n, edges, from)
  PROVE  \A k \in Nat : k <= m /\ k <= n => f[k] = g[k]
<1> DEFINE S == {k \in Nat : k <= m /\ k <= n => f[k] = g[k]}
<1>1. /\ \A k \in 0..m : f[k] = IF k = 0 THEN {from} ELSE f[k - 1] \cup Beyond(edges, f[k - 1])
      /\ \A k \in 0..n : g[k] = IF k = 0 THEN {from} ELSE g[k - 1] \cup Beyond(edges, g[k - 1])
  BY DEF Recurs
<1>2. 0 \in S
  <2>1. 0 \in 0..m /\ 0 \in 0..n
    OBVIOUS
  <2> QED
    BY <1>1, <2>1
<1>3. \A k \in Nat : k \in S => k + 1 \in S
  <2> SUFFICES ASSUME NEW k \in Nat, k + 1 <= m, k + 1 <= n, f[k] = g[k]
               PROVE  f[k + 1] = g[k + 1]
    OBVIOUS
  <2> DEFINE l == k + 1
  <2>1. l \in 0..m /\ l \in 0..n /\ l # 0 /\ l - 1 = k
    OBVIOUS
  <2> HIDE DEF l
  <2>2. f[l] = f[l - 1] \cup Beyond(edges, f[l - 1])
    BY <1>1, <2>1
  <2>3. g[l] = g[l - 1] \cup Beyond(edges, g[l - 1])
    BY <1>1, <2>1
  <2>4. f[l] = g[l]
    BY <2>1, <2>2, <2>3
  <2> QED
    BY <2>4 DEF l
<1> HIDE DEF S
<1>4. Nat \subseteq S
  BY <1>2, <1>3, AllNaturals
<1> QED
  BY <1>4 DEF S

Hops(edges, from, n) == CHOOSE f : Recurs(f, n, edges, from)

LEMMA HopsRecurs ==
  ASSUME NEW edges, NEW from, NEW n \in Nat
  PROVE  Recurs(Hops(edges, from, n), n, edges, from) /\ Within(edges, from, n) = Hops(edges, from, n)[n]
<1>1. \E f : Recurs(f, n, edges, from)
  BY RecursExists
<1> QED
  BY <1>1 DEF Hops, Within, Recurs

\* Within counts hops.
LEMMA WithinHops ==
  ASSUME NEW edges, NEW from
  PROVE  /\ Within(edges, from, 0) = {from}
         /\ \A n \in Nat : Within(edges, from, n + 1) = Within(edges, from, n) \cup Beyond(edges, Within(edges, from, n))
<1>1. Within(edges, from, 0) = {from}
  <2>1. Recurs(Hops(edges, from, 0), 0, edges, from) /\ Within(edges, from, 0) = Hops(edges, from, 0)[0]
    BY HopsRecurs
  <2> DEFINE f == Hops(edges, from, 0)
  <2> HIDE DEF f
  <2>2. Recurs(f, 0, edges, from)
    BY <2>1 DEF f
  <2>3. f[0] = {from}
    BY <2>2 DEF Recurs
  <2> QED
    BY <2>1, <2>3 DEF f
<1>2. ASSUME NEW n \in Nat
      PROVE  Within(edges, from, n + 1) = Within(edges, from, n) \cup Beyond(edges, Within(edges, from, n))
  <2> DEFINE f == Hops(edges, from, n)
             g == Hops(edges, from, n + 1)
  <2>1. n + 1 \in Nat /\ n + 1 # 0 /\ (n + 1) - 1 = n /\ n + 1 \in 0..n + 1 /\ n <= n /\ n <= n + 1
    OBVIOUS
  <2>2. /\ Recurs(f, n, edges, from) /\ Within(edges, from, n) = f[n]
        /\ Recurs(g, n + 1, edges, from) /\ Within(edges, from, n + 1) = g[n + 1]
    BY <2>1, HopsRecurs
  <2> HIDE DEF f, g
  <2>3. f[n] = g[n]
    BY <2>1, <2>2, RecursUnique
  <2>4. g[n + 1] = g[n] \cup Beyond(edges, g[n])
    BY <2>1, <2>2 DEF Recurs
  <2> QED
    BY <2>2, <2>3, <2>4
<1> QED
  BY <1>1, <1>2

-----------------------------------------------------------------------------
(* Breadth-first search over a set of edges, where hops[n] are the nodes    *)
(* within n of them.                                                        *)

Counts(edges, hops, from) ==
  /\ hops[0] = {from}
  /\ \A n \in Nat : hops[n + 1] = hops[n] \cup Beyond(edges, hops[n])

\* A path leads on from edge to edge.
Route(p, from) ==
  /\ p # <<>> => p[1].from = from
  /\ \A i \in 1..Len(p) - 1 : p[i].to = p[i + 1].from

\* A queued path leads to a node that was seen and is as near as the path says.
Nearest(p, hops, from, seen) ==
  /\ Route(p, from) /\ EndOfPath(p, from) \in seen
  /\ p # <<>> => EndOfPath(p, from) \notin hops[Len(p) - 1]

\* The paths are queued by length, at most two lengths at a time.
ShortestFirst(q) == \A i, j \in 1..Len(q) : i <= j =>
  Len(q[i]) <= Len(q[j]) /\ Len(q[j]) <= Len(q[i]) + 1

\* Whatever is seen and not queued has been expanded.
Expanded(edges, q, from, seen) == \A t \in edges :
  t.from \in seen => t.to \in seen \/ \E i \in 1..Len(q) : EndOfPath(q[i], from) = t.from

Bfs(edges, hops, from, to, q, seen) ==
  /\ q \in Seq(Seq(edges))
  /\ from \in seen /\ to \notin seen
  /\ \A i \in 1..Len(q) : Nearest(q[i], hops, from, seen)
  /\ ShortestFirst(q) /\ Expanded(edges, q, from, seen)
  /\ q # <<>> => hops[Len(q[1])] \subseteq seen

LEMMA BfsStart ==
  ASSUME NEW edges, NEW hops, NEW from, NEW to, from # to, Counts(edges, hops, from)
  PROVE  Bfs(edges, hops, from, to, << <<>> >>, {from})
<1> DEFINE q == << <<>> >>
<1>1. q \in Seq(Seq(edges)) /\ Len(q) = 1 /\ q[1] = <<>> /\ Len(<<>>) = 0
  OBVIOUS
<1>2. \A i \in 1..Len(q) : i = 1 /\ q[i] = <<>>
  BY <1>1
<1> HIDE DEF q
<1>3. EndOfPath(<<>>, from) = from
  BY DEF EndOfPath
<1>4. Nearest(<<>>, hops, from, {from})
  BY <1>1, <1>3 DEF Nearest, Route
<1>5. ShortestFirst(q)
  BY <1>1, <1>2 DEF ShortestFirst
<1>6. Expanded(edges, q, from, {from})
  BY <1>1, <1>3 DEF Expanded
<1>7. hops[Len(q[1])] \subseteq {from}
  BY <1>1 DEF Counts
<1>8. Bfs(edges, hops, from, to, q, {from})
  BY <1>1, <1>2, <1>4, <1>5, <1>6, <1>7 DEF Bfs
<1> QED
  BY <1>8 DEF q

\* A path with one edge more.
LEMMA LongerPath ==
  ASSUME NEW edges, NEW hops, NEW from, NEW seen, NEW p \in Seq(edges), NEW t \in edges,
         Route(p, from), t.from = EndOfPath(p, from)
  PROVE  /\ Append(p, t) \in Seq(edges) /\ Len(Append(p, t)) = Len(p) + 1 /\ Append(p, t) # <<>>
         /\ Route(Append(p, t), from) /\ EndOfPath(Append(p, t), from) = t.to
         /\ Append(p, t)[1].from = from /\ Last(Append(p, t)) = t
<1> DEFINE r == Append(p, t)
           n == Len(p)
<1>1. /\ n \in Nat /\ r \in Seq(edges) /\ Len(r) = n + 1 /\ r # <<>>
      /\ \A i \in 1..n : r[i] = p[i]
      /\ r[n + 1] = t
  OBVIOUS
<1> HIDE DEF r
<1>2. Last(r) = t
  BY <1>1 DEF Last
<1>3. EndOfPath(r, from) = t.to
  BY <1>1, <1>2 DEF EndOfPath
<1>4. p # <<>> => n >= 1 /\ t.from = p[n].to
  BY DEF EndOfPath, Last
<1>5. p = <<>> => n = 0 /\ t.from = from
  BY DEF EndOfPath
<1>6. r[1].from = from
  <2>1. CASE p = <<>>
    BY <1>1, <1>5, <2>1
  <2>2. CASE p # <<>>
    <3>1. 1 \in 1..n /\ p[1].from = from
      BY <1>1, <1>4, <2>2 DEF Route
    <3> QED
      BY <1>1, <3>1
  <2> QED
    BY <2>1, <2>2
<1>7. \A i \in 1..Len(r) - 1 : r[i].to = r[i + 1].from
  <2> TAKE i \in 1..Len(r) - 1
  <2>1. i \in 1..n
    BY <1>1
  <2>2. CASE i = n
    <3>1. p # <<>>
      BY <1>1, <2>1
    <3> QED
      BY <1>1, <1>4, <2>1, <2>2, <3>1
  <2>3. CASE i # n
    <3>1. i \in 1..Len(p) - 1 /\ i + 1 \in 1..n
      BY <1>1, <2>1, <2>3
    <3>2. p[i].to = p[i + 1].from
      BY <3>1 DEF Route
    <3> QED
      BY <1>1, <2>1, <3>1, <3>2
  <2> QED
    BY <2>2, <2>3
<1> QED
  BY <1>1, <1>2, <1>3, <1>6, <1>7 DEF Route, r

\* The queue once its head is expanded: what was behind it, then one path per
\* edge of order.
Behind(q, order) == Tail(q) \o [i \in DOMAIN order |-> Append(Head(q), order[i])]

LEMMA BehindFacts ==
  ASSUME NEW edges, NEW q \in Seq(Seq(edges)), q # <<>>, NEW order \in Seq(edges)
  PROVE  /\ Behind(q, order) \in Seq(Seq(edges))
         /\ Len(Behind(q, order)) = Len(q) - 1 + Len(order)
         /\ \A i \in 1..Len(q) - 1 : Behind(q, order)[i] = q[i + 1]
         /\ \A j \in 1..Len(order) : Behind(q, order)[Len(q) - 1 + j] = Append(q[1], order[j])
<1> DEFINE more == [i \in DOMAIN order |-> Append(Head(q), order[i])]
           back == Tail(q)
<1>1. /\ Len(q) \in Nat \ {0} /\ Head(q) = q[1] /\ q[1] \in Seq(edges)
      /\ back \in Seq(Seq(edges)) /\ Len(back) = Len(q) - 1
      /\ \A i \in 1..Len(q) - 1 : back[i] = q[i + 1]
  OBVIOUS
<1>2. Len(order) \in Nat /\ DOMAIN order = 1..Len(order) /\ \A j \in 1..Len(order) : order[j] \in edges
  OBVIOUS
<1>3. \A j \in 1..Len(order) : Append(Head(q), order[j]) \in Seq(edges)
  BY <1>1, <1>2
<1>4. /\ more \in Seq(Seq(edges)) /\ Len(more) = Len(order)
      /\ \A j \in 1..Len(order) : more[j] = Append(q[1], order[j])
  <2>1. more = [i \in 1..Len(order) |-> Append(Head(q), order[i])]
    BY <1>2
  <2> HIDE DEF more
  <2>2. more \in [1..Len(order) -> Seq(edges)]
    BY <1>3, <2>1
  <2> QED
    BY <1>1, <1>2, <2>1, <2>2
<1> HIDE DEF more, back
<1>5. /\ back \o more \in Seq(Seq(edges)) /\ Len(back \o more) = Len(back) + Len(more)
      /\ \A i \in 1..Len(back) : (back \o more)[i] = back[i]
      /\ \A j \in 1..Len(more) : (back \o more)[Len(back) + j] = more[j]
  <2>1. /\ back \o more \in Seq(Seq(edges)) /\ Len(back \o more) = Len(back) + Len(more)
        /\ \A i \in 1..Len(back) + Len(more) :
             (back \o more)[i] = IF i <= Len(back) THEN back[i] ELSE more[i - Len(back)]
    BY <1>1, <1>4, ConcatProperties
  <2>2. Len(back) \in Nat /\ Len(more) \in Nat
    BY <1>1, <1>2, <1>4
  <2>3. \A i \in 1..Len(back) : i \in 1..Len(back) + Len(more) /\ i <= Len(back)
    BY <2>2
  <2>4. \A j \in 1..Len(more) : /\ Len(back) + j \in 1..Len(back) + Len(more)
                               /\ ~(Len(back) + j <= Len(back)) /\ (Len(back) + j) - Len(back) = j
    BY <2>2
  <2> QED
    BY <2>1, <2>3, <2>4
<1>6. Behind(q, order) = back \o more
  BY DEF Behind, more, back
<1> QED
  BY <1>1, <1>2, <1>4, <1>5, <1>6

\* Every new node is one hop farther than the head; the hops come in order.
LEMMA BfsExpand ==
  ASSUME NEW edges, NEW hops, NEW from, NEW to, NEW q, NEW seen, NEW order \in Seq(edges),
         Counts(edges, hops, from), Bfs(edges, hops, from, to, q, seen), q # <<>>,
         \A t \in edges : (\E j \in 1..Len(order) : order[j] = t)
                          <=> t.from = EndOfPath(Head(q), from) /\ t.to \notin seen,
         \A j \in 1..Len(order) : order[j].to # to
  PROVE  Bfs(edges, hops, from, to, Behind(q, order),
             seen \cup {order[j].to : j \in 1..Len(order)})
<1> DEFINE n == Behind(q, order)
           wider == seen \cup {order[j].to : j \in 1..Len(order)}
           d == Len(q[1])
           m == Len(q)
           k == Len(order)
<1>1. /\ q \in Seq(Seq(edges)) /\ from \in seen /\ to \notin seen
      /\ \A i \in 1..m : Nearest(q[i], hops, from, seen)
      /\ ShortestFirst(q) /\ Expanded(edges, q, from, seen)
      /\ hops[d] \subseteq seen
  BY DEF Bfs
<1>2. m \in Nat \ {0} /\ k \in Nat /\ d \in Nat /\ Head(q) = q[1] /\ q[1] \in Seq(edges) /\ 1 \in 1..m
  BY <1>1
<1>3. /\ n \in Seq(Seq(edges)) /\ Len(n) = m - 1 + k
      /\ \A i \in 1..m - 1 : n[i] = q[i + 1]
      /\ \A j \in 1..k : n[m - 1 + j] = Append(q[1], order[j])
  BY <1>1, BehindFacts
<1> HIDE DEF n, wider
<1>4. seen \subseteq wider /\ \A j \in 1..k : order[j].to \in wider
  BY DEF wider
<1>5. \A x \in wider : x \in seen \/ \E j \in 1..k : x = order[j].to
  BY DEF wider
<1>6. \A i \in 1..Len(n) : i \in 1..m - 1 \/ \E j \in 1..k : i = m - 1 + j
  <2> TAKE i \in 1..Len(n)
  <2>1. CASE i \in 1..m - 1
    BY <2>1
  <2>2. CASE i \notin 1..m - 1
    <3>1. i - (m - 1) \in 1..k /\ i = m - 1 + (i - (m - 1))
      BY <1>2, <1>3, <2>2
    <3> QED
      BY <3>1
  <2> QED
    BY <2>1, <2>2
<1>7. \A j \in 1..k : /\ order[j] \in edges /\ order[j].from = EndOfPath(q[1], from)
                      /\ order[j].to \notin seen
  BY <1>2
<1>8. \A j \in 1..k : LET p == Append(q[1], order[j]) IN
        /\ Len(p) = d + 1 /\ p # <<>> /\ Route(p, from)
        /\ EndOfPath(p, from) = order[j].to /\ EndOfPath(p, from) \notin hops[d]
  <2> TAKE j \in 1..k
  <2> DEFINE p == Append(q[1], order[j])
  <2>1. Route(q[1], from)
    BY <1>1, <1>2 DEF Nearest
  <2>2. Len(p) = d + 1 /\ p # <<>> /\ Route(p, from) /\ EndOfPath(p, from) = order[j].to
    <3>1. PICK r, t : r = q[1] /\ t = order[j]
      OBVIOUS
    <3>2. r \in Seq(edges) /\ t \in edges /\ Route(r, from) /\ t.from = EndOfPath(r, from)
      BY <1>2, <1>7, <2>1, <3>1
    <3>3. /\ Len(Append(r, t)) = Len(r) + 1 /\ Append(r, t) # <<>>
          /\ Route(Append(r, t), from) /\ EndOfPath(Append(r, t), from) = t.to
      BY <3>2, LongerPath
    <3> QED
      BY <3>1, <3>3
  <2> HIDE DEF p
  <2>3. EndOfPath(p, from) \notin hops[d]
    BY <1>1, <1>7, <2>2
  <2> QED
    BY <2>2, <2>3 DEF p
<1>9. \A i \in 1..m - 1 : i + 1 \in 1..m /\ n[i] = q[i + 1] /\ Len(n[i]) \in d..d + 1
  <2> TAKE i \in 1..m - 1
  <2>1. i + 1 \in 1..m /\ n[i] = q[i + 1] /\ q[i + 1] \in Seq(edges) /\ Len(q[i + 1]) \in Nat
    BY <1>1, <1>2, <1>3
  <2>2. d <= Len(q[i + 1]) /\ Len(q[i + 1]) <= d + 1
    BY <1>1, <1>2, <2>1 DEF ShortestFirst
  <2> QED
    BY <1>2, <2>1, <2>2
<1>10. \A i \in 1..Len(n) : Nearest(n[i], hops, from, wider)
  <2> TAKE i \in 1..Len(n)
  <2>1. CASE i \in 1..m - 1
    <3>1. Nearest(q[i + 1], hops, from, seen) /\ n[i] = q[i + 1]
      BY <1>1, <1>9, <2>1
    <3> QED
      BY <1>4, <3>1 DEF Nearest
  <2>2. ASSUME NEW j \in 1..k, i = m - 1 + j PROVE Nearest(n[i], hops, from, wider)
    <3> DEFINE p == Append(q[1], order[j])
    <3>1. n[i] = p /\ Len(p) = d + 1 /\ Route(p, from) /\ EndOfPath(p, from) = order[j].to /\ EndOfPath(p, from) \notin hops[d]
      BY <1>3, <1>8, <2>2
    <3> HIDE DEF p
    <3>2. Len(p) - 1 = d /\ EndOfPath(p, from) \in wider
      BY <1>2, <1>4, <3>1
    <3> QED
      BY <3>1, <3>2 DEF Nearest
  <2> QED
    BY <1>6, <2>1, <2>2
<1>11. \A i \in 1..Len(n) : (i \in 1..m - 1 /\ Len(n[i]) \in d..d + 1) \/ (i >= m /\ Len(n[i]) = d + 1)
  <2> TAKE i \in 1..Len(n)
  <2>1. ASSUME NEW j \in 1..k, i = m - 1 + j PROVE i >= m /\ Len(n[i]) = d + 1
    <3>1. i >= m
      BY <1>2, <2>1
    <3>2. n[i] = Append(q[1], order[j])
      BY <1>3, <2>1
    <3> QED
      BY <1>8, <3>1, <3>2
  <2> QED
    BY <1>6, <1>9, <2>1
<1>12. ShortestFirst(n)
  <2> SUFFICES ASSUME NEW i \in 1..Len(n), NEW j \in 1..Len(n), i <= j
               PROVE  Len(n[i]) <= Len(n[j]) /\ Len(n[j]) <= Len(n[i]) + 1
    BY DEF ShortestFirst
  <2>1. CASE j \in 1..m - 1
    <3>1. i \in 1..m - 1 /\ i + 1 \in 1..m /\ j + 1 \in 1..m /\ i + 1 <= j + 1
      BY <1>2, <2>1
    <3>2. n[i] = q[i + 1] /\ n[j] = q[j + 1]
      BY <1>9, <2>1, <3>1
    <3> QED
      BY <1>1, <3>1, <3>2 DEF ShortestFirst
  <2>2. CASE j \notin 1..m - 1
    <3>1. Len(n[j]) = d + 1 /\ Len(n[i]) \in d..d + 1
      BY <1>2, <1>11, <2>2
    <3> QED
      BY <1>2, <3>1
  <2> QED
    BY <2>1, <2>2
<1>13. Expanded(edges, n, from, wider)
  <2> SUFFICES ASSUME NEW t \in edges, t.from \in wider, t.to \notin wider
               PROVE  \E i \in 1..Len(n) : EndOfPath(n[i], from) = t.from
    BY DEF Expanded
  <2>1. ASSUME NEW j \in 1..k, t.from = order[j].to
        PROVE  \E i \in 1..Len(n) : EndOfPath(n[i], from) = t.from
    <3>1. m - 1 + j \in 1..Len(n)
      <4> HIDE DEF k, m
      <4> QED
        BY <1>2, <1>3
    <3>3. n[m - 1 + j] = Append(q[1], order[j])
      BY <1>3
    <3>2. EndOfPath(n[m - 1 + j], from) = t.from
      BY <1>8, <2>1, <3>3
    <3> QED
      BY <3>1, <3>2
  <2>2. CASE t.from \in seen
    <3>1. t.to \notin seen
      BY <1>4
    <3>2. PICK i \in 1..m : EndOfPath(q[i], from) = t.from
      BY <1>1, <2>2, <3>1 DEF Expanded
    <3>3. i # 1
      <4> SUFFICES ASSUME i = 1 PROVE FALSE
        OBVIOUS
      <4>1. PICK j \in 1..k : order[j] = t
        BY <1>2, <3>1, <3>2
      <4> QED
        BY <1>4, <4>1
    <3>4. i - 1 \in 1..m - 1 /\ i - 1 \in 1..Len(n) /\ (i - 1) + 1 = i
      BY <1>2, <1>3, <3>3
    <3>5. n[i - 1] = q[i]
      BY <1>9, <3>4
    <3> QED
      BY <3>2, <3>4, <3>5
  <2> QED
    BY <1>5, <2>1, <2>2
<1>14. n # <<>> => hops[Len(n[1])] \subseteq wider
  <2> SUFFICES ASSUME n # <<>> PROVE hops[Len(n[1])] \subseteq wider
    OBVIOUS
  <2>1. 1 \in 1..Len(n) /\ Len(n[1]) \in d..d + 1
    <3>1. 1 \in 1..Len(n)
      BY <1>3
    <3> QED
      BY <1>2, <1>11, <3>1
  <2>2. CASE Len(n[1]) = d
    BY <1>1, <1>4, <2>2
  <2>3. CASE Len(n[1]) = d + 1
    <3>1. \A i \in 1..Len(n) : n[i] # <<>> /\ EndOfPath(n[i], from) \notin hops[d]
      <4> TAKE i \in 1..Len(n)
      <4>1. 1 <= i /\ Len(n[i]) \in d..d + 1
        BY <1>2, <1>11
      <4>2. Len(n[1]) <= Len(n[i])
        BY <1>12, <2>1, <4>1 DEF ShortestFirst
      <4>3. Len(n[i]) = d + 1 /\ n[i] \in Seq(edges)
        BY <1>2, <1>3, <2>3, <4>1, <4>2
      <4>4. n[i] # <<>> /\ Len(n[i]) - 1 = d
        BY <1>2, <4>3
      <4> QED
        BY <1>10, <4>4 DEF Nearest
    <3>2. hops[d + 1] = hops[d] \cup {t.to : t \in {u \in edges : u.from \in hops[d]}}
      BY <1>2 DEF Counts, Beyond
    <3>3. ASSUME NEW t \in edges, t.from \in hops[d] PROVE t.to \in wider
      <4>1. t.from \in wider
        BY <1>1, <1>4, <3>3
      <4> QED
        BY <1>13, <3>1, <3>3, <4>1 DEF Expanded
    <3> QED
      BY <1>1, <1>4, <2>3, <3>2, <3>3
  <2> QED
    BY <1>2, <2>1, <2>2, <2>3
<1>15. from \in wider /\ to \notin wider
  BY <1>1, <1>4, <1>5
<1>16. Bfs(edges, hops, from, to, n, wider)
  BY <1>3, <1>10, <1>12, <1>13, <1>14, <1>15 DEF Bfs
<1> QED
  BY <1>16 DEF n, wider

\* An edge from the head to the target makes a shortest chain.
LEMMA BfsHit ==
  ASSUME NEW edges, NEW hops, NEW from, NEW to, NEW q, NEW seen, NEW t \in edges,
         Bfs(edges, hops, from, to, q, seen), q # <<>>,
         t.from = EndOfPath(Head(q), from), t.to = to
  PROVE  LET p == Append(Head(q), t) IN
         /\ p \in Seq(edges) /\ Chained(p, from, to) /\ ToSet(p) \subseteq edges
         /\ to \notin hops[Len(p) - 1]
<1> DEFINE p == Append(Head(q), t)
<1>1. /\ q \in Seq(Seq(edges)) /\ to \notin seen /\ Route(q[1], from)
      /\ hops[Len(q[1])] \subseteq seen /\ Head(q) = q[1] /\ q[1] \in Seq(edges) /\ Len(q[1]) \in Nat
  <2>1. q \in Seq(Seq(edges)) /\ 1 \in 1..Len(q)
    BY DEF Bfs
  <2> QED
    BY <2>1 DEF Bfs, Nearest
<1>2. /\ p \in Seq(edges) /\ Len(p) = Len(q[1]) + 1 /\ p # <<>> /\ Route(p, from)
      /\ p[1].from = from /\ Last(p) = t
  BY <1>1, LongerPath
<1> HIDE DEF p
<1>3. Len(p) - 1 = Len(q[1])
  BY <1>1, <1>2
<1>4. to \notin hops[Len(p) - 1]
  BY <1>1, <1>3
<1>5. Chained(p, from, to)
  BY <1>2 DEF Chained, Route
<1>6. ToSet(p) \subseteq edges
  BY <1>2 DEF ToSet
<1> QED
  BY <1>2, <1>4, <1>5, <1>6 DEF p

\* An empty queue means that nothing more can be reached.
LEMMA BfsExhausted ==
  ASSUME NEW edges, NEW hops, NEW from, NEW to, NEW seen,
         Counts(edges, hops, from), Bfs(edges, hops, from, to, <<>>, seen)
  PROVE  \A n \in Nat : to \notin hops[n]
<1> DEFINE S == {n \in Nat : hops[n] \subseteq seen}
<1>1. from \in seen /\ to \notin seen /\ \A t \in edges : t.from \in seen => t.to \in seen
  <2>1. 1..Len(<<>>) = {}
    OBVIOUS
  <2> QED
    BY <2>1 DEF Bfs, Expanded
<1>2. 0 \in S
  BY <1>1 DEF Counts
<1>3. \A n \in Nat : n \in S => n + 1 \in S
  BY <1>1 DEF Counts, Beyond
<1> HIDE DEF S
<1>4. Nat \subseteq S
  BY <1>2, <1>3, AllNaturals
<1> QED
  BY <1>1, <1>4 DEF S

-----------------------------------------------------------------------------
(* The registry under its lock *)

HopsOf(edges, from) == [n \in Nat |-> Within(edges, from, n)]

LEMMA HopsCount ==
  ASSUME NEW edges, NEW from
  PROVE  Counts(edges, HopsOf(edges, from), from)
<1>1. \A n \in Nat : HopsOf(edges, from)[n] = Within(edges, from, n) /\ n + 1 \in Nat
  BY DEF HopsOf
<1>2. 0 \in Nat
  OBVIOUS
<1> QED
  BY <1>1, <1>2, WithinHops DEF Counts

\* The edges of a node, in the order the map yields them.
LEMMA OrderFacts ==
  ASSUME NEW edges, IsFiniteSet(edges), NEW S \in SUBSET edges, NEW order \in SetToSeqs(S)
  PROVE  /\ order \in Seq(edges)
         /\ \A t : (\E j \in 1..Len(order) : order[j] = t) <=> t \in S
<1> DEFINE n == Cardinality(S)
<1>1. IsFiniteSet(S) /\ n \in Nat
  BY FS_Subset, FS_CardinalityType
<1>2. order \in [1..n -> S] /\ \A i, j \in 1..n : i # j => order[i] # order[j]
  BY DEF SetToSeqs
<1> HIDE DEF n
<1>3. order \in Injection(1..n, S)
  BY <1>2 DEF Injection, IsInjective
<1>4. Cardinality(1..n) = n
  <2>1. 1 \in Int /\ n \in Int /\ n - 1 + 1 = n /\ (1 > n => n = 0)
    BY <1>1
  <2> QED
    BY <2>1, FS_Interval
<1>5. order \in Surjection(1..n, S)
  BY <1>1, <1>3, <1>4, FS_Injection DEF n
<1>6. order \in Seq(edges) /\ Len(order) = n
  BY <1>1, <1>2
<1>7. \A t \in S : \E j \in 1..n : order[j] = t
  BY <1>5 DEF Surjection
<1> QED
  BY <1>2, <1>6, <1>7

Shapes ==
  /\ byEdge \in SUBSET Transformers
  /\ job \in [Procs -> Jobs]
  /\ goal = [g \in Procs |-> goal[g]] /\ queue = [g \in Procs |-> queue[g]]
  /\ visited = [g \in Procs |-> visited[g]] /\ path = [g \in Procs |-> path[g]]

\* Who holds the mutex for reading, and who waits for it.
Locks ==
  /\ \A g \in Procs : job[g] = "search" <=> g \in readers
  /\ \A g \in Procs : job[g] = "blocked" <=> g \in blocked

\* A search that has not begun, and one that has.
Fresh(g) ==
  goal[g][1] # goal[g][2] /\ queue[g] = << <<>> >> /\ visited[g] = {goal[g][1]}
Searching(g) ==
  Bfs(byEdge, HopsOf(byEdge, goal[g][1]), goal[g][1], goal[g][2], queue[g], visited[g])

Searches == \A g \in Procs :
  /\ job[g] \in {"ask", "blocked"} => Fresh(g)
  /\ job[g] = "search" => Searching(g)
  /\ job[g] = "write" => goal[g] \in Transformers

RInv == Shapes /\ Locks /\ Searches

LEMMA RInvInit == RegistryInit => RInv
BY RegistryAssumption DEF RegistryInit, RInv, Shapes, Locks, Searches, Jobs

\* What a step leaves alone keeps its part of the invariant.
LEMMA SameSearch ==
  ASSUME NEW g \in Procs, UNCHANGED <<goal[g], queue[g], visited[g]>>
  PROVE  /\ Fresh(g)' = Fresh(g)
         /\ byEdge' = byEdge => Searching(g)' = Searching(g)
BY DEF Fresh, Searching

LEMMA SearchBegins ==
  ASSUME NEW g \in Procs, Fresh(g), UNCHANGED <<goal[g], queue[g], visited[g]>>
  PROVE  Searching(g)'
<1>1. /\ goal'[g][1] # goal'[g][2] /\ queue'[g] = << <<>> >> /\ visited'[g] = {goal'[g][1]}
  BY DEF Fresh
<1>2. Bfs(byEdge', HopsOf(byEdge', goal'[g][1]), goal'[g][1], goal'[g][2], << <<>> >>, {goal'[g][1]})
  BY <1>1, HopsCount, BfsStart
<1> QED
  BY <1>1, <1>2 DEF Searching

LEMMA AskRInv ==
  ASSUME RInv, NEW g \in Procs, NEW from, NEW to, Ask(g, from, to)
  PROVE  RInv'
<1>1. job[g] = "none" /\ UNCHANGED <<byEdge, readers, blocked>>
  BY DEF Ask, mutex
<1>2. CASE from = to
  <2>1. /\ UNCHANGED <<byEdge, readers, blocked, goal, queue, visited, job>>
        /\ path' = [path EXCEPT ![g] = <<>>]
    BY <1>1, <1>2 DEF Ask
  <2>2. Shapes' /\ Locks'
    BY <2>1 DEF RInv, Shapes, Locks
  <2>3. Searches'
    BY <2>1, SameSearch DEF RInv, Searches
  <2> QED
    BY <2>2, <2>3 DEF RInv
<1>3. CASE from # to
  <2>1. /\ goal' = [goal EXCEPT ![g] = <<from, to>>] /\ queue' = [queue EXCEPT ![g] = << <<>> >>]
        /\ visited' = [visited EXCEPT ![g] = {from}] /\ path' = [path EXCEPT ![g] = NoPath]
        /\ job' = [job EXCEPT ![g] = "ask"]
    BY <1>3 DEF Ask, Do
  <2>2. Shapes'
    BY <1>1, <2>1 DEF RInv, Shapes, Jobs
  <2>3. Locks'
    BY <1>1, <2>1 DEF RInv, Shapes, Locks
  <2>4. Fresh(g)'
    <3>1. goal'[g] = <<from, to>> /\ queue'[g] = << <<>> >> /\ visited'[g] = {from}
      BY <2>1 DEF RInv, Shapes
    <3> QED
      BY <1>3, <3>1 DEF Fresh
  <2>5. ASSUME NEW h \in Procs, h # g
        PROVE  job'[h] = job[h] /\ UNCHANGED <<goal[h], queue[h], visited[h]>>
    BY <2>1, <2>5 DEF RInv, Shapes
  <2>6. job'[g] = "ask"
    BY <2>1 DEF RInv, Shapes
  <2>7. Searches'
    BY <1>1, <2>4, <2>5, <2>6, SameSearch DEF RInv, Searches
  <2> QED
    BY <2>2, <2>3, <2>7 DEF RInv
<1> QED
  BY <1>2, <1>3

LEMMA RegisterRInv ==
  ASSUME RInv, NEW g \in Procs, NEW t \in Transformers, Register(g, t)
  PROVE  RInv'
<1>1. /\ job[g] = "none" /\ UNCHANGED <<byEdge, readers, blocked, queue, visited, path>>
      /\ goal' = [goal EXCEPT ![g] = t] /\ job' = [job EXCEPT ![g] = "write"]
  BY DEF Register, Do
<1>2. Shapes'
  BY <1>1 DEF RInv, Shapes, Jobs
<1>3. Locks'
  BY <1>1 DEF RInv, Shapes, Locks
<1>4. ASSUME NEW h \in Procs, h # g
      PROVE  job'[h] = job[h] /\ UNCHANGED <<goal[h], queue[h], visited[h]>>
  BY <1>1, <1>4 DEF RInv, Shapes
<1>5. job'[g] = "write" /\ goal'[g] = t
  BY <1>1 DEF RInv, Shapes
<1>6. Searches'
  BY <1>1, <1>4, <1>5, SameSearch DEF RInv, Searches
<1> QED
  BY <1>2, <1>3, <1>6 DEF RInv

\* Nobody searches while the edges change; who was kept out begins now.
LEMMA WriteRInv ==
  ASSUME RInv, NEW g \in Procs, Write(g)
  PROVE  RInv'
<1>1. /\ job[g] = "write" /\ readers = {}
      /\ byEdge' = {t \in byEdge : Edge(t) # Edge(goal[g])} \cup {goal[g]}
      /\ readers' = blocked /\ blocked' = {}
      /\ goal' = [goal EXCEPT ![g] = <<>>] /\ UNCHANGED <<queue, visited, path>>
      /\ job' = [p \in Procs |-> IF p = g THEN "none"
                                 ELSE IF p \in blocked THEN "search" ELSE job[p]]
  BY DEF Write, Locked
<1>2. \A h \in Procs : job[h] # "search" /\ (job[h] = "blocked" <=> h \in blocked)
  BY <1>1 DEF RInv, Locks
<1>3. /\ job'[g] = "none"
      /\ \A h \in Procs : h # g => job'[h] = IF h \in blocked THEN "search" ELSE job[h]
  BY <1>1
<1>4. Shapes'
  <2>1. byEdge' \in SUBSET Transformers
    BY <1>1 DEF RInv, Shapes, Searches
  <2>2. job' \in [Procs -> Jobs]
    BY <1>1 DEF RInv, Shapes, Jobs
  <2>3. goal' = [h \in Procs |-> goal'[h]]
    BY <1>1 DEF RInv, Shapes
  <2> QED
    BY <1>1, <2>1, <2>2, <2>3 DEF RInv, Shapes
<1>5. Locks'
  BY <1>1, <1>2, <1>3 DEF Locks
<1>6. ASSUME NEW h \in Procs
      PROVE  /\ job'[h] \in {"ask", "blocked"} => Fresh(h)'
             /\ job'[h] = "search" => Searching(h)'
             /\ job'[h] = "write" => goal'[h] \in Transformers
  <2>1. CASE h = g
    BY <1>3, <2>1
  <2>2. CASE h # g
    <3>1. UNCHANGED <<goal[h], queue[h], visited[h]>>
      BY <1>1, <2>2 DEF RInv, Shapes
    <3>2. job[h] \in {"ask", "blocked"} => Fresh(h)
      BY DEF RInv, Searches
    <3>3. job'[h] \in {"ask", "blocked"} => Fresh(h)'
      BY <1>2, <1>3, <2>2, <3>1, <3>2, SameSearch
    <3>4. job'[h] = "search" => Searching(h)'
      BY <1>2, <1>3, <2>2, <3>1, <3>2, SearchBegins
    <3>5. job'[h] = "write" => goal'[h] \in Transformers
      BY <1>3, <2>2, <3>1 DEF RInv, Searches
    <3> QED
      BY <3>3, <3>4, <3>5
  <2> QED
    BY <2>1, <2>2
<1> QED
  BY <1>4, <1>5, <1>6 DEF RInv, Searches

LEMMA ReadLockRInv ==
  ASSUME RInv, NEW g \in Procs, ReadLock(g)
  PROVE  RInv'
<1>1. /\ job[g] = "ask" /\ UNCHANGED <<byEdge, goal, queue, visited, path>>
      /\ \/ job' = [job EXCEPT ![g] = "search"] /\ readers' = readers \cup {g} /\ blocked' = blocked
         \/ job' = [job EXCEPT ![g] = "blocked"] /\ blocked' = blocked \cup {g} /\ readers' = readers
  BY DEF ReadLock, Do, search
<1>2. Shapes'
  BY <1>1 DEF RInv, Shapes, Jobs
<1>3. Locks'
  BY <1>1 DEF RInv, Shapes, Locks
<1>4. \A h \in Procs : UNCHANGED <<goal[h], queue[h], visited[h]>> /\ (h # g => job'[h] = job[h])
  BY <1>1 DEF RInv, Shapes
<1>5. Fresh(g)
  BY <1>1 DEF RInv, Searches
<1>6. job'[g] \in {"search", "blocked"} /\ Fresh(g)' /\ Searching(g)'
  BY <1>1, <1>4, <1>5, SameSearch, SearchBegins DEF RInv, Shapes
<1>7. Searches'
  BY <1>1, <1>4, <1>6, SameSearch DEF RInv, Searches
<1> QED
  BY <1>2, <1>3, <1>7 DEF RInv

LEMMA FoundRInv ==
  ASSUME RInv, NEW g \in Procs, job[g] = "search", NEW p, Found(g, p)
  PROVE  RInv' /\ path'[g] = p /\ job'[g] = "none"
<1>1. /\ UNCHANGED <<byEdge, blocked>> /\ readers' = readers \ {g}
      /\ path' = [path EXCEPT ![g] = p] /\ queue' = [queue EXCEPT ![g] = <<>>]
      /\ visited' = [visited EXCEPT ![g] = {}] /\ goal' = [goal EXCEPT ![g] = <<>>]
      /\ job' = [job EXCEPT ![g] = "none"]
  BY DEF Found, Do
<1>2. Shapes'
  BY <1>1 DEF RInv, Shapes, Jobs
<1>3. Locks'
  BY <1>1 DEF RInv, Shapes, Locks
<1>4. job'[g] = "none" /\ path'[g] = p
  BY <1>1 DEF RInv, Shapes
<1>5. ASSUME NEW h \in Procs, h # g
      PROVE  job'[h] = job[h] /\ UNCHANGED <<goal[h], queue[h], visited[h]>>
  BY <1>1, <1>5 DEF RInv, Shapes
<1>6. Searches'
  BY <1>1, <1>4, <1>5, SameSearch DEF RInv, Searches
<1> QED
  BY <1>2, <1>3, <1>4, <1>6 DEF RInv

\* What a search finds, stated of the moment it ends.
Ends(g) == job[g] = "search" /\ job'[g] = "none" => ShortestNow(g, path'[g])

LEMMA ExpandRInv ==
  ASSUME RInv, NEW g \in Procs, Expand(g)
  PROVE  RInv' /\ Ends(g)
<1> DEFINE from == goal[g][1]
           to == goal[g][2]
           q == queue[g]
           seen == visited[g]
           hops == HopsOf(byEdge, from)
           onward == Onward(g, Head(q))
           hit == {t \in onward : t.to = to}
<1>1. job[g] = "search" /\ q # <<>>
  BY DEF Expand
<1>2. Bfs(byEdge, hops, from, to, q, seen) /\ Counts(byEdge, hops, from)
  BY <1>1, HopsCount DEF RInv, Searches, Searching
<1>3. onward = {t \in byEdge : t.from = EndOfPath(Head(q), from) /\ t.to \notin seen}
  BY DEF Onward
<1>4. byEdge \in SUBSET Transformers /\ IsFiniteSet(byEdge)
  BY RegistryAssumption, FS_Subset DEF RInv, Shapes
<1>5. CASE hit # {}
  <2>1. PICK t \in hit : Found(g, Append(Head(q), t))
    BY <1>5 DEF Expand
  <2> DEFINE p == Append(Head(q), t)
  <2>2. t \in byEdge /\ t.from = EndOfPath(Head(q), from) /\ t.to = to
    BY <1>3
  <2> HIDE DEF hops, from, to, q, seen, onward, hit
  <2>3. p \in Seq(byEdge) /\ Chained(p, from, to) /\ ToSet(p) \subseteq byEdge /\ to \notin hops[Len(p) - 1]
    BY <1>1, <1>2, <2>2, BfsHit
  <2>4. RInv' /\ path'[g] = p /\ job'[g] = "none"
    BY <1>1, <2>1, FoundRInv
  <2> HIDE DEF p
  <2>5. p # NoPath
    <3>1. p \in Seq(Transformers)
      BY <1>4, <2>3
    <3> QED
      BY <3>1, RegistryAssumption
  <2>6. Len(p) - 1 \in Nat
    BY <2>3 DEF Chained
  <2>7. hops[Len(p) - 1] = Within(byEdge, from, Len(p) - 1)
    BY <2>6 DEF hops, HopsOf
  <2>8. ShortestNow(g, p)
    BY <2>3, <2>5, <2>7 DEF ShortestNow, from, to
  <2> QED
    BY <2>4, <2>8 DEF Ends
<1>6. CASE hit = {}
  <2>1. PICK order \in SetToSeqs(onward) :
          queue' = [queue EXCEPT ![g] = Tail(@) \o [i \in DOMAIN order |-> Append(Head(q), order[i])]]
    BY <1>6 DEF Expand
  <2>2. /\ visited' = [visited EXCEPT ![g] = @ \cup {t.to : t \in onward}]
        /\ UNCHANGED <<byEdge, readers, blocked, job, goal, path>>
    BY <1>6 DEF Expand, mutex
  <2>3. queue'[g] = Behind(q, order) /\ visited'[g] = seen \cup {t.to : t \in onward}
    BY <2>1, <2>2 DEF RInv, Shapes, Behind
  <2>4. onward \in SUBSET byEdge /\ \A t \in onward : t.to # to
    BY <1>3, <1>6
  <2> HIDE DEF hops, from, to, q, seen, onward, hit
  <2>5. order \in Seq(byEdge) /\ \A t : (\E j \in 1..Len(order) : order[j] = t) <=> t \in onward
    BY <1>4, <2>4, OrderFacts
  <2>6. {t.to : t \in onward} = {order[j].to : j \in 1..Len(order)}
    BY <2>5
  <2>7. \A t \in byEdge : (\E j \in 1..Len(order) : order[j] = t)
                          <=> t.from = EndOfPath(Head(q), from) /\ t.to \notin seen
    BY <1>3, <2>5
  <2>8. \A j \in 1..Len(order) : order[j].to # to
    BY <2>4, <2>5
  <2>9. Bfs(byEdge, hops, from, to, Behind(q, order), seen \cup {order[j].to : j \in 1..Len(order)})
    BY <1>1, <1>2, <2>5, <2>7, <2>8, BfsExpand
  <2>10. Searching(g)'
    BY <2>2, <2>3, <2>6, <2>9 DEF Searching, hops, from, to
  <2>11. Shapes' /\ Locks'
    BY <2>1, <2>2 DEF RInv, Shapes, Locks
  <2>12. ASSUME NEW h \in Procs, h # g
         PROVE  job'[h] = job[h] /\ UNCHANGED <<goal[h], queue[h], visited[h]>>
    BY <2>1, <2>2, <2>12 DEF RInv, Shapes
  <2>13. Searches'
    BY <1>1, <2>2, <2>10, <2>12, SameSearch DEF RInv, Searches
  <2>14. job'[g] = "search"
    BY <1>1, <2>2
  <2> QED
    BY <2>11, <2>13, <2>14 DEF RInv, Ends
<1> QED
  BY <1>5, <1>6

LEMMA ExhaustedRInv ==
  ASSUME RInv, NEW g \in Procs, Exhausted(g)
  PROVE  RInv' /\ Ends(g)
<1> DEFINE from == goal[g][1]
           to == goal[g][2]
           hops == HopsOf(byEdge, from)
<1>1. job[g] = "search" /\ queue[g] = <<>> /\ Found(g, NoPath)
  BY DEF Exhausted
<1>2. Bfs(byEdge, hops, from, to, <<>>, visited[g]) /\ Counts(byEdge, hops, from)
  BY <1>1, HopsCount DEF RInv, Searches, Searching
<1>3. RInv' /\ path'[g] = NoPath
  BY <1>1, FoundRInv
<1>4. Cardinality(Mimes) \in Nat
  BY RegistryAssumption, FS_CardinalityType
<1> HIDE DEF hops
<1>5. to \notin hops[Cardinality(Mimes)]
  BY <1>2, <1>4, BfsExhausted
<1>6. to \notin Within(byEdge, from, Cardinality(Mimes))
  BY <1>4, <1>5 DEF hops, HopsOf
<1> QED
  BY <1>3, <1>6 DEF Ends, ShortestNow

-----------------------------------------------------------------------------
(* The registry as a part of OpenAs *)

\* The caller drops what it got.
Forget(g) ==
  /\ path' = [path EXCEPT ![g] = NoPath]
  /\ UNCHANGED <<byEdge, mutex, job, goal, queue, visited>>

RegistryMoves(g) ==
  \/ \E from, to : Ask(g, from, to)
  \/ \E t \in Transformers : Register(g, t)
  \/ Write(g) \/ ReadLock(g) \/ Expand(g) \/ Exhausted(g) \/ Forget(g)

LEMMA MovesOfNext ==
  ASSUME Next
  PROVE  (\E g \in Procs : RegistryMoves(g)) \/ UNCHANGED registry
<1>1. PICK g \in Procs : Begin(g) \/ Running(g) \/ Extend(g) \/ Finish(g)
  BY DEF Next
<1>2. CASE Begin(g)
  BY <1>2 DEF Begin, RegistryMoves
<1>3. CASE Running(g)
  BY <1>3 DEF Running, RegistryStep, InRegistry, OpenRaw, OpenTranscode, OpenPath, Transform,
              TransformsDone, Encode, RegistryMoves
<1>4. CASE Extend(g)
  BY <1>4, ResourcesAssumption DEF Extend, RegistryMoves
<1>5. CASE Finish(g)
  BY <1>5 DEF Finish, Forget, RegistryMoves
<1> QED
  BY <1>1, <1>2, <1>3, <1>4, <1>5

LEMMA QuietRInv ==
  ASSUME RInv, UNCHANGED <<byEdge, mutex, job, goal, queue, visited>>,
         path' = [g \in Procs |-> path'[g]]
  PROVE  RInv' /\ \A g \in Procs : Ends(g)
<1>1. Shapes' /\ Locks'
  BY DEF RInv, Shapes, Locks, mutex
<1>2. Searches'
  BY SameSearch DEF RInv, Searches
<1>3. \A g \in Procs : Ends(g)
  BY DEF Ends
<1> QED
  BY <1>1, <1>2, <1>3 DEF RInv

LEMMA StepRInv ==
  ASSUME RInv, [Next]_registry
  PROVE  RInv' /\ \A h \in Procs : Ends(h)
<1>1. ASSUME UNCHANGED registry PROVE RInv' /\ \A h \in Procs : Ends(h)
  BY <1>1, QuietRInv DEF registry, search, RInv, Shapes
<1>2. ASSUME NEW g \in Procs, RegistryMoves(g) PROVE RInv' /\ \A h \in Procs : Ends(h)
  <2>0. job \in [Procs -> Jobs]
    BY DEF RInv, Shapes
  <2>1. ASSUME NEW from, NEW to, Ask(g, from, to) PROVE RInv' /\ \A h \in Procs : Ends(h)
    <3>1. job[g] = "none" /\ (job' = job \/ job' = [job EXCEPT ![g] = "ask"])
      BY <2>1 DEF Ask, Do
    <3> QED
      BY <2>0, <2>1, <3>1, AskRInv DEF Ends
  <2>2. ASSUME NEW t \in Transformers, Register(g, t) PROVE RInv' /\ \A h \in Procs : Ends(h)
    <3>1. job[g] = "none" /\ job' = [job EXCEPT ![g] = "write"]
      BY <2>2 DEF Register, Do
    <3> QED
      BY <2>0, <2>2, <3>1, RegisterRInv DEF Ends
  <2>3. CASE Write(g)
    <3>1. job[g] = "write" /\ \A h \in Procs : h # g => job'[h] = job[h] \/ job'[h] = "search"
      BY <2>3 DEF Write
    <3> QED
      BY <2>3, <3>1, WriteRInv DEF Ends
  <2>4. CASE ReadLock(g)
    <3>1. \E j \in {"search", "blocked"} : job' = [job EXCEPT ![g] = j]
      BY <2>4 DEF ReadLock, Do
    <3> QED
      BY <2>0, <2>4, <3>1, ReadLockRInv DEF Ends
  <2>5. CASE Expand(g)
    <3>1. job' = job \/ job' = [job EXCEPT ![g] = "none"]
      BY <2>5 DEF Expand, Found, Do
    <3>2. \A h \in Procs : h # g => Ends(h)
      BY <2>0, <3>1 DEF Ends
    <3> QED
      BY <2>5, <3>2, ExpandRInv
  <2>6. CASE Exhausted(g)
    <3>1. job' = [job EXCEPT ![g] = "none"]
      BY <2>6 DEF Exhausted, Found, Do
    <3>2. \A h \in Procs : h # g => Ends(h)
      BY <2>0, <3>1 DEF Ends
    <3> QED
      BY <2>6, <3>2, ExhaustedRInv
  <2>7. CASE Forget(g)
    BY <2>7, QuietRInv DEF Forget, RInv, Shapes
  <2> QED
    BY <1>2, <2>1, <2>2, <2>3, <2>4, <2>5, <2>6, <2>7 DEF RegistryMoves
<1> QED
  BY <1>1, <1>2, MovesOfNext

\* The registry's mutex keeps every search and every registration apart, and a
\* search under it is breadth-first at every moment: the nodes it has seen and
\* not expanded are queued by their distance (registry.go:58-100).
THEOREM RegistryInvariance == Spec => []RInv
<1>1. Init => RInv
  BY RInvInit DEF Init
<1>2. RInv /\ [Next]_vars => RInv'
  BY StepRInv DEF vars
<1> QED
  BY <1>1, <1>2, PTL DEF Spec

AllEnd == \A g \in Procs : Ends(g)

\* FindPath returns a shortest chain of transformers registered together, and
\* says that there is none only when there is none, for any set of transformers
\* and any order of the map, whoever registers meanwhile (registry.go:58).
THEOREM ShortestPaths == Spec => PathShortest
<1>1. RInv /\ [Next]_vars => [AllEnd]_registry
  BY StepRInv DEF vars, AllEnd
<1>2. PathShortest <=> [][AllEnd]_registry
  BY DEF PathShortest, AllEnd, Ends
<1> QED
  BY RegistryInvariance, <1>1, <1>2, PTL DEF Spec

-----------------------------------------------------------------------------
(* The conversion chain *)

Places == {"idle", "raw", "transcode", "path", "transform", "encode", "opened", "failed"}

ChainTypes ==
  /\ pc \in [Procs -> Places] /\ open \in [Procs -> Int]
  /\ res = [g \in Procs |-> res[g]] /\ target = [g \in Procs |-> target[g]]
  /\ step = [g \in Procs |-> step[g]] /\ enc = [g \in Procs |-> enc[g]]

\* The encoding of each goroutine's stream, as far as it is bound to anything.
Encoding(g) == res[g].media \in TextMedia /\ Honest(res[g]) =>
  /\ pc[g] = "raw" /\ target[g].out \in Known => target[g].out = res[g].stored
  /\ pc[g] \in {"transform", "encode"} => enc[g] = UTF8
  /\ pc[g] = "opened" /\ target[g].out \in Known => enc[g] = target[g].out

CInv == ChainTypes /\ OpenBalanced /\ \A g \in Procs : Encoding(g)

\* Text stored as it says is decoded to UTF-8.
LEMMA HonestDecodes ==
  ASSUME NEW r, r.media \in TextMedia, Honest(r)
  PROVE  DecodeForTransform(r) = UTF8
BY ResourcesAssumption DEF Honest, DecodeForTransform, DecodedAs, UTF8

LEMMA CInvInit == Init => CInv
<1> SUFFICES ASSUME Init PROVE CInv
  OBVIOUS
<1>1. ChainTypes
  <2>1. pc = [g \in Procs |-> "idle"] /\ open = [g \in Procs |-> 0]
    BY DEF Init
  <2>4. pc \in [Procs -> Places]
    BY <2>1 DEF Places
  <2>5. open \in [Procs -> Int]
    BY <2>1
  <2>2. res = [g \in Procs |-> res[g]] /\ target = [g \in Procs |-> target[g]]
    BY DEF Init
  <2>3. step = [g \in Procs |-> step[g]] /\ enc = [g \in Procs |-> enc[g]]
    BY DEF Init
  <2> QED
    BY <2>2, <2>3, <2>4, <2>5 DEF ChainTypes
<1>2. \A g \in Procs : pc[g] = "idle" /\ open[g] = 0
  BY DEF Init
<1>3. OpenBalanced /\ \A g \in Procs : Encoding(g)
  BY <1>2 DEF OpenBalanced, Encoding
<1> QED
  BY <1>1, <1>3 DEF CInv

\* A step of one goroutine, seen from the others.
LEMMA OtherChains ==
  ASSUME CInv, NEW g \in Procs, ChainTypes',
         \A h \in Procs : h # g => UNCHANGED <<pc[h], res[h], target[h], enc[h], open[h]>>,
         open'[g] = IF pc'[g] \in {"transform", "encode", "opened"} THEN 1 ELSE 0,
         Encoding(g)'
  PROVE  CInv'
<1>1. ASSUME NEW h \in Procs, h # g PROVE Encoding(h)'
  BY <1>1 DEF CInv, Encoding
<1>2. OpenBalanced'
  BY DEF CInv, OpenBalanced
<1> QED
  BY <1>1, <1>2 DEF CInv

LEMMA BeginCInv ==
  ASSUME CInv, NEW g \in Procs, Begin(g)
  PROVE  CInv'
<1>1. PICK r \in Resources, t \in Targets :
        /\ res' = [res EXCEPT ![g] = r] /\ target' = [target EXCEPT ![g] = t]
        /\ \/ /\ r.media = t.to
              /\ pc' = [pc EXCEPT ![g] = IF t.out \in {"", "binary", EffectiveCharset(r)} \/ r.media \notin TextMedia
                                         THEN "raw" ELSE "transcode"]
           \/ pc' = [pc EXCEPT ![g] = "path"]
  BY DEF Begin, Go
<1>2. pc[g] = "idle" /\ UNCHANGED <<step, enc, open>>
  BY DEF Begin, At
<1>3. ChainTypes'
  BY <1>1, <1>2 DEF CInv, ChainTypes, Places
<1>4. \A h \in Procs : h # g => UNCHANGED <<pc[h], res[h], target[h], enc[h], open[h]>>
  BY <1>1, <1>2 DEF CInv, ChainTypes
<1>5. /\ res'[g] = r /\ target'[g] = t /\ pc'[g] \in {"raw", "transcode", "path"}
      /\ pc'[g] = "raw" => t.out \in {"", "binary", EffectiveCharset(r)} \/ r.media \notin TextMedia
  BY <1>1 DEF CInv, ChainTypes
<1>6. open'[g] = 0
  BY <1>2 DEF CInv, OpenBalanced
<1>7. Encoding(g)'
  BY <1>5, ResourcesAssumption DEF Encoding, Honest, UTF8
<1> QED
  BY <1>3, <1>4, <1>5, <1>6, <1>7, OtherChains

LEMMA OpenSourceCInv ==
  ASSUME CInv, NEW g \in Procs, UNCHANGED <<res, target>>,
         step' = [h \in Procs |-> step'[h]],
         pc[g] \notin {"transform", "encode", "opened"}, NEW e, NEW s \in {"transform", "encode", "opened"},
         OpenSource(g, e, s),
         res[g].media \in TextMedia /\ Honest(res[g]) =>
           IF s = "opened" THEN target[g].out \in Known => e = target[g].out ELSE e = UTF8
  PROVE  CInv'
<1>1. open[g] = 0
  BY DEF CInv, OpenBalanced
<1>2. CASE /\ open' = [open EXCEPT ![g] = @ + 1] /\ enc' = [enc EXCEPT ![g] = e]
           /\ pc' = [pc EXCEPT ![g] = s]
  <2>1. ChainTypes'
    BY <1>2 DEF CInv, ChainTypes, Places
  <2>2. \A h \in Procs : h # g => UNCHANGED <<pc[h], res[h], target[h], enc[h], open[h]>>
    BY <1>2 DEF CInv, ChainTypes
  <2>3. open'[g] = 1 /\ pc'[g] = s /\ enc'[g] = e
    BY <1>1, <1>2 DEF CInv, ChainTypes
  <2>4. Encoding(g)'
    BY <2>3 DEF Encoding
  <2> QED
    BY <2>1, <2>2, <2>3, <2>4, OtherChains
<1>3. CASE pc' = [pc EXCEPT ![g] = "failed"] /\ UNCHANGED <<open, enc>>
  <2>1. ChainTypes'
    BY <1>3 DEF CInv, ChainTypes, Places
  <2>2. \A h \in Procs : h # g => UNCHANGED <<pc[h], res[h], target[h], enc[h], open[h]>>
    BY <1>3 DEF CInv, ChainTypes
  <2>3. open'[g] = 0 /\ pc'[g] = "failed"
    BY <1>1, <1>3 DEF CInv, ChainTypes
  <2>4. Encoding(g)'
    BY <2>3 DEF Encoding
  <2> QED
    BY <2>1, <2>2, <2>3, <2>4, OtherChains
<1> QED
  BY <1>2, <1>3 DEF OpenSource, Go

LEMMA OpensCInv ==
  ASSUME CInv, NEW g \in Procs, OpenRaw(g) \/ OpenTranscode(g) \/ OpenPath(g)
  PROVE  CInv'
<1>1. CASE OpenRaw(g)
  BY <1>1, OpenSourceCInv DEF OpenRaw, At, CInv, ChainTypes, Encoding
<1>2. CASE OpenTranscode(g)
  BY <1>2, OpenSourceCInv, HonestDecodes DEF OpenTranscode, At, CInv, ChainTypes
<1>3. CASE OpenPath(g)
  <2>1. /\ pc[g] = "path" /\ UNCHANGED <<res, target>>
        /\ step' = [step EXCEPT ![g] = 1]
        /\ \/ pc' = [pc EXCEPT ![g] = "failed"] /\ UNCHANGED <<open, enc>>
           \/ OpenSource(g, DecodeForTransform(res[g]), "transform")
    BY <1>3 DEF OpenPath, At, Go
  <2>2. step' = [h \in Procs |-> step'[h]]
    BY <2>1 DEF CInv, ChainTypes
  <2>3. OpenSource(g, DecodeForTransform(res[g]), "transform")
    BY <2>1 DEF OpenSource, Go
  <2> QED
    BY <2>1, <2>2, <2>3, OpenSourceCInv, HonestDecodes
<1> QED
  BY <1>1, <1>2, <1>3

LEMMA TransformCInv ==
  ASSUME CInv, NEW g \in Procs, Transform(g) \/ TransformsDone(g)
  PROVE  CInv'
<1>1. /\ pc[g] = "transform" /\ UNCHANGED <<res, target, enc>>
      /\ open[g] = 1
  BY DEF Transform, TransformsDone, At, CInv, OpenBalanced
<1>2. CASE UNCHANGED <<pc, open>> /\ step' = [step EXCEPT ![g] = @ + 1]
  <2>1. ChainTypes'
    BY <1>1, <1>2 DEF CInv, ChainTypes
  <2> QED
    BY <1>1, <1>2, <2>1, OtherChains DEF CInv, OpenBalanced, Encoding
<1>3. CASE open' = [open EXCEPT ![g] = @ - 1] /\ pc' = [pc EXCEPT ![g] = "failed"] /\ UNCHANGED step
  <2>1. ChainTypes'
    BY <1>1, <1>3 DEF CInv, ChainTypes, Places
  <2>2. open'[g] = 0 /\ pc'[g] = "failed"
    BY <1>1, <1>3 DEF CInv, ChainTypes
  <2>3. \A h \in Procs : h # g => UNCHANGED <<pc[h], res[h], target[h], enc[h], open[h]>>
    BY <1>1, <1>3 DEF CInv, ChainTypes
  <2>4. Encoding(g)'
    BY <2>2 DEF Encoding
  <2> QED
    BY <2>1, <2>2, <2>3, <2>4, OtherChains
<1>4. CASE /\ pc' = [pc EXCEPT ![g] = IF target[g].out \in Raw THEN "opened" ELSE "encode"]
           /\ UNCHANGED <<step, open>>
  <2>1. ChainTypes'
    BY <1>1, <1>4 DEF CInv, ChainTypes, Places
  <2>2. open'[g] = 1 /\ pc'[g] = IF target[g].out \in Raw THEN "opened" ELSE "encode"
    BY <1>1, <1>4 DEF CInv, ChainTypes
  <2>3. \A h \in Procs : h # g => UNCHANGED <<pc[h], res[h], target[h], enc[h], open[h]>>
    BY <1>1, <1>4 DEF CInv, ChainTypes
  <2>4. target[g].out \in Raw => target[g].out \notin Known
    BY ResourcesAssumption DEF Raw, UTF8
  <2>5. Encoding(g)'
    BY <1>1, <2>2, <2>4 DEF CInv, Encoding
  <2> QED
    BY <2>1, <2>2, <2>3, <2>5, OtherChains
<1> QED
  BY <1>2, <1>3, <1>4 DEF Transform, TransformsDone, CloseChain, Go

LEMMA EncodeCInv ==
  ASSUME CInv, NEW g \in Procs, Encode(g)
  PROVE  CInv'
<1> DEFINE out == target[g].out
<1>1. pc[g] = "encode" /\ UNCHANGED <<res, target, step>> /\ open[g] = 1
  BY DEF Encode, At, CInv, OpenBalanced
<1>2. CASE out \in Raw /\ pc' = [pc EXCEPT ![g] = "opened"] /\ UNCHANGED <<enc, open>>
  <2>1. ChainTypes'
    BY <1>1, <1>2 DEF CInv, ChainTypes, Places
  <2>2. open'[g] = 1 /\ pc'[g] = "opened"
    BY <1>1, <1>2 DEF CInv, ChainTypes
  <2>3. \A h \in Procs : h # g => UNCHANGED <<pc[h], res[h], target[h], enc[h], open[h]>>
    BY <1>1, <1>2 DEF CInv, ChainTypes
  <2>4. out \notin Known
    BY <1>2, ResourcesAssumption DEF Raw, UTF8
  <2>5. Encoding(g)'
    BY <1>1, <2>2, <2>4 DEF Encoding
  <2> QED
    BY <2>1, <2>2, <2>3, <2>5, OtherChains
<1>3. CASE /\ enc' = [enc EXCEPT ![g] = Encoded(@, out)]
           /\ pc' = [pc EXCEPT ![g] = "opened"] /\ UNCHANGED open
  <2>1. ChainTypes'
    BY <1>1, <1>3 DEF CInv, ChainTypes, Places
  <2>2. open'[g] = 1 /\ pc'[g] = "opened" /\ enc'[g] = Encoded(enc[g], out)
    BY <1>1, <1>3 DEF CInv, ChainTypes
  <2>3. \A h \in Procs : h # g => UNCHANGED <<pc[h], res[h], target[h], enc[h], open[h]>>
    BY <1>1, <1>3 DEF CInv, ChainTypes
  <2>4. Encoding(g)'
    BY <1>1, <2>2 DEF CInv, Encoding, Encoded
  <2> QED
    BY <2>1, <2>2, <2>3, <2>4, OtherChains
<1>4. CASE /\ open' = [open EXCEPT ![g] = @ - 1] /\ pc' = [pc EXCEPT ![g] = "failed"]
           /\ UNCHANGED enc
  <2>1. ChainTypes'
    BY <1>1, <1>4 DEF CInv, ChainTypes, Places
  <2>2. open'[g] = 0 /\ pc'[g] = "failed"
    BY <1>1, <1>4 DEF CInv, ChainTypes
  <2>3. \A h \in Procs : h # g => UNCHANGED <<pc[h], res[h], target[h], enc[h], open[h]>>
    BY <1>1, <1>4 DEF CInv, ChainTypes
  <2>4. Encoding(g)'
    BY <2>2 DEF Encoding
  <2> QED
    BY <2>1, <2>2, <2>3, <2>4, OtherChains
<1> QED
  BY <1>2, <1>3, <1>4 DEF Encode, CloseChain, Go

LEMMA FinishCInv ==
  ASSUME CInv, NEW g \in Procs, Finish(g)
  PROVE  CInv'
<1>1. /\ pc[g] \in {"opened", "failed"}
      /\ pc' = [pc EXCEPT ![g] = "idle"] /\ step' = [step EXCEPT ![g] = 1]
      /\ enc' = [enc EXCEPT ![g] = ""] /\ res' = [res EXCEPT ![g] = NoRes]
      /\ target' = [target EXCEPT ![g] = NoTarget]
  BY DEF Finish, Go
<1>2. open' \in [Procs -> Int] /\ open'[g] = 0 /\ \A h \in Procs : h # g => open'[h] = open[h]
  <2>1. CASE pc[g] = "opened"
    <3>1. open' = [open EXCEPT ![g] = @ - 1] /\ open[g] = 1
      BY <2>1 DEF Finish, At, CloseChain, CInv, OpenBalanced
    <3> QED
      BY <3>1 DEF CInv, ChainTypes
  <2>2. CASE pc[g] = "failed"
    <3>1. open' = open /\ open[g] = 0
      BY <2>2 DEF Finish, At, CInv, OpenBalanced
    <3> QED
      BY <3>1 DEF CInv, ChainTypes
  <2> QED
    BY <1>1, <2>1, <2>2
<1>3. ChainTypes'
  BY <1>1, <1>2 DEF CInv, ChainTypes, Places
<1>4. pc'[g] = "idle" /\ \A h \in Procs : h # g => UNCHANGED <<pc[h], res[h], target[h], enc[h]>>
  BY <1>1 DEF CInv, ChainTypes
<1>5. Encoding(g)'
  BY <1>4 DEF Encoding
<1> QED
  BY <1>2, <1>3, <1>4, <1>5, OtherChains

LEMMA StepCInv == CInv /\ [Next]_vars => CInv'
<1>1. ASSUME CInv, UNCHANGED chain PROVE CInv'
  BY <1>1 DEF chain, CInv, ChainTypes, OpenBalanced, Encoding
<1>2. ASSUME CInv, NEW g \in Procs, Begin(g) \/ Running(g) \/ Extend(g) \/ Finish(g) PROVE CInv'
  <2>1. CASE Begin(g)
    BY <1>2, <2>1, BeginCInv
  <2>2. CASE Running(g)
    BY <1>1, <1>2, <2>2, OpensCInv, TransformCInv, EncodeCInv DEF Running, RegistryStep
  <2>3. CASE Extend(g)
    BY <1>1, <1>2, <2>3 DEF Extend
  <2>4. CASE Finish(g)
    BY <1>2, <2>4, FinishCInv
  <2> QED
    BY <1>2, <2>1, <2>2, <2>3, <2>4
<1> QED
  BY <1>1, <1>2 DEF Next, vars

\* Whatever fails on the way, the resource is open exactly while a chain is
\* built on it or its caller holds it (resource.go:193, transform.go:103).
THEOREM NothingLeftOpen == Spec => []OpenBalanced
<1>1. CInv => OpenBalanced
  BY DEF CInv
<1> QED
  BY CInvInit, StepCInv, <1>1, PTL DEF Spec

\* Text stored as its label or its head says reaches every transformer in UTF-8,
\* and the caller in the charset it asked for, whatever charsets and
\* transformers there are (README "Storage charset and byte-identical reads").
THEOREM AlwaysUTF8 == Spec => []TransformersSeeUTF8
<1>1. CInv => TransformersSeeUTF8
  BY DEF CInv, Encoding, TransformersSeeUTF8, At
<1> QED
  BY CInvInit, StepCInv, <1>1, PTL DEF Spec
=============================================================================
