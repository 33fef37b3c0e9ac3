------------------------- MODULE ConverterRegistry -------------------------
(***************************************************************************)
(* The registry of MIME transformers (converter/registry.go): a graph of   *)
(* MIME types under a sync.RWMutex.  FindPath searches it breadth-first    *)
(* while it holds the read lock, Register adds or replaces an edge under   *)
(* the write lock, and both are called from any goroutine.                 *)
(*                                                                         *)
(* The map is iterated in any order.  The mutex is Go's: a writer that     *)
(* waits keeps new readers out, and its Unlock lets the blocked ones in.   *)
(***************************************************************************)
EXTENDS Integers, Sequences, SequencesExt, FiniteSets

CONSTANTS
  Procs,        \* goroutines
  Mimes,        \* normalised, non-empty MIME types
  Transformers, \* transformers: [from, to, id]
  Initial,      \* transformers a registry is made with (NewRegistry)
  Nobody,       \* no goroutine
  NoPath        \* FindPath's second result is false

ASSUME RegistryAssumption ==
  /\ \A t \in Transformers : t.from \in Mimes /\ t.to \in Mimes
  /\ Initial \subseteq SUBSET Transformers
  /\ IsFiniteSet(Mimes) /\ IsFiniteSet(Transformers)
  /\ Nobody \notin Procs /\ NoPath \notin Seq(Transformers)

VARIABLES
  byEdge,   \* Registry.byEdge: the registered transformers, one per edge
  writer,   \* goroutine that holds the mutex for writing or waits for it
  readers,  \* goroutines that hold it for reading
  blocked,  \* goroutines RLock keeps out
  job,      \* what each goroutine does in the registry
  goal,     \* the edge it asks for, or the transformer it registers
  queue,    \* queue of its search: paths in the order found
  visited,  \* MIME types its search has seen
  path      \* the path its last search returned

mutex    == <<writer, readers, blocked>>
search   == <<goal, queue, visited, path>>
registry == <<byEdge, mutex, job, search>>

Jobs == {"none", "ask", "blocked", "search", "write"}

Edge(t) == <<t.from, t.to>>

RegistryInit ==
  /\ byEdge \in Initial
  /\ writer = Nobody /\ readers = {} /\ blocked = {}
  /\ job = [g \in Procs |-> "none"]
  /\ goal = [g \in Procs |-> <<>>] /\ queue = [g \in Procs |-> <<>>]
  /\ visited = [g \in Procs |-> {}] /\ path = [g \in Procs |-> NoPath]

Do(g, j) == job' = [job EXCEPT ![g] = j]
-----------------------------------------------------------------------------
(* Register *)

\* A writer takes its turn among the writers and announces itself.
Register(g, t) ==
  /\ job[g] = "none" /\ writer = Nobody
  /\ writer' = g
  /\ goal' = [goal EXCEPT ![g] = t]
  /\ Do(g, "write")
  /\ UNCHANGED <<byEdge, readers, blocked, queue, visited, path>>

\* Seeded bug: the write lock does not wait for the readers.
LockedNoWait(g) == writer = g

\* The write lock is held once the readers have gone.
Locked(g) == writer = g /\ readers = {}

\* Seeded bug: readers that came meanwhile are not let in.
WriteNoWake(g) ==
  /\ job[g] = "write" /\ Locked(g)
  /\ byEdge' = {t \in byEdge : Edge(t) # Edge(goal[g])} \cup {goal[g]}
  /\ writer' = Nobody
  /\ UNCHANGED <<readers, blocked>>
  /\ Do(g, "none")
  /\ goal' = [goal EXCEPT ![g] = <<>>]
  /\ UNCHANGED <<queue, visited, path>>

\* The edge is added or replaced; Unlock lets the blocked readers in.
Write(g) ==
  /\ job[g] = "write" /\ Locked(g)
  /\ byEdge' = {t \in byEdge : Edge(t) # Edge(goal[g])} \cup {goal[g]}
  /\ writer' = Nobody
  /\ readers' = readers \cup blocked /\ blocked' = {}
  /\ job' = [p \in Procs |-> IF p = g THEN "none"
                             ELSE IF p \in blocked THEN "search" ELSE job[p]]
  /\ goal' = [goal EXCEPT ![g] = <<>>]
  /\ UNCHANGED <<queue, visited, path>>

-----------------------------------------------------------------------------
(* FindPath *)

\* A path of the search ends at its last transformer, or where it began.
EndOfPath(p, from) == IF p = <<>> THEN from ELSE Last(p).to

\* FindPath is entered; the identity needs no lock.
Ask(g, from, to) ==
  /\ job[g] = "none"
  /\ IF from = to
       THEN path' = [path EXCEPT ![g] = <<>>] /\ UNCHANGED <<goal, queue, visited, job>>
       ELSE /\ goal' = [goal EXCEPT ![g] = <<from, to>>]
            /\ queue' = [queue EXCEPT ![g] = << <<>> >>]
            /\ visited' = [visited EXCEPT ![g] = {from}]
            /\ path' = [path EXCEPT ![g] = NoPath]
            /\ Do(g, "ask")
  /\ UNCHANGED <<byEdge, mutex>>

\* RLock: a waiting writer goes first.
ReadLock(g) ==
  /\ job[g] = "ask"
  /\ IF writer = Nobody
       THEN readers' = readers \cup {g} /\ Do(g, "search") /\ UNCHANGED blocked
       ELSE blocked' = blocked \cup {g} /\ Do(g, "blocked") /\ UNCHANGED readers
  /\ UNCHANGED <<byEdge, writer, search>>

\* FindPath returns and its deferred RUnlock runs.
Found(g, p) ==
  /\ path' = [path EXCEPT ![g] = p]
  /\ queue' = [queue EXCEPT ![g] = <<>>]
  /\ visited' = [visited EXCEPT ![g] = {}]
  /\ readers' = readers \ {g}
  /\ Do(g, "none")
  /\ goal' = [goal EXCEPT ![g] = <<>>]
  /\ UNCHANGED <<byEdge, writer, blocked>>

\* The edges out of the node a path of g's search leads to.
Onward(g, p) ==
  {t \in byEdge : t.from = EndOfPath(p, goal[g][1]) /\ t.to \notin visited[g]}

\* One node of the queue: the target ends the search, every other new
\* neighbour goes behind the nodes found before, in the order of the map.
Expand(g) ==
  LET cur == Head(queue[g])
      onward == Onward(g, cur)
      hit == {t \in onward : t.to = goal[g][2]}
  IN
  /\ job[g] = "search" /\ queue[g] # <<>>
  /\ IF hit # {} THEN \E t \in hit : Found(g, Append(cur, t))
     ELSE /\ \E order \in SetToSeqs(onward) :
               queue' = [queue EXCEPT ![g] =
                 Tail(@) \o [i \in DOMAIN order |-> Append(cur, order[i])]]
          /\ visited' = [visited EXCEPT ![g] = @ \cup {t.to : t \in onward}]
          /\ UNCHANGED <<byEdge, mutex, job, goal, path>>

\* The queue is empty (at once, when nothing is registered).
Exhausted(g) ==
  /\ job[g] = "search" /\ queue[g] = <<>>
  /\ Found(g, NoPath)

InRegistry(g) == Write(g) \/ ReadLock(g) \/ Expand(g) \/ Exhausted(g)
-----------------------------------------------------------------------------
(* Properties *)

\* The MIME types one hop on from some, and within n hops of one.
Beyond(edges, nodes) == {t.to : t \in {u \in edges : u.from \in nodes}}

Within(edges, from, n) ==
  LET hops[k \in 0..n] ==
        IF k = 0 THEN {from} ELSE hops[k - 1] \cup Beyond(edges, hops[k - 1])
  IN hops[n]

Chained(p, from, to) ==
  /\ p # <<>> /\ p[1].from = from /\ Last(p).to = to
  /\ \A i \in 1..(Len(p) - 1) : p[i].to = p[i + 1].from

\* What FindPath returns is a shortest chain of transformers registered
\* together at that moment, and "none" means there is no chain at all,
\* whatever the order of the map and of concurrent Registers.
ShortestNow(g, p) ==
  LET from == goal[g][1] to == goal[g][2] IN
  IF p = NoPath THEN to \notin Within(byEdge, from, Cardinality(Mimes))
  ELSE /\ Chained(p, from, to) /\ ToSet(p) \subseteq byEdge
       /\ to \notin Within(byEdge, from, Len(p) - 1)

PathShortest ==
  [][\A g \in Procs : job[g] = "search" /\ job'[g] = "none" => ShortestNow(g, path'[g])]_registry
=============================================================================
