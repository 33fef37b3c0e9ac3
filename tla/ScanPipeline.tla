---------------------------- MODULE ScanPipeline ----------------------------
(***************************************************************************)
(* ScanReadingOrder (tools/pipeline.go): one pass over the plain-text      *)
(* reading order feeds every processor, then the fallback and the finish   *)
(* phase run.  The stream is the one of ReadingOrder with delimiter "\n";  *)
(* this module is its client.                                              *)
(*                                                                         *)
(* A processor is known by its capabilities.  The fallback is that of      *)
(* ISBNProcessor (pipeline_processors.go), the only one in the code.  An   *)
(* ISBN is a single byte of text, and Key gives its ISBN-13.  The context  *)
(* may be cancelled by another goroutine between any two steps.            *)
(***************************************************************************)
EXTENDS ReadingOrder, Selection

CONSTANTS
  Newline,     \* the delimiter of the scan
  BufSize,     \* the 32 KiB buffer of readReadingOrder
  Books,       \* [spine: sequence of [res, linear], all: sequence of Resources]
  Convertible, \* resources canConvertToText accepts
  Processors,  \* processors
  Cap,         \* capabilities [text, head, fall, finish, limit]: head = 0 for
               \* none, limit = 0 for an ISBNProcessor without one
  MaxHead,     \* bound: largest head a processor asks for
  Lineups,     \* processor lists a caller passes
  Fallible,    \* processors whose calls may return an error
  Isbns, Key   \* bytes that are ISBNs, and their canonical form

ASSUME ProcessorsAssumption ==
  /\ Cap \in [Processors -> [text : BOOLEAN, head : 0..MaxHead, fall : BOOLEAN,
                             finish : BOOLEAN, limit : Nat]]
  /\ \A p \in Processors : Cap[p].fall => Cap[p].head > 0
  /\ Lineups \subseteq Seq(Processors)
  /\ \A l \in Lineups : \A i, j \in 1..Len(l) : l[i] = l[j] => i = j
  /\ \A b \in Books : /\ b.spine \in Seq([res : Resources, linear : BOOLEAN])
                      /\ b.all \in Seq(Resources)
  /\ Newline \in Seq(Byte)
  /\ MaxHead \in Nat /\ BufSize \in Nat \ {0}

VARIABLES
  book,       \* the book scanned
  lineup,     \* the processors passed
  cancelled,  \* ctx.Err() # nil
  pc,         \* where ScanReadingOrder is
  outcome,    \* what it returned
  next,       \* position in the processor list of the current loop
  pending,    \* headCollector.pending
  buf,        \* headCollector.buf
  todo,       \* resources ProcessFallback has still to visit
  scanned,    \* its set of visited resources
  got,        \* bytes each TextProcessor was given
  heads,      \* heads each HeadProcessor was given
  found,      \* ISBNProcessor.out
  opened,     \* resources the fallback opened, in order
  skipped,    \* those of them that could not be read
  finished,   \* processors whose Finish was called, in that order
  late        \* chunks read since the context was cancelled

progress == <<pc, outcome, next>>
work     == <<pending, buf, todo, scanned>>
results  == <<got, heads, found, opened, skipped, finished, late>>
vars     == <<rvars, book, lineup, cancelled, progress, work, results>>

-----------------------------------------------------------------------------
(* Helpers *)

Least(a, b) == IF a < b THEN a ELSE b
Prefix(s, n) == SubSeq(s, 1, Least(n, Len(s)))

Having(capability(_)) == Chosen(lineup, {p \in Processors : capability(p)})

IsText(p)   == Cap[p].text
IsHead(p)   == Cap[p].head > 0
IsFall(p)   == Cap[p].fall
IsFinish(p) == Cap[p].finish

streams  == Having(IsText)
falls    == Having(IsFall)
finishes == Having(IsFinish)

\* Seeded bug: the head requests are not sorted.
RequestsUnsorted == Having(IsHead)

\* newHeadCollector: head requests by increasing limit, in a stable order.
Requests ==
  LET wanting(n) == Chosen(lineup, {p \in Processors : Cap[p].head = n})
  IN FlattenSeq([n \in 1..MaxHead |-> wanting(n)])

\* The collector exists, and how many bytes it buffers at most.
HasHeads  == Requests # <<>>
HeadLimit == IF HasHeads THEN Cap[Last(Requests)].head ELSE 0
Remaining == HeadLimit - Len(buf)

\* Seeded bug: the read buffer is not cut to what the heads need.
ReadRoomFull == BufSize

\* len(readBuf): cut to what the heads need when nobody reads the text.
ReadRoom ==
  IF streams = <<>> /\ HasHeads /\ Remaining > 0 THEN Least(BufSize, Remaining) ELSE BufSize

\* FindISBNs: the ISBNs of a text in order; add drops the repetitions.
FindISBNs(text) == Chosen(text, Isbns)

\* ISBNProcessor.done
IsbnDone(p, out) == Cap[p].limit > 0 /\ Len(out) >= Cap[p].limit

\* Seeded bug: every form of an ISBN counts.
AddISBNsNoKey(p, out, isbns) ==
  LET upTo[k \in 0..Len(isbns)] ==
        IF k = 0 THEN out
        ELSE LET o == upTo[k - 1]
             IN IF (o # out /\ IsbnDone(p, o)) \/ isbns[k] \in ToSet(o) THEN o ELSE Append(o, isbns[k])
  IN upTo[Len(isbns)]

\* The keys of a list of ISBNs: ISBNProcessor.seen is that of its out.
Keys(isbns) == {Key[isbns[i]] : i \in 1..Len(isbns)}

\* ISBNProcessor.add: new keys only, until one makes it reach the limit.
AddISBNs(p, out, isbns) ==
  LET upTo[k \in 0..Len(isbns)] ==
        IF k = 0 THEN out
        ELSE LET o == upTo[k - 1]
             IN IF (o # out /\ IsbnDone(p, o)) \/ Key[isbns[k]] \in Keys(o) THEN o ELSE Append(o, isbns[k])
  IN upTo[Len(isbns)]

\* linearResources: what openDelimitedReadingOrder reads; and the others.
LinearItems(b)    == Chosen(b.spine, [res : Resources, linear : {TRUE}])
NonLinearItems(b) == Chosen(b.spine, [res : Resources, linear : {FALSE}])
ResourcesOf(items) == [i \in DOMAIN items |-> items[i].res]

\* What ProcessFallback goes through: non-linear spine items, then All().
Others == ResourcesOf(NonLinearItems(book)) \o book.all

-----------------------------------------------------------------------------
(* States *)

Places == {"start", "read", "wait", "text", "serve", "check", "flush", "gate",
           "falls", "scan", "finishes", "finish", "ended"}

ScanInit ==
  /\ book \in Books /\ lineup \in Lineups
  /\ InitStream({ResourcesOf(LinearItems(book))}, {Newline})
  /\ cancelled = FALSE /\ pc = "start" /\ outcome = "none" /\ next = 1
  /\ pending = Requests /\ buf = <<>> /\ todo = <<>> /\ scanned = {}
  /\ got = [p \in Processors |-> <<>>] /\ heads = [p \in Processors |-> <<>>]
  /\ found = [p \in Processors |-> <<>>] /\ opened = [p \in Processors |-> <<>>]
  /\ skipped = [p \in Processors |-> {}]
  /\ finished = <<>> /\ late = 0

At(place)   == pc = place
Go(place)   == pc' = place /\ next' = 1 /\ UNCHANGED outcome
End(result) == pc' = "ended" /\ outcome' = result /\ UNCHANGED next
Then(n, place) == pc' = place /\ next' = n /\ UNCHANGED outcome

\* The arguments never change, and the stream rests unless it is called.
Fixed == UNCHANGED <<book, lineup>>
Quiet == UNCHANGED rvars /\ Fixed

\* Seeded bug: the stream is not closed.
LeaveOpen(result) ==
  /\ UNCHANGED rvars
  /\ IF result = "nil" THEN Go("gate") ELSE End(result)

\* readReadingOrder returns, and its deferred Close runs.  After a nil error
\* the fallback phase follows; any other error is the scan's.
Leave(result) ==
  /\ Close
  /\ IF result = "nil" THEN Go("gate") ELSE End(result)

\* A call of a processor that fails is the end of the stream's phase.
CallFails(p) == p \in Fallible /\ Leave("error")

-----------------------------------------------------------------------------
\* Another goroutine cancels the context.
Cancel ==
  /\ ~cancelled /\ ~At("ended")
  /\ cancelled' = TRUE
  /\ UNCHANGED <<progress, work, results>> /\ Quiet

\* Context check, discovery of the capabilities, opening of the stream.
Start ==
  /\ At("start")
  /\ IF cancelled THEN End("ctx")
     ELSE Go(IF streams = <<>> /\ ~HasHeads THEN "gate" ELSE "read")
  /\ UNCHANGED <<cancelled, work, results>> /\ Quiet

-----------------------------------------------------------------------------
(* readReadingOrder *)

AskRead ==
  /\ At("read")
  /\ CallRead(ReadRoom)
  /\ Go("wait")
  /\ UNCHANGED <<cancelled, work, results>> /\ Fixed

\* The stream works while the scan waits for it.
StreamStep ==
  /\ At("wait") /\ InRead
  /\ UNCHANGED <<cancelled, progress, work, results>> /\ Fixed

\* rc.Read returned bytes (perhaps with an error, looked at later).
TakeChunk ==
  /\ At("wait") /\ ~reading /\ reply.data # <<>>
  /\ late' = IF cancelled THEN late + 1 ELSE late
  /\ Go("text")
  /\ UNCHANGED <<cancelled, work, got, heads, found, opened, skipped, finished>> /\ Quiet

\* Seeded bug: a failing read ends the stream like EOF.
TakeNothingAnyEnd ==
  /\ At("wait") /\ ~reading /\ reply.data = <<>>
  /\ Go(IF reply.err = "none" THEN "check" ELSE "flush") /\ UNCHANGED rvars
  /\ UNCHANGED <<cancelled, work, results>> /\ Fixed

\* Seeded bug: a short text ends without serving the heads still pending.
TakeNothingNoFlush ==
  /\ At("wait") /\ ~reading /\ reply.data = <<>>
  /\ CASE reply.err = "none" -> Go("check") /\ UNCHANGED rvars
       [] reply.err = "eof"  -> Leave("nil")
       [] OTHER              -> Leave("error")
  /\ UNCHANGED <<cancelled, work, results>> /\ Fixed

\* rc.Read returned no bytes.
TakeNothing ==
  /\ At("wait") /\ ~reading /\ reply.data = <<>>
  /\ CASE reply.err = "none" -> Go("check") /\ UNCHANGED rvars
       [] reply.err = "eof"  -> Go("flush") /\ UNCHANGED rvars
       [] OTHER              -> Leave("error")
  /\ UNCHANGED <<cancelled, work, results>> /\ Fixed

\* The chunk goes to every TextProcessor in turn.
ProcessChunk ==
  /\ At("text") /\ next <= Len(streams)
  /\ \/ /\ got' = [got EXCEPT ![streams[next]] = @ \o reply.data]
        /\ Then(next + 1, "text")
        /\ UNCHANGED rvars
     \/ CallFails(streams[next]) /\ UNCHANGED got
  /\ UNCHANGED <<cancelled, work, heads, found, opened, skipped, finished, late>> /\ Fixed

\* headCollector.add, its first half: no more bytes than the heads need.
AddHead ==
  /\ At("text") /\ next > Len(streams)
  /\ buf' = IF pending = <<>> THEN buf ELSE buf \o Prefix(reply.data, Remaining)
  /\ Go("serve")
  /\ UNCHANGED <<cancelled, pending, todo, scanned, results>> /\ Quiet

\* ProcessHead of the first pending processor.
GiveHead ==
  LET p == Head(pending)
      head == Prefix(buf, Cap[p].head)
  IN
  /\ \/ /\ heads' = [heads EXCEPT ![p] = Append(@, head)]
        /\ found' = IF IsFall(p) THEN [found EXCEPT ![p] = AddISBNs(p, @, FindISBNs(head))] ELSE found
        /\ UNCHANGED <<rvars, progress>>
     \/ CallFails(p) /\ UNCHANGED <<heads, found>>
  /\ pending' = Tail(pending)
  /\ UNCHANGED <<cancelled, buf, todo, scanned, got, opened, skipped, finished, late>> /\ Fixed

Ready == pending # <<>> /\ Len(buf) >= Cap[Head(pending)].head

\* flushReady: heads whose bytes are all there.
FlushReady == At("serve") /\ Ready /\ GiveHead


\* The rest of the loop body: stop when only heads were asked for and all
\* are served, then look at the error that came with the chunk.
ChunkDone ==
  /\ At("serve") /\ ~Ready
  /\ buf' = IF pending = <<>> THEN <<>> ELSE buf
  /\ IF streams = <<>> /\ pending = <<>> THEN Leave("nil")
     ELSE IF reply.err # "none" THEN Leave("error")
     ELSE Go("check") /\ UNCHANGED rvars
  /\ UNCHANGED <<cancelled, pending, todo, scanned, results>> /\ Fixed

\* Seeded bug: the context is not looked at between two reads.
CheckContextNever ==
  /\ At("check") /\ Go("read") /\ UNCHANGED rvars
  /\ UNCHANGED <<cancelled, work, results>> /\ Fixed

CheckContext ==
  /\ At("check")
  /\ IF cancelled THEN Leave("ctx") ELSE Go("read") /\ UNCHANGED rvars
  /\ UNCHANGED <<cancelled, work, results>> /\ Fixed

\* flushRemaining: at the end of a short text the heads get what there is.
FlushRemaining == At("flush") /\ pending # <<>> /\ GiveHead

FlushDone ==
  /\ At("flush") /\ pending = <<>>
  /\ buf' = <<>>
  /\ Leave("nil")
  /\ UNCHANGED <<cancelled, pending, todo, scanned, results>> /\ Fixed

-----------------------------------------------------------------------------
(* The fallback phase *)

\* Seeded bug: who wants Finish is called before the fallback, not after it.
GateToFinish ==
  /\ At("gate")
  /\ IF cancelled THEN End("ctx") ELSE Go(IF finishes # <<>> THEN "finishes" ELSE "falls")
  /\ UNCHANGED <<cancelled, work, results>> /\ Quiet

Gate ==
  /\ At("gate")
  /\ IF cancelled THEN End("ctx") ELSE Go("falls")
  /\ UNCHANGED <<cancelled, work, results>> /\ Quiet

\* NeedsFallback, the context check, and the start of ProcessFallback:
\* non-linear spine items first, then the whole manifest.
NextFallback ==
  /\ At("falls")
  /\ IF next > Len(falls) THEN Go("finishes") /\ UNCHANGED <<todo, scanned>>
     ELSE IF IsbnDone(falls[next], found[falls[next]]) THEN Then(next + 1, "falls") /\ UNCHANGED <<todo, scanned>>
     ELSE IF cancelled THEN End("ctx") /\ UNCHANGED <<todo, scanned>>
     ELSE /\ todo' = Others
          /\ scanned' = {}
          /\ Then(next, "scan")
  /\ UNCHANGED <<cancelled, pending, buf, results>> /\ Quiet

\* Seeded bug: a resource is not remembered once it was visited.
SkipKnownForgets(r) == r \in ToSet(resources) \/ r \notin Convertible

\* Resources the scan passes over: linear, visited, not convertible to text.
SkipKnown(r) == r \in ToSet(resources) \/ r \in scanned \/ r \notin Convertible

\* One resource of ProcessFallback.
ScanNext ==
  LET p == falls[next]
      r == Head(todo)
      out == AddISBNs(p, found[p], FindISBNs(Prefix(Text[r], Cap[p].head)))
  IN
  /\ At("scan") /\ todo # <<>>
  /\ scanned' = IF r \in ToSet(resources) THEN scanned ELSE scanned \cup {r}
  /\ todo' = Tail(todo)
  /\ IF SkipKnown(r)
       THEN UNCHANGED <<progress, found, opened, skipped>>
       ELSE /\ opened' = [opened EXCEPT ![p] = Append(@, r)]
            /\ \/ /\ found' = [found EXCEPT ![p] = out]
                  /\ Then(IF IsbnDone(p, out) THEN next + 1 ELSE next,
                          IF IsbnDone(p, out) THEN "falls" ELSE "scan")
                  /\ UNCHANGED skipped
               \* It cannot be opened or read.
               \/ /\ IF cancelled THEN End("ctx") ELSE UNCHANGED progress
                  /\ skipped' = [skipped EXCEPT ![p] = @ \cup {r}]
                  /\ UNCHANGED found
  /\ UNCHANGED <<cancelled, pending, buf, got, heads, finished, late>> /\ Quiet

ScanDone ==
  /\ At("scan") /\ todo = <<>>
  /\ Then(next + 1, "falls")
  /\ UNCHANGED <<cancelled, work, results>> /\ Quiet

-----------------------------------------------------------------------------
(* The finish phase *)

NextFinish ==
  /\ At("finishes")
  /\ IF next > Len(finishes) THEN End("ok")
     ELSE IF cancelled THEN End("ctx")
     ELSE Then(next, "finish")
  /\ UNCHANGED <<cancelled, work, results>> /\ Quiet

Finish ==
  /\ At("finish")
  /\ finished' = Append(finished, finishes[next])
  /\ \/ Then(next + 1, "finishes")
     \/ finishes[next] \in Fallible /\ End("error")
  /\ UNCHANGED <<cancelled, work, got, heads, found, opened, skipped, late>> /\ Quiet

\* ScanReadingOrder has returned.
Returned == At("ended") /\ UNCHANGED vars

-----------------------------------------------------------------------------
Reading ==
  \/ AskRead \/ StreamStep \/ TakeChunk \/ TakeNothing \/ ProcessChunk
  \/ AddHead \/ FlushReady \/ ChunkDone \/ CheckContext
  \/ FlushRemaining \/ FlushDone

After == Gate \/ NextFallback \/ ScanNext \/ ScanDone \/ NextFinish \/ Finish

Scan == Start \/ Reading \/ After

ScanAction == Scan \/ Cancel \/ Returned

\* The goroutine that called ScanReadingOrder keeps running.
ScanSpec == ScanInit /\ [][ScanAction]_vars /\ WF_vars(Scan)
-----------------------------------------------------------------------------
(* Properties *)

\* Every TextProcessor is given the reading order from its start without a
\* gap or a repetition, and a scan that succeeds has given it all of it
\* (pipeline.go:22 "Every byte of the stream is passed to Process").
TextComplete ==
  \A p \in ToSet(streams) :
    /\ IsPrefix(got[p], Whole)
    /\ outcome = "ok" => got[p] = Whole

\* A head is given once and is exactly the start of the reading order, as
\* long as asked for or as the text is; a scan that succeeds gave every head.
HeadExact ==
  \A p \in Processors :
    /\ heads[p] \in {<<>>, <<Prefix(Whole, Cap[p].head)>>}
    /\ outcome = "ok" /\ p \in ToSet(Requests) => heads[p] # <<>>

\* A head is given as soon as its bytes are there: while the stream is read
\* on, no pending processor could have been served (pipeline.go:28).
HeadOnTime ==
  At("read") => \A p \in ToSet(Requests) :
    heads[p] = <<>> => Len(given) < Cap[p].head

\* Without a TextProcessor the stream is read only as far as the heads need
\* (pipeline.go:133): no byte more is taken from it, nor ever kept.
NoOverread == Len(buf) <= HeadLimit /\ (streams = <<>> => Len(given) <= HeadLimit)


\* What the ISBN processor meets when it is given its head and then visits
\* resources: the ISBNs of the head and of those it should read and can.
Wanted(p) == Convertible \ (ToSet(resources) \cup skipped[p])
MetISBNs(p, visited) ==
  LET within(text) == FindISBNs(Prefix(text, Cap[p].head))
      read == Chosen(visited, Wanted(p))
  IN within(Whole) \o FlattenSeq([i \in DOMAIN read |-> within(Text[read[i]])])

\* What it should make of the ISBNs it meets: each key where it is first met,
\* cut at the limit.
Unique(isbns) ==
  LET first(i) == \A j \in 1..(i - 1) : Key[isbns[j]] # Key[isbns[i]]
      firsts == Chosen([i \in 1..Len(isbns) |-> i], {i \in 1..Len(isbns) : first(i)})
  IN [k \in DOMAIN firsts |-> isbns[firsts[k]]]
ExpectedISBNs(p, isbns) ==
  IF Cap[p].limit = 0 THEN Unique(isbns) ELSE Prefix(Unique(isbns), Cap[p].limit)

\* A scan that succeeds found exactly those of all it should read, in that
\* order; at any moment the result has no repetition and keeps the limit
\* (pipeline_processors.go).
IsbnExact ==
  \A p \in ToSet(falls) :
    /\ Cap[p].limit > 0 => Len(found[p]) <= Cap[p].limit
    /\ \A i, j \in DOMAIN found[p] : Key[found[p][i]] = Key[found[p][j]] => i = j
    /\ outcome = "ok" => found[p] = ExpectedISBNs(p, MetISBNs(p, Others))

\* Finish is called once, in the order of the processors, "after the stream and
\* any fallback work are complete" (pipeline.go:48): with all text and every
\* head delivered, every fallback at its end and the stream closed.
FinishLast ==
  /\ IsPrefix(finished, finishes)
  /\ outcome = "ok" => finished = finishes
  /\ finished # <<>> =>
       /\ \A p \in ToSet(streams) : got[p] = Whole
       /\ \A p \in ToSet(Requests) : heads[p] # <<>>
       /\ \A p \in ToSet(falls) : found[p] = ExpectedISBNs(p, MetISBNs(p, Others))
       /\ handles = 0 /\ ~reading

\* The fallback opens a resource once, and never one of the linear order.
FallbackOnce ==
  \A p \in ToSet(falls) :
    /\ \A i, j \in DOMAIN opened[p] : opened[p][i] = opened[p][j] => i = j
    /\ ToSet(opened[p]) \cap ToSet(resources) = {}

\* Once the context is cancelled at most the read under way is delivered.
AtMostOneLateChunk == late <= 1

\* The stream is closed whenever it is not being read: on success, on every
\* error and on cancellation.
StreamClosed ==
  pc \in {"gate", "falls", "scan", "finishes", "finish", "ended"} => handles = 0

\* A cancelled scan returns, even when a chapter never delivers a byte.
CancelEnds == cancelled ~> At("ended")

=============================================================================
