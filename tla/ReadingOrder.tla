---------------------------- MODULE ReadingOrder ----------------------------
(***************************************************************************)
(* The lazy stream over a book's linear reading order: multiReadCloser     *)
(* (book/resource.go) and delimitedMultiReadCloser (tools/content.go),     *)
(* which are one reader with an empty and a non-empty delimiter.           *)
(*                                                                         *)
(* A chapter is opened only when the one before it is exhausted.  Opening  *)
(* it runs the whole conversion chain and may fail; reading it may return  *)
(* fewer bytes than asked, none at all, the last bytes together with EOF   *)
(* or without it, or an error.  The client calls Read with any buffer and  *)
(* may call again after an error, or Close at any time between two calls.  *)
(***************************************************************************)
EXTENDS Integers, Sequences, SequencesExt

CONSTANTS
  Resources,   \* chapters
  Byte,        \* bytes of converted text
  Text,        \* the converted text of each chapter
  Orders,      \* linear reading orders: sequences of Resources
  Delimiters,  \* delimiters, <<>> for multiReadCloser
  MaxRoom      \* bound: longest buffer of the client, len(p)

ASSUME OrdersAssumption ==
  /\ Text \in [Resources -> Seq(Byte)]
  /\ Orders \subseteq Seq(Resources)
  /\ Delimiters \subseteq Seq(Byte)
  /\ MaxRoom \in Nat \ {0}

NotOpen == -1    \* current = nil

VARIABLES
  resources,         \* the linear chapters
  delimiter,         \* what separates them
  index,             \* the chapter being read
  current,           \* position in it, NotOpen when it is not open
  delimiterPending,  \* rest of the delimiter to deliver
  closed,            \* Close was called
  reading,           \* a Read call is running
  room,              \* len(p) of that call
  reply,             \* what the last Read returned, once it has
  given,             \* every byte returned so far
  handles            \* chapter streams opened and not closed

stream == <<resources, delimiter, index, current, delimiterPending, closed>>
rvars  == <<stream, reading, room, reply, given, handles>>

NoReply == [data |-> <<>>, err |-> "none"]

InitStream(orders, delimiters) ==
  /\ resources \in orders /\ delimiter \in delimiters
  /\ index = 1 /\ current = NotOpen
  /\ delimiterPending = <<>> /\ closed = FALSE
  /\ reading = FALSE /\ room = 0 /\ reply = NoReply
  /\ given = <<>> /\ handles = 0

Init == InitStream(Orders, Delimiters)

-----------------------------------------------------------------------------
(* One call of Read, one step per turn of its loop. *)

\* Read returns.
Reply(data, err) ==
  /\ reading' = FALSE
  /\ reply' = [data |-> data, err |-> err]
  /\ given' = given \o data

\* The call stays inside Read.
Loop == UNCHANGED <<reading, reply, given>>

CallRead(n) ==
  /\ ~reading
  /\ reading' = TRUE /\ room' = n /\ reply' = NoReply
  /\ UNCHANGED <<stream, given, handles>>

\* Without linear chapters the stream is an empty bytes.Reader.
ReadEmpty ==
  /\ reading /\ resources = <<>>
  /\ Reply(<<>>, "eof")
  /\ UNCHANGED <<stream, room, handles>>

\* The early returns: closed stream, empty buffer.
ReadNothing ==
  /\ reading /\ resources # <<>>
  /\ closed \/ room = 0
  /\ Reply(<<>>, IF closed THEN "closed" ELSE "none")
  /\ UNCHANGED <<stream, room, handles>>

\* Seeded bug: a closed stream is read on.
InLoopClosed == reading /\ resources # <<>> /\ room > 0

\* Past the early returns.
InLoop == reading /\ resources # <<>> /\ ~closed /\ room > 0

\* Part of the delimiter that fits.
ReadDelimiter ==
  LET n == IF Len(delimiterPending) < room THEN Len(delimiterPending) ELSE room IN
  /\ InLoop /\ delimiterPending # <<>>
  /\ Reply(SubSeq(delimiterPending, 1, n), "none")
  /\ delimiterPending' = SubSeq(delimiterPending, n + 1, Len(delimiterPending))
  /\ UNCHANGED <<resources, delimiter, index, current, closed, room, handles>>

\* Nothing is pending and no chapter is open.
Between == InLoop /\ delimiterPending = <<>> /\ current = NotOpen

ReadEnd ==
  /\ Between /\ index > Len(resources)
  /\ Reply(<<>>, "eof")
  /\ UNCHANGED <<stream, room, handles>>

\* OpenAsWithRegistry of the next chapter succeeds, or its error is returned
\* and the chapter stays next.
OpenNext ==
  /\ Between /\ index <= Len(resources)
  /\ \/ current' = 0 /\ handles' = handles + 1 /\ Loop
     \/ UNCHANGED <<current, handles>> /\ Reply(<<>>, "open")
  /\ UNCHANGED <<resources, delimiter, index, delimiterPending, closed, room>>

InChapter == InLoop /\ delimiterPending = <<>> /\ current # NotOpen

\* What the open chapter may hand over: n bytes, and none of them past room.
Rest  == SubSeq(Text[resources[index]], current + 1, Len(Text[resources[index]]))
Chunk(n) == SubSeq(Rest, 1, n)

\* m.current.Read returns data without EOF, possibly none, possibly with an
\* error; either goes to the caller and the chapter stays open.
ReadChunk ==
  /\ InChapter
  /\ \E n \in 0..Len(Rest), err \in {"none", "fault"} :
       /\ n <= room
       /\ Reply(Chunk(n), err)
       /\ current' = current + n
  /\ UNCHANGED <<resources, delimiter, index, delimiterPending, closed, room, handles>>

\* What EOF of a chapter leads to, given the delimiter to send next.
NextChapter(pending) ==
  /\ InChapter /\ Len(Rest) <= room
  /\ current' = NotOpen /\ handles' = handles - 1
  /\ index' = index + 1
  /\ delimiterPending' = pending
  /\ IF Rest = <<>> THEN Loop ELSE Reply(Rest, "none")
  /\ UNCHANGED <<resources, delimiter, closed, room>>

\* Seeded bug: a delimiter follows the last chapter too.
ReadLastTrailing == NextChapter(delimiter)

\* Seeded bug: the chapter is left open when it ends.
ReadLastUnclosed ==
  /\ InChapter /\ Len(Rest) <= room
  /\ current' = NotOpen /\ index' = index + 1
  /\ delimiterPending' = IF index < Len(resources) THEN delimiter ELSE <<>>
  /\ IF Rest = <<>> THEN Loop ELSE Reply(Rest, "none")
  /\ UNCHANGED <<resources, delimiter, closed, room, handles>>

\* Seeded bug: an empty last read does not move on to the next chapter.
ReadLastStays ==
  /\ InChapter /\ Len(Rest) <= room
  /\ current' = NotOpen /\ handles' = handles - 1
  /\ index' = IF Rest = <<>> THEN index ELSE index + 1
  /\ delimiterPending' = IF index < Len(resources) THEN delimiter ELSE <<>>
  /\ IF Rest = <<>> THEN Loop ELSE Reply(Rest, "none")
  /\ UNCHANGED <<resources, delimiter, closed, room>>

\* m.current.Read returns the rest of the chapter together with EOF: the
\* chapter is closed, and the delimiter is sent only between two chapters.
ReadLast == NextChapter(IF index < Len(resources) THEN delimiter ELSE <<>>)

\* Seeded bug: Close forgets the open chapter.
CloseOnlyFlag ==
  /\ ~reading
  /\ IF resources = <<>> THEN UNCHANGED <<closed, current, handles>>
     ELSE closed' = TRUE /\ current' = NotOpen /\ UNCHANGED handles
  /\ UNCHANGED <<resources, delimiter, index, delimiterPending, reading, room, reply, given>>

\* Close, idempotent; a NopCloser when there are no chapters.
Close ==
  /\ ~reading
  /\ IF resources = <<>> \/ closed THEN UNCHANGED <<closed, current, handles>>
     ELSE /\ closed' = TRUE
          /\ current' = NotOpen
          /\ handles' = IF current = NotOpen THEN handles ELSE handles - 1
  /\ UNCHANGED <<resources, delimiter, index, delimiterPending, reading, room, reply, given>>

-----------------------------------------------------------------------------
InRead ==
  \/ ReadEmpty \/ ReadNothing \/ ReadDelimiter \/ ReadEnd
  \/ OpenNext \/ ReadChunk \/ ReadLast

Next == InRead \/ Close \/ \E n \in 0..MaxRoom : CallRead(n)

\* A Read that was called runs on; nobody has to call it.
Spec == Init /\ [][Next]_rvars /\ WF_rvars(InRead)
-----------------------------------------------------------------------------
(* Properties *)

\* Nothing before the first chapter, the delimiter before any other.
Lead(k, delim) == IF k > 1 THEN delim ELSE <<>>

\* The first k chapters joined by the delimiter.
JoinedTo(res, delim) ==
  LET upTo[k \in 0..Len(res)] ==
        IF k = 0 THEN <<>>
        ELSE upTo[k - 1] \o Lead(k, delim) \o Text[res[k]]
  IN upTo

Joined(res, delim) == JoinedTo(res, delim)[Len(res)]

Whole == Joined(resources, delimiter)

\* The bytes returned are the joined chapters without a gap or a repetition,
\* whatever the buffer sizes, short reads, errors and retries; EOF comes at
\* their end and nowhere else, and no reply is longer than its buffer
\* (content.go:282, resource.go:504).
StreamExact ==
  /\ IsPrefix(given, Whole) /\ Len(reply.data) <= room
  /\ ~reading /\ reply.err = "eof" => given = Whole

\* Exactly the open chapter holds a stream: none is left open behind the
\* reader, and Close releases the last one.
NoLeak ==
  /\ handles = IF current = NotOpen THEN 0 ELSE 1
  /\ closed => handles = 0

\* After Close no Read opens a chapter or returns bytes.
NothingAfterClose ==
  [][closed => current' = NotOpen /\ given' = given]_rvars

\* A Read returns, though it may pass any number of empty chapters.
ReadReturns == reading ~> ~reading
=============================================================================
