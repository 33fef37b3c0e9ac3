----------------------------- MODULE ResourceSet -----------------------------
(***************************************************************************)
(* book.NewResourceSet: every format reader ends by handing it the         *)
(* resources it found, the reading order and the cover, all three as       *)
(* pointers that may be nil, shared or absent from one another, with ids   *)
(* and hrefs as the book declares them.  It builds the list and the two    *)
(* indexes that the whole public API looks resources up in.                *)
(*                                                                         *)
(* Pointers are positions in a heap of resources; a renamed resource is a  *)
(* copy at a new position, and the pointer the caller gave stays as it is. *)
(* The code's seenHref and byHref hold the same until the cover is entered *)
(* and seenHref is not read after that, so one variable stands for both.   *)
(***************************************************************************)
EXTENDS Integers, Sequences, FiniteSets, Hrefs

CONSTANTS
  NoId,        \* the empty id
  Dup(_, _),   \* id__dupN
  MaxDup,      \* bound: candidates tried for a generated id
  Labels,      \* charset labels, "" when none is set
  Canonical,   \* charset.Normalize: one spelling per label, "" for a blank one
  Calls        \* arguments of NewResourceSet: heap, all, order and cover

ASSUME LabelsAssumption ==
  /\ {"", "utf-8", "binary"} \subseteq Labels
  /\ Canonical \in [Labels -> Labels]
  /\ Canonical["utf-8"] = "utf-8" /\ Canonical["binary"] = "binary"
  /\ MaxDup \in Nat

Nil == 0

Resource(id, href, charset, text, entry) ==
  [id |-> id, href |-> href, charset |-> charset, text |-> text, entry |-> entry]

IsResource(r) ==
  /\ r = Resource(r.id, r.href, r.charset, r.text, r.entry)
  /\ r.charset \in Labels /\ r.text \in BOOLEAN

ASSUME CallsAssumption == \A call \in Calls :
  LET pointers == DOMAIN call.heap IN
    /\ call.heap \in Seq({call.heap[p] : p \in pointers})
    /\ \A p \in pointers : IsResource(call.heap[p])
    /\ call.all \in Seq(pointers \cup {Nil}) /\ call.cover \in pointers \cup {Nil}
    /\ call.order \in Seq([resource : pointers \cup {Nil}, linear : BOOLEAN])

VARIABLES
  heap,          \* the resources pointers point to
  all,           \* argument: resources in manifest order
  readingOrder,  \* argument: spine entries [resource, linear]
  cover,         \* argument: the cover or Nil
  phase,         \* what NewResourceSet does next
  index,         \* position in its loop
  byID, byHref,  \* the two indexes
  allCopy,       \* All() so far
  roCopy,        \* ReadingOrder()
  coverAliased   \* CoverImage()

arguments == <<all, readingOrder, cover>>
indexes == <<byID, byHref, allCopy>>
setvars == <<heap, arguments, phase, index, indexes, roCopy, coverAliased>>

\* Nothing entered yet.
EmptySet ==
  /\ index = 1 /\ byID = <<>> /\ byHref = <<>>
  /\ allCopy = <<>> /\ roCopy = <<>> /\ coverAliased = Nil

InitSet == \E call \in Calls :
  /\ heap = call.heap /\ all = call.all
  /\ readingOrder = call.order /\ cover = call.cover
  /\ phase = "normalize" /\ EmptySet

HasHref(p) == heap[p].href # NoHref
Key(p)     == CleanHref(heap[p].href)

Extend(f, key, value) ==
  [x \in DOMAIN f \cup {key} |-> IF x = key THEN value ELSE f[x]]

\* The first generated id nobody has claimed.
FreeId(id, n) ==
  /\ Dup(id, n) \notin DOMAIN byID
  /\ \A m \in 1..n - 1 : Dup(id, m) \in DOMAIN byID

-----------------------------------------------------------------------------
NormalizedCharset(r) ==
  IF Canonical[r.charset] # "" THEN Canonical[r.charset]
  ELSE IF r.text THEN "utf-8" ELSE "binary"

\* Every resource passed in gets its charset, in place.  (The code also drops
\* the nil entries in a pass of its own; here the loops below skip them.)
Normalize ==
  /\ phase = "normalize" /\ phase' = "index"
  /\ LET passed == {all[i] : i \in DOMAIN all} \cup {cover}
                   \cup {readingOrder[i].resource : i \in DOMAIN readingOrder}
     IN heap' = [p \in DOMAIN heap |->
                  IF p \in passed THEN [heap[p] EXCEPT !.charset = NormalizedCharset(heap[p])]
                  ELSE heap[p]]
  /\ UNCHANGED <<arguments, index, indexes, roCopy, coverAliased>>

-----------------------------------------------------------------------------
(* The loop over all. *)
AtResource(p) ==
  /\ phase = "index" /\ index \in DOMAIN all /\ all[index] = p
  /\ index' = index + 1
  /\ UNCHANGED <<arguments, phase, roCopy, coverAliased>>

SkipNil == AtResource(Nil) /\ UNCHANGED <<heap, indexes>>

Duplicate(p) == HasHref(p) /\ Key(p) \in DOMAIN byHref
Claimed(p)   == heap[p].id # NoId /\ heap[p].id \in DOMAIN byID

\* Seeded bug: the id of a duplicate is dropped with it.
SkipDuplicateAndId == \E p \in DOMAIN heap :
  AtResource(p) /\ Duplicate(p) /\ UNCHANGED <<heap, indexes>>

\* A second resource of one href: its id leads to the first, it is left out.
SkipDuplicate == \E p \in DOMAIN heap :
  /\ AtResource(p) /\ Duplicate(p)
  /\ byID' = IF heap[p].id # NoId /\ ~Claimed(p)
             THEN Extend(byID, heap[p].id, byHref[Key(p)]) ELSE byID
  /\ UNCHANGED <<heap, byHref, allCopy>>

\* Pointer p, to resource r, enters the list and the indexes.
Enter(p, r) ==
  /\ byHref' = IF r.href # NoHref THEN Extend(byHref, CleanHref(r.href), p) ELSE byHref
  /\ byID' = IF r.id # NoId THEN Extend(byID, r.id, p) ELSE byID
  /\ allCopy' = Append(allCopy, p)

KeepResource == \E p \in DOMAIN heap :
  /\ AtResource(p) /\ ~Duplicate(p) /\ ~Claimed(p)
  /\ Enter(p, heap[p])
  /\ UNCHANGED heap

\* The id is taken: a copy with a generated id is entered.
RenameResource == \E p \in DOMAIN heap, n \in 1..MaxDup :
  /\ AtResource(p) /\ ~Duplicate(p) /\ Claimed(p) /\ FreeId(heap[p].id, n)
  /\ LET copy == [heap[p] EXCEPT !.id = Dup(heap[p].id, n)] IN
       /\ heap' = Append(heap, copy)
       /\ Enter(Len(heap) + 1, copy)

-----------------------------------------------------------------------------
(* The reading order and the cover point at the entries that were kept. *)

\* Seeded bug: the reading order keeps the pointers it was given.
DedupedNot(p) == p

Deduped(p) == IF Duplicate(p) THEN byHref[Key(p)] ELSE p

StartOrder ==
  /\ phase = "index" /\ index \notin DOMAIN all
  /\ phase' = "order" /\ index' = 1
  /\ UNCHANGED <<heap, arguments, indexes, roCopy, coverAliased>>

\* Seeded bug: a nil entry of the spine is kept.
CanonicalizeItemNil ==
  /\ phase = "order" /\ index \in DOMAIN readingOrder /\ index' = index + 1
  /\ LET item == readingOrder[index]
         resource == IF item.resource = Nil THEN Nil ELSE Deduped(item.resource)
     IN roCopy' = Append(roCopy, [resource |-> resource, linear |-> item.linear])
  /\ UNCHANGED <<heap, arguments, phase, indexes, coverAliased>>

CanonicalizeItem ==
  /\ phase = "order" /\ index \in DOMAIN readingOrder /\ index' = index + 1
  /\ LET item == readingOrder[index] IN
       roCopy' = IF item.resource = Nil THEN roCopy
                 ELSE Append(roCopy, [resource |-> Deduped(item.resource), linear |-> item.linear])
  /\ UNCHANGED <<heap, arguments, phase, indexes, coverAliased>>

AtCover ==
  /\ phase = "order" /\ index \notin DOMAIN readingOrder /\ phase' = "done"
  /\ UNCHANGED <<arguments, index, allCopy, roCopy>>

\* No cover, or one that All() already holds.
AliasCover ==
  /\ AtCover /\ (cover # Nil => Duplicate(cover))
  /\ coverAliased' = IF cover = Nil THEN Nil ELSE Deduped(cover)
  /\ UNCHANGED <<heap, byID, byHref>>

\* A cover outside All() is indexed where its id and href are free.
EnterCover ==
  /\ AtCover /\ cover # Nil /\ ~Duplicate(cover) /\ ~(HasHref(cover) /\ Claimed(cover))
  /\ coverAliased' = cover
  /\ byID' = IF heap[cover].id # NoId /\ ~Claimed(cover)
             THEN Extend(byID, heap[cover].id, cover) ELSE byID
  /\ byHref' = IF HasHref(cover) THEN Extend(byHref, Key(cover), cover) ELSE byHref
  /\ UNCHANGED heap

\* Its id is taken: the copy is the cover, indexed by href only.
RenameCover == \E n \in 1..MaxDup :
  /\ AtCover /\ cover # Nil /\ ~Duplicate(cover)
  /\ HasHref(cover) /\ Claimed(cover) /\ FreeId(heap[cover].id, n)
  /\ heap' = Append(heap, [heap[cover] EXCEPT !.id = Dup(heap[cover].id, n)])
  /\ coverAliased' = Len(heap) + 1
  /\ byHref' = Extend(byHref, Key(cover), Len(heap) + 1)
  /\ UNCHANGED byID

IndexResource == SkipNil \/ SkipDuplicate \/ KeepResource \/ RenameResource
ResolveCover  == AliasCover \/ EnterCover \/ RenameCover

NewResourceSet ==
  Normalize \/ IndexResource \/ StartOrder \/ CanonicalizeItem \/ ResolveCover

SetSpec == InitSet /\ [][NewResourceSet]_setvars

-----------------------------------------------------------------------------
(* Properties. *)

Pointers == DOMAIN heap

\* The state has the shape of the code's slices, maps and pointers, and every
\* pointer points somewhere (normalizeCharsetInPlace dereferences each).
SetTypeOK ==
  /\ heap \in Seq({heap[p] : p \in Pointers})
  /\ \A p \in Pointers : IsResource(heap[p])
  /\ all \in Seq(Pointers \cup {Nil}) /\ allCopy \in Seq(Pointers)
  /\ readingOrder \in Seq([resource : Pointers \cup {Nil}, linear : BOOLEAN])
  /\ roCopy \in Seq([resource : Pointers, linear : BOOLEAN])
  /\ {cover, coverAliased} \subseteq Pointers \cup {Nil}
  /\ byID \in [DOMAIN byID -> Pointers] /\ byHref \in [DOMAIN byHref -> Pointers]
  /\ index \in Nat \ {0} /\ (phase = "index" => index <= Len(all) + 1)
  /\ phase = "order" => index <= Len(readingOrder) + 1

\* All() holds one resource per href and per id.
UniqueEntries == \A i, j \in DOMAIN allCopy : i # j =>
  LET p == allCopy[i]  q == allCopy[j] IN
    /\ HasHref(p) /\ HasHref(q) => Key(p) # Key(q)
    /\ heap[p].id # NoId => heap[p].id # heap[q].id

\* GetByID and GetByHref lead from the id and the href of an entry back to it.
EntriesIndexed == \A i \in DOMAIN allCopy :
  LET p == allCopy[i] IN
    /\ HasHref(p) => Key(p) \in DOMAIN byHref /\ byHref[Key(p)] = p
    /\ heap[p].id # NoId => heap[p].id \in DOMAIN byID /\ byID[heap[p].id] = p

\* Pointer p is the entry of its file, if All() has an entry for that file.
IsTheEntry(p) == HasHref(p) =>
  \A i \in DOMAIN allCopy : HasHref(allCopy[i]) /\ Key(allCopy[i]) = Key(p) => p = allCopy[i]

\* All(), GetByID, GetByHref, ReadingOrder and CoverImage agree: whichever way
\* a client reaches a file of All(), it holds the same resource, so that
\* comparing pointers tells the cover or a chapter apart (book/resource.go
\* "Canonicalize readingOrder", "Cover alias"); and the entries are unique and
\* found under their own id and href, whatever ids and hrefs were declared.
IndexesExact ==
  /\ UniqueEntries /\ EntriesIndexed
  /\ \A key \in DOMAIN byHref :
       LET p == byHref[key] IN HasHref(p) /\ Key(p) = key /\ IsTheEntry(p)
  /\ \A id \in DOMAIN byID : IsTheEntry(byID[id])
  /\ \A i \in DOMAIN roCopy : IsTheEntry(roCopy[i].resource)
  /\ coverAliased # Nil => IsTheEntry(coverAliased)

SameFile(p, q)   == p = q \/ (HasHref(p) /\ HasHref(q) /\ Key(p) = Key(q))
Passed           == {i \in DOMAIN all : all[i] # Nil}
Before(i)        == {j \in Passed : j < i}
FirstOfFile(i)   == HasHref(all[i]) => \A j \in Before(i) : ~SameFile(all[j], all[i])
Kept             == {i \in Passed : FirstOfFile(i)}
Place(i)         == Cardinality({j \in Kept : j <= i})
Generated(id)    == \E p \in Pointers, n \in 1..MaxDup : id = Dup(heap[p].id, n)
FirstWithId(i)   == \A j \in Before(i) : heap[all[j]].id # heap[all[i]].id
Apart(p)         == [heap[p] EXCEPT !.id = NoId]

\* Removing duplicates loses nothing: All() is the first resource of every
\* file in manifest order, changed in its id at most; every declared id still
\* leads to a resource, and to the file of its first bearer unless it looks
\* like a generated one; and no resource a client can reach is without charset
\* (book/resource.go:236-239, book/charset.go "never empty").
NothingLost == phase \in {"order", "done"} =>
  /\ Len(allCopy) = Cardinality(Kept)
  /\ \A i \in Kept : Apart(allCopy[Place(i)]) = Apart(all[i])
  /\ \A i \in Passed : LET id == heap[all[i]].id IN id # NoId =>
       /\ id \in DOMAIN byID
       /\ FirstWithId(i) /\ ~Generated(id) => SameFile(byID[id], all[i])
  /\ \A p \in {allCopy[i] : i \in DOMAIN allCopy}
           \cup {roCopy[i].resource : i \in DOMAIN roCopy} \cup ({coverAliased} \ {Nil}) :
       heap[p].charset # ""

=============================================================================
