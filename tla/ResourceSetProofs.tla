------------------------- MODULE ResourceSetProofs -------------------------
(***************************************************************************)
(* Proofs about ResourceSet, for every call of NewResourceSet: whatever    *)
(* ids and hrefs the arguments declare, the indexes are exact and nothing  *)
(* is lost.                                                                *)
(***************************************************************************)
EXTENDS ResourceSet, SequenceTheorems, FiniteSetTheorems, TLAPS

-----------------------------------------------------------------------------
(* Sequences and growing functions *)

\* A value is a sequence over S exactly if it maps 1..n to S.
LEMMA SeqFunction ==
  ASSUME NEW S, NEW s
  PROVE  s \in Seq(S) <=> Len(s) \in Nat /\ s \in [1..Len(s) -> S]
BY LenProperties

\* What Append does.
LEMMA AppendFacts ==
  ASSUME NEW S, NEW s \in Seq(S), NEW x \in S
  PROVE  /\ Append(s, x) \in Seq(S)
         /\ Len(Append(s, x)) = Len(s) + 1
         /\ DOMAIN Append(s, x) = DOMAIN s \cup {Len(s) + 1}
         /\ Len(s) + 1 \notin DOMAIN s
         /\ \A i \in DOMAIN s : Append(s, x)[i] = s[i]
         /\ Append(s, x)[Len(s) + 1] = x
<1>1. /\ Append(s, x) \in Seq(S) /\ Len(Append(s, x)) = Len(s) + 1
      /\ \A i \in 1..Len(s) : Append(s, x)[i] = s[i]
      /\ Append(s, x)[Len(s) + 1] = x
  BY AppendProperties
<1>2. DOMAIN s = 1..Len(s) /\ Len(s) \in Nat
  BY LenProperties
<1>3. DOMAIN Append(s, x) = 1..Len(s) + 1
  BY <1>1, LenProperties
<1> QED
  BY <1>1, <1>2, <1>3

\* The values of a map with one more key.
LEMMA ExtendTyped ==
  ASSUME NEW S, NEW v \in S, NEW k, NEW f, f \in [DOMAIN f -> S]
  PROVE  Extend(f, k, v) \in [DOMAIN Extend(f, k, v) -> S]
BY DEF Extend

-----------------------------------------------------------------------------
(* The heap only grows, and resources keep their id and href *)

HeapOK ==
  /\ heap \in Seq({heap[p] : p \in Pointers})
  /\ \A p \in Pointers : IsResource(heap[p])

Preserved ==
  /\ Pointers \subseteq Pointers'
  /\ \A p \in Pointers : heap'[p].id = heap[p].id /\ heap'[p].href = heap[p].href

\* A copy at a new position leaves the heap as it was up to there.
LEMMA CopyHeap ==
  ASSUME HeapOK, NEW r, IsResource(r), heap' = Append(heap, r)
  PROVE  /\ HeapOK' /\ Preserved
         /\ Pointers' = Pointers \cup {Len(heap) + 1}
         /\ Len(heap) + 1 \notin Pointers
         /\ \A p \in Pointers : heap'[p] = heap[p]
         /\ heap'[Len(heap) + 1] = r
<1> DEFINE S == {heap[p] : p \in Pointers} \cup {r}
<1>1. heap \in Seq(S) /\ r \in S
  <2>1. heap \in Seq({heap[p] : p \in Pointers}) /\ {heap[p] : p \in Pointers} \subseteq S
    BY DEF HeapOK
  <2> QED
    BY <2>1, SeqMonotonic
<1> HIDE DEF S
<1>2. /\ heap' \in Seq(S) /\ DOMAIN heap' = DOMAIN heap \cup {Len(heap) + 1}
      /\ Len(heap) + 1 \notin DOMAIN heap
      /\ \A p \in DOMAIN heap : heap'[p] = heap[p]
      /\ heap'[Len(heap) + 1] = r
  BY <1>1, AppendFacts
<1>3. heap' \in Seq({heap'[p] : p \in DOMAIN heap'})
  <2>1. Len(heap') \in Nat /\ DOMAIN heap' = 1..Len(heap') /\ heap' \in [1..Len(heap') -> S]
    BY <1>2, LenProperties, SeqFunction
  <2>2. heap' \in [1..Len(heap') -> {heap'[p] : p \in DOMAIN heap'}]
    BY <2>1
  <2> QED
    BY <2>1, <2>2, SeqFunction
<1>4. \A p \in DOMAIN heap' : IsResource(heap'[p])
  BY <1>2 DEF HeapOK, Pointers
<1> QED
  BY <1>2, <1>3, <1>4 DEF HeapOK, Preserved, Pointers, IsResource

\* A copy differs from its resource in the id only.
LEMMA RenamedResource ==
  ASSUME NEW r, IsResource(r), NEW id
  PROVE  /\ IsResource([r EXCEPT !.id = id])
         /\ [r EXCEPT !.id = id].id = id /\ [r EXCEPT !.id = id].href = r.href
BY DEF IsResource, Resource

\* Setting the charsets changes neither ids nor hrefs nor the number of resources.
LEMMA NormalizeHeap ==
  ASSUME HeapOK, Normalize
  PROVE  HeapOK' /\ Preserved /\ Pointers' = Pointers
<1>1. /\ Pointers' = Pointers
      /\ \A p \in Pointers : \/ heap'[p] = heap[p]
                             \/ heap'[p] = [heap[p] EXCEPT !.charset = NormalizedCharset(heap[p])]
  BY DEF Normalize, Pointers
<1>2. \A p \in Pointers : /\ IsResource(heap'[p])
                          /\ heap'[p].id = heap[p].id /\ heap'[p].href = heap[p].href
  <2> SUFFICES ASSUME NEW p \in Pointers
               PROVE  /\ IsResource(heap'[p])
                      /\ heap'[p].id = heap[p].id /\ heap'[p].href = heap[p].href
    OBVIOUS
  <2>1. IsResource(heap[p])
    BY DEF HeapOK
  <2>2. NormalizedCharset(heap[p]) \in Labels
    BY <2>1, LabelsAssumption DEF NormalizedCharset, IsResource
  <2>3. CASE heap'[p] = heap[p]
    BY <2>1, <2>3
  <2>4. CASE heap'[p] = [heap[p] EXCEPT !.charset = NormalizedCharset(heap[p])]
    BY <2>1, <2>2, <2>4 DEF IsResource, Resource
  <2> QED
    BY <1>1, <2>3, <2>4
<1>3. heap' \in Seq({heap'[p] : p \in Pointers'})
  <2>1. Len(heap) \in Nat /\ DOMAIN heap = 1..Len(heap)
    BY LenProperties DEF HeapOK
  <2>2. heap' \in [1..Len(heap) -> {heap'[p] : p \in Pointers'}]
    BY <1>1, <2>1 DEF Normalize, Pointers
  <2> QED
    BY <2>1, <2>2
<1> QED
  BY <1>1, <1>2, <1>3 DEF HeapOK, Preserved

-----------------------------------------------------------------------------
(* Types *)

ArgumentsOK(P) ==
  /\ all \in Seq(P \cup {Nil})
  /\ readingOrder \in Seq([resource : P \cup {Nil}, linear : BOOLEAN])
  /\ cover \in P \cup {Nil}

BuiltOK(P) ==
  /\ allCopy \in Seq(P) /\ roCopy \in Seq([resource : P, linear : BOOLEAN])
  /\ coverAliased \in P \cup {Nil}
  /\ byID \in [DOMAIN byID -> P] /\ byHref \in [DOMAIN byHref -> P]

IndexOK ==
  /\ index \in Nat \ {0}
  /\ phase = "index" => index <= Len(all) + 1
  /\ phase = "order" => index <= Len(readingOrder) + 1

\* What is still untouched in each phase.
Stages ==
  /\ phase \in {"normalize", "index", "order", "done"}
  /\ phase = "normalize" => index = 1
  /\ phase \in {"normalize", "index"} => roCopy = <<>>
  /\ phase # "done" => coverAliased = Nil

Typed == SetTypeOK /\ Stages

LEMMA TypeParts ==
  SetTypeOK <=> HeapOK /\ ArgumentsOK(Pointers) /\ BuiltOK(Pointers) /\ IndexOK
BY DEF SetTypeOK, HeapOK, ArgumentsOK, BuiltOK, IndexOK

\* More pointers, same types.
LEMMA Widen ==
  ASSUME NEW P, NEW Q, P \subseteq Q
  PROVE  /\ ArgumentsOK(P) => ArgumentsOK(Q)
         /\ BuiltOK(P) => BuiltOK(Q)
<1> DEFINE ItemsP == [resource : P \cup {Nil}, linear : BOOLEAN]
           ItemsQ == [resource : Q \cup {Nil}, linear : BOOLEAN]
           EntriesP == [resource : P, linear : BOOLEAN]
           EntriesQ == [resource : Q, linear : BOOLEAN]
<1>1. ItemsP \subseteq ItemsQ /\ EntriesP \subseteq EntriesQ
  OBVIOUS
<1>2. /\ \A s \in Seq(P \cup {Nil}) : s \in Seq(Q \cup {Nil})
      /\ \A s \in Seq(P) : s \in Seq(Q)
  BY SeqMonotonic
<1> HIDE DEF ItemsP, ItemsQ, EntriesP, EntriesQ
<1>3. /\ \A s \in Seq(ItemsP) : s \in Seq(ItemsQ)
      /\ \A s \in Seq(EntriesP) : s \in Seq(EntriesQ)
  BY <1>1, SeqMonotonic
<1>4. ASSUME ArgumentsOK(P) PROVE ArgumentsOK(Q)
  BY <1>2, <1>3, <1>4 DEF ArgumentsOK, ItemsP, ItemsQ
<1>5. ASSUME BuiltOK(P) PROVE BuiltOK(Q)
  <2>1. /\ allCopy \in Seq(Q) /\ roCopy \in Seq([resource : Q, linear : BOOLEAN])
        /\ coverAliased \in Q \cup {Nil}
    BY <1>2, <1>3, <1>5 DEF BuiltOK, EntriesP, EntriesQ
  <2>2. byID \in [DOMAIN byID -> Q] /\ byHref \in [DOMAIN byHref -> Q]
    BY <1>5 DEF BuiltOK
  <2> QED
    BY <2>1, <2>2 DEF BuiltOK
<1> QED
  BY <1>4, <1>5

\* Any heap and lists may be handed over.
LEMMA StartTyped ==
  ASSUME HeapOK, ArgumentsOK(Pointers), phase = "normalize", EmptySet
  PROVE  Typed
<1>1. BuiltOK(Pointers)
  <2>1. allCopy = <<>> /\ roCopy = <<>> /\ coverAliased = Nil /\ byID = <<>> /\ byHref = <<>>
    BY DEF EmptySet
  <2>2. \A P : <<>> \in Seq(P)
    OBVIOUS
  <2>3. \A P : <<>> \in [DOMAIN <<>> -> P]
    OBVIOUS
  <2> QED
    BY <2>1, <2>2, <2>3 DEF BuiltOK
<1>2. IndexOK /\ Stages
  BY DEF IndexOK, Stages, EmptySet
<1> QED
  BY <1>1, <1>2, TypeParts DEF Typed

LEMMA TypeInit == InitSet => Typed
<1> SUFFICES ASSUME InitSet PROVE Typed
  OBVIOUS
<1>1. PICK call \in Calls :
        /\ heap = call.heap /\ all = call.all
        /\ readingOrder = call.order /\ cover = call.cover
        /\ phase = "normalize" /\ EmptySet
  BY DEF InitSet
<1>2. HeapOK /\ ArgumentsOK(Pointers)
  BY <1>1, CallsAssumption DEF HeapOK, ArgumentsOK, Pointers
<1> QED
  BY <1>1, <1>2, StartTyped

\* The arguments and what is built keep their types while the heap grows.
LEMMA KeepTypes ==
  ASSUME SetTypeOK, Preserved, UNCHANGED arguments
  PROVE  /\ ArgumentsOK(Pointers)'
         /\ UNCHANGED <<indexes, roCopy, coverAliased>> => BuiltOK(Pointers)'
         /\ BuiltOK(Pointers')
<1>1. Pointers \subseteq Pointers' /\ ArgumentsOK(Pointers) /\ BuiltOK(Pointers)
  BY TypeParts DEF Preserved
<1>2. ArgumentsOK(Pointers') /\ BuiltOK(Pointers')
  BY <1>1, Widen
<1>3. ArgumentsOK(Pointers)'
  BY <1>2 DEF ArgumentsOK, arguments
<1>4. UNCHANGED <<indexes, roCopy, coverAliased>> => BuiltOK(Pointers)'
  BY <1>2 DEF BuiltOK, indexes
<1> QED
  BY <1>2, <1>3, <1>4

\* Entering a resource keeps the types of the list and the indexes.
LEMMA EnterTyped ==
  ASSUME SetTypeOK, Preserved, UNCHANGED <<arguments, roCopy, coverAliased>>,
         NEW p \in Pointers', NEW r, Enter(p, r)
  PROVE  ArgumentsOK(Pointers)' /\ BuiltOK(Pointers)'
<1>1. ArgumentsOK(Pointers)' /\ BuiltOK(Pointers')
  BY KeepTypes DEF arguments
<1>2. allCopy' \in Seq(Pointers')
  BY <1>1, AppendFacts DEF Enter, BuiltOK
<1>3. byHref' \in [DOMAIN byHref' -> Pointers'] /\ byID' \in [DOMAIN byID' -> Pointers']
  <2>1. \A f, k : f \in [DOMAIN f -> Pointers']
                   => Extend(f, k, p) \in [DOMAIN Extend(f, k, p) -> Pointers']
    BY ExtendTyped
  <2>2. byHref \in [DOMAIN byHref -> Pointers'] /\ byID \in [DOMAIN byID -> Pointers']
    BY <1>1 DEF BuiltOK
  <2>3. byHref' = byHref \/ byHref' = Extend(byHref, CleanHref(r.href), p)
    BY DEF Enter
  <2>4. byID' = byID \/ byID' = Extend(byID, r.id, p)
    BY DEF Enter
  <2>5. byHref' \in [DOMAIN byHref' -> Pointers']
    BY <2>1, <2>2, <2>3
  <2>6. byID' \in [DOMAIN byID' -> Pointers']
    BY <2>1, <2>2, <2>4
  <2> QED
    BY <2>5, <2>6
<1>4. BuiltOK(Pointers)'
  BY <1>1, <1>2, <1>3 DEF BuiltOK
<1> QED
  BY <1>1, <1>4

\* Leaving the heap alone preserves it.
LEMMA SameHeap ==
  ASSUME HeapOK, UNCHANGED heap
  PROVE  HeapOK' /\ Preserved
BY DEF HeapOK, Preserved, Pointers

\* One turn of the loop over all.
LEMMA AtResourceIndex ==
  ASSUME Typed, NEW p, AtResource(p)
  PROVE  IndexOK' /\ Stages' /\ UNCHANGED <<arguments, roCopy, coverAliased>>
<1>1. index \in DOMAIN all /\ DOMAIN all = 1..Len(all) /\ Len(all) \in Nat
  BY LenProperties, TypeParts DEF Typed, AtResource, ArgumentsOK
<1>2. index \in Nat /\ index <= Len(all)
  BY <1>1
<1>3. IndexOK'
  BY <1>2 DEF AtResource, IndexOK, arguments
<1>4. Stages'
  BY DEF AtResource, Typed, Stages
<1> QED
  BY <1>3, <1>4 DEF AtResource

-----------------------------------------------------------------------------
(* Each step keeps the types and preserves ids and hrefs. *)

\* What every step establishes besides the indexes.
StepTyped == Typed' /\ Preserved

LEMMA TypedIntro ==
  ASSUME HeapOK', Preserved, ArgumentsOK(Pointers)', BuiltOK(Pointers)', IndexOK', Stages'
  PROVE  StepTyped
BY TypeParts DEF StepTyped, Typed, SetTypeOK, HeapOK, ArgumentsOK, BuiltOK, IndexOK

LEMMA NormalizeTyped == ASSUME Typed, Normalize PROVE StepTyped
<1>1. HeapOK' /\ Preserved
  BY NormalizeHeap, TypeParts DEF Typed
<1>2. ArgumentsOK(Pointers)' /\ BuiltOK(Pointers)'
  BY <1>1, KeepTypes DEF Typed, Normalize
<1>3. IndexOK' /\ Stages'
  <2>1. Len(all) \in Nat
    BY LenProperties, TypeParts DEF Typed, ArgumentsOK
  <2> QED
    BY <2>1, TypeParts DEF Typed, Normalize, IndexOK, Stages, arguments
<1> QED
  BY <1>1, <1>2, <1>3, TypedIntro

LEMMA SkipNilTyped == ASSUME Typed, SkipNil PROVE StepTyped
<1>1. HeapOK' /\ Preserved
  BY SameHeap, TypeParts DEF Typed, SkipNil
<1>2. IndexOK' /\ Stages' /\ UNCHANGED <<arguments, roCopy, coverAliased>>
  BY AtResourceIndex DEF SkipNil
<1>3. ArgumentsOK(Pointers)' /\ BuiltOK(Pointers)'
  BY <1>1, <1>2, KeepTypes DEF Typed, SkipNil
<1> QED
  BY <1>1, <1>2, <1>3, TypedIntro

LEMMA SkipDuplicateTyped == ASSUME Typed, SkipDuplicate PROVE StepTyped
<1>1. PICK p \in DOMAIN heap :
        /\ AtResource(p) /\ Duplicate(p)
        /\ byID' = IF heap[p].id # NoId /\ ~Claimed(p)
                   THEN Extend(byID, heap[p].id, byHref[Key(p)]) ELSE byID
        /\ UNCHANGED <<heap, byHref, allCopy>>
  BY DEF SkipDuplicate
<1>2. HeapOK' /\ Preserved
  BY <1>1, SameHeap, TypeParts DEF Typed
<1>3. IndexOK' /\ Stages' /\ UNCHANGED <<arguments, roCopy, coverAliased>>
  BY <1>1, AtResourceIndex
<1>4. ArgumentsOK(Pointers)' /\ BuiltOK(Pointers')
  BY <1>2, <1>3, KeepTypes DEF Typed
<1>5. byID' \in [DOMAIN byID' -> Pointers']
  <2>1. byHref[Key(p)] \in Pointers' /\ byID \in [DOMAIN byID -> Pointers']
    BY <1>1, <1>4 DEF Duplicate, BuiltOK
  <2>2. Extend(byID, heap[p].id, byHref[Key(p)])
          \in [DOMAIN Extend(byID, heap[p].id, byHref[Key(p)]) -> Pointers']
    BY <2>1, ExtendTyped
  <2> QED
    BY <1>1, <2>1, <2>2
<1>6. BuiltOK(Pointers)'
  BY <1>1, <1>3, <1>4, <1>5 DEF BuiltOK
<1> QED
  BY <1>2, <1>3, <1>4, <1>6, TypedIntro

LEMMA KeepResourceTyped == ASSUME Typed, KeepResource PROVE StepTyped
<1>1. PICK p \in DOMAIN heap : AtResource(p) /\ Enter(p, heap[p]) /\ UNCHANGED heap
  BY DEF KeepResource
<1>2. HeapOK' /\ Preserved /\ p \in Pointers'
  BY <1>1, SameHeap, TypeParts DEF Typed, Pointers
<1>3. IndexOK' /\ Stages' /\ UNCHANGED <<arguments, roCopy, coverAliased>>
  BY <1>1, AtResourceIndex
<1>4. ArgumentsOK(Pointers)' /\ BuiltOK(Pointers)'
  BY <1>1, <1>2, <1>3, EnterTyped DEF Typed
<1> QED
  BY <1>2, <1>3, <1>4, TypedIntro

LEMMA RenameResourceTyped == ASSUME Typed, RenameResource PROVE StepTyped
<1>1. PICK p \in DOMAIN heap, n \in 1..MaxDup :
        /\ AtResource(p)
        /\ heap' = Append(heap, [heap[p] EXCEPT !.id = Dup(heap[p].id, n)])
        /\ Enter(Len(heap) + 1, [heap[p] EXCEPT !.id = Dup(heap[p].id, n)])
  BY DEF RenameResource
<1>2. IsResource([heap[p] EXCEPT !.id = Dup(heap[p].id, n)])
  BY RenamedResource, TypeParts DEF Typed, HeapOK, Pointers
<1>3. HeapOK' /\ Preserved /\ Len(heap) + 1 \in Pointers'
  BY <1>1, <1>2, CopyHeap, TypeParts DEF Typed
<1>4. IndexOK' /\ Stages' /\ UNCHANGED <<arguments, roCopy, coverAliased>>
  BY <1>1, AtResourceIndex
<1>5. ArgumentsOK(Pointers)' /\ BuiltOK(Pointers)'
  BY <1>1, <1>3, <1>4, EnterTyped DEF Typed
<1> QED
  BY <1>3, <1>4, <1>5, TypedIntro

LEMMA StartOrderTyped == ASSUME Typed, StartOrder PROVE StepTyped
<1>1. HeapOK' /\ Preserved
  BY SameHeap, TypeParts DEF Typed, StartOrder
<1>2. ArgumentsOK(Pointers)' /\ BuiltOK(Pointers)'
  BY <1>1, KeepTypes DEF Typed, StartOrder
<1>3. Len(readingOrder) \in Nat
  BY LenProperties, TypeParts DEF Typed, ArgumentsOK
<1>4. IndexOK' /\ Stages'
  BY <1>3 DEF Typed, StartOrder, IndexOK, Stages, arguments
<1> QED
  BY <1>1, <1>2, <1>4, TypedIntro

LEMMA CanonicalizeItemTyped == ASSUME Typed, CanonicalizeItem PROVE StepTyped
<1> DEFINE item == readingOrder[index]
           Entries == [resource : Pointers, linear : BOOLEAN]
           entry == [resource |-> Deduped(item.resource), linear |-> item.linear]
<1>1. HeapOK' /\ Preserved
  BY SameHeap, TypeParts DEF Typed, CanonicalizeItem
<1>2. ArgumentsOK(Pointers)'
  BY <1>1, KeepTypes DEF Typed, CanonicalizeItem
<1>3. /\ index \in DOMAIN readingOrder /\ Len(readingOrder) \in Nat
      /\ DOMAIN readingOrder = 1..Len(readingOrder)
      /\ item \in [resource : Pointers \cup {Nil}, linear : BOOLEAN]
  BY LenProperties, ElementOfSeq, TypeParts DEF Typed, ArgumentsOK, CanonicalizeItem
<1>4. IndexOK' /\ Stages'
  <2>1. index' = index + 1 /\ index \in Nat /\ index <= Len(readingOrder)
    BY <1>3, TypeParts DEF Typed, CanonicalizeItem, IndexOK
  <2>2. phase = "order" /\ phase' = "order" /\ readingOrder' = readingOrder
    BY DEF CanonicalizeItem, arguments
  <2>3. coverAliased' = coverAliased
    BY DEF CanonicalizeItem
  <2> QED
    BY <1>3, <2>1, <2>2, <2>3 DEF Typed, IndexOK, Stages
<1>5. item.resource # Nil => entry \in Entries
  <2>1. \A p \in Pointers : Deduped(p) \in Pointers
    BY TypeParts DEF Typed, BuiltOK, Deduped, Duplicate
  <2> QED
    BY <1>3, <2>1
<1>6. roCopy \in Seq(Entries)
  BY TypeParts DEF Typed, BuiltOK
<1>7. roCopy' = IF item.resource = Nil THEN roCopy ELSE Append(roCopy, entry)
  BY DEF CanonicalizeItem
<1> HIDE DEF item, Entries, entry
<1>8. roCopy' \in Seq(Entries)
  BY <1>5, <1>6, <1>7, AppendFacts
<1>9. Pointers' = Pointers
  BY DEF CanonicalizeItem, Pointers
<1>10. BuiltOK(Pointers)'
  BY <1>8, <1>9, TypeParts DEF Typed, BuiltOK, Entries, CanonicalizeItem, indexes
<1> QED
  BY <1>1, <1>2, <1>4, <1>10, TypedIntro

LEMMA AtCoverStages ==
  ASSUME Typed, AtCover PROVE IndexOK' /\ Stages' /\ UNCHANGED arguments
BY TypeParts DEF AtCover, Typed, IndexOK, Stages

LEMMA AliasCoverTyped == ASSUME Typed, AliasCover PROVE StepTyped
<1>1. HeapOK' /\ Preserved
  BY SameHeap, TypeParts DEF Typed, AliasCover
<1>2. IndexOK' /\ Stages' /\ UNCHANGED arguments
  BY AtCoverStages DEF AliasCover
<1>3. ArgumentsOK(Pointers)' /\ BuiltOK(Pointers')
  BY <1>1, <1>2, KeepTypes DEF Typed
<1>4. coverAliased' \in Pointers' \cup {Nil}
  <2>1. cover \in Pointers \cup {Nil} /\ byHref \in [DOMAIN byHref -> Pointers]
    BY TypeParts DEF Typed, ArgumentsOK, BuiltOK
  <2> QED
    BY <1>1, <2>1 DEF AliasCover, Deduped, Duplicate, Preserved
<1>5. BuiltOK(Pointers)'
  BY <1>3, <1>4 DEF BuiltOK, AliasCover, AtCover
<1> QED
  BY <1>1, <1>2, <1>3, <1>5, TypedIntro

\* The indexes after the cover entered them.
LEMMA CoverIndexesTyped ==
  ASSUME Typed, Preserved, BuiltOK(Pointers'), NEW p \in Pointers', NEW id, NEW key,
         byID' = byID \/ byID' = Extend(byID, id, p),
         byHref' = byHref \/ byHref' = Extend(byHref, key, p)
  PROVE  byID' \in [DOMAIN byID' -> Pointers'] /\ byHref' \in [DOMAIN byHref' -> Pointers']
<1>1. byHref \in [DOMAIN byHref -> Pointers'] /\ byID \in [DOMAIN byID -> Pointers']
  BY DEF BuiltOK
<1>2. /\ Extend(byID, id, p) \in [DOMAIN Extend(byID, id, p) -> Pointers']
      /\ Extend(byHref, key, p) \in [DOMAIN Extend(byHref, key, p) -> Pointers']
  BY <1>1, ExtendTyped
<1>3. byID' \in [DOMAIN byID' -> Pointers']
  BY <1>1, <1>2
<1>4. byHref' \in [DOMAIN byHref' -> Pointers']
  BY <1>1, <1>2
<1> QED
  BY <1>3, <1>4

LEMMA EnterCoverTyped == ASSUME Typed, EnterCover PROVE StepTyped
<1>1. HeapOK' /\ Preserved
  BY SameHeap, TypeParts DEF Typed, EnterCover
<1>2. IndexOK' /\ Stages' /\ UNCHANGED arguments
  BY AtCoverStages DEF EnterCover
<1>3. ArgumentsOK(Pointers)' /\ BuiltOK(Pointers')
  BY <1>1, <1>2, KeepTypes DEF Typed
<1>4. cover \in Pointers'
  BY <1>1, TypeParts DEF Typed, ArgumentsOK, EnterCover, Preserved
<1>5. byID' \in [DOMAIN byID' -> Pointers'] /\ byHref' \in [DOMAIN byHref' -> Pointers']
  <2>1. byID' = byID \/ byID' = Extend(byID, heap[cover].id, cover)
    BY DEF EnterCover
  <2>2. byHref' = byHref \/ byHref' = Extend(byHref, Key(cover), cover)
    BY DEF EnterCover
  <2> QED
    BY <1>1, <1>3, <1>4, <2>1, <2>2, CoverIndexesTyped
<1>6. BuiltOK(Pointers)'
  BY <1>3, <1>4, <1>5 DEF BuiltOK, EnterCover, AtCover
<1> QED
  BY <1>1, <1>2, <1>3, <1>6, TypedIntro

LEMMA RenameCoverTyped == ASSUME Typed, RenameCover PROVE StepTyped
<1>1. PICK n \in 1..MaxDup :
        /\ AtCover /\ cover # Nil
        /\ heap' = Append(heap, [heap[cover] EXCEPT !.id = Dup(heap[cover].id, n)])
        /\ coverAliased' = Len(heap) + 1
        /\ byHref' = Extend(byHref, Key(cover), Len(heap) + 1)
        /\ UNCHANGED byID
  BY DEF RenameCover
<1>2. IsResource([heap[cover] EXCEPT !.id = Dup(heap[cover].id, n)])
  BY <1>1, RenamedResource, TypeParts DEF Typed, HeapOK, ArgumentsOK
<1>3. HeapOK' /\ Preserved /\ Len(heap) + 1 \in Pointers'
  BY <1>1, <1>2, CopyHeap, TypeParts DEF Typed
<1>4. IndexOK' /\ Stages' /\ UNCHANGED arguments
  BY <1>1, AtCoverStages
<1>5. ArgumentsOK(Pointers)' /\ BuiltOK(Pointers')
  BY <1>3, <1>4, KeepTypes DEF Typed
<1>6. byID' \in [DOMAIN byID' -> Pointers'] /\ byHref' \in [DOMAIN byHref' -> Pointers']
  BY <1>1, <1>3, <1>5, CoverIndexesTyped
<1>7. BuiltOK(Pointers)'
  BY <1>1, <1>3, <1>5, <1>6 DEF BuiltOK, AtCover
<1> QED
  BY <1>3, <1>4, <1>5, <1>7, TypedIntro

LEMMA StepIsTyped == ASSUME Typed, NewResourceSet PROVE StepTyped
<1>1. CASE IndexResource
  BY <1>1, SkipNilTyped, SkipDuplicateTyped, KeepResourceTyped, RenameResourceTyped
  DEF IndexResource
<1>2. CASE ResolveCover
  BY <1>2, AliasCoverTyped, EnterCoverTyped, RenameCoverTyped DEF ResolveCover
<1> QED
  BY <1>1, <1>2, NormalizeTyped, StartOrderTyped, CanonicalizeItemTyped DEF NewResourceSet

LEMMA TypedStutter == ASSUME Typed, UNCHANGED setvars PROVE Typed'
<1>1. HeapOK' /\ Preserved /\ UNCHANGED <<arguments, indexes, roCopy, coverAliased>>
  BY SameHeap, TypeParts DEF Typed, setvars
<1>2. ArgumentsOK(Pointers)' /\ BuiltOK(Pointers)'
  BY <1>1, KeepTypes DEF Typed
<1>3. IndexOK' /\ Stages'
  BY TypeParts DEF Typed, IndexOK, Stages, setvars, arguments
<1> QED
  BY <1>1, <1>2, <1>3, TypedIntro DEF StepTyped

LEMMA TypeStep == Typed /\ [NewResourceSet]_setvars => Typed'
BY StepIsTyped, TypedStutter DEF StepTyped

\* Every pointer NewResourceSet follows points to a resource, and its slices
\* and maps keep their shape (book/resource.go:248-379).
THEOREM SetTypes == SetSpec => []SetTypeOK
<1>1. Typed => SetTypeOK
  BY DEF Typed
<1> QED
  BY <1>1, TypeInit, TypeStep, PTL DEF SetSpec

-----------------------------------------------------------------------------
(* The indexes.  An entry of either index is found under its own href: this  *)
(* is what makes every path to a file end at one resource.                   *)

Found(p) == HasHref(p) => Key(p) \in DOMAIN byHref /\ byHref[Key(p)] = p

KeysExact == \A key \in DOMAIN byHref : HasHref(byHref[key]) /\ Key(byHref[key]) = key
IdsFound  == \A id \in DOMAIN byID : Found(byID[id])
EntryOrNil(p) == p # Nil => IsTheEntry(p)
AllServed == (\A i \in DOMAIN roCopy : IsTheEntry(roCopy[i].resource)) /\ EntryOrNil(coverAliased)

Lists == UniqueEntries /\ EntriesIndexed
Exact == Lists /\ KeysExact /\ IdsFound /\ AllServed

\* A resource found under its href is the entry of its file.
LEMMA FoundIsEntry ==
  ASSUME EntriesIndexed, NEW p, Found(p)
  PROVE  IsTheEntry(p)
BY DEF EntriesIndexed, Found, IsTheEntry

LEMMA ExactIndexes == Exact => IndexesExact
<1> SUFFICES ASSUME Exact PROVE IndexesExact
  OBVIOUS
<1>1. EntriesIndexed
  BY DEF Exact, Lists
<1>2. \A key \in DOMAIN byHref :
        HasHref(byHref[key]) /\ Key(byHref[key]) = key /\ IsTheEntry(byHref[key])
  <2> SUFFICES ASSUME NEW key \in DOMAIN byHref
               PROVE  HasHref(byHref[key]) /\ Key(byHref[key]) = key /\ IsTheEntry(byHref[key])
    OBVIOUS
  <2>1. HasHref(byHref[key]) /\ Key(byHref[key]) = key
    BY DEF Exact, KeysExact
  <2>2. Found(byHref[key])
    BY <2>1 DEF Found
  <2> QED
    BY <1>1, <2>1, <2>2, FoundIsEntry
<1>3. \A id \in DOMAIN byID : IsTheEntry(byID[id])
  <2> SUFFICES ASSUME NEW id \in DOMAIN byID PROVE IsTheEntry(byID[id])
    OBVIOUS
  <2>1. Found(byID[id])
    BY DEF Exact, IdsFound
  <2> QED
    BY <1>1, <2>1, FoundIsEntry
<1> QED
  BY <1>2, <1>3 DEF Exact, Lists, AllServed, EntryOrNil, IndexesExact

LEMMA ExactInit == EmptySet => Exact
BY DEF EmptySet, Exact, Lists, UniqueEntries, EntriesIndexed, KeysExact,
       IdsFound, AllServed, EntryOrNil

\* The pointers stored anywhere are pointers.
LEMMA StoredPointers ==
  ASSUME Typed
  PROVE  /\ \A i \in DOMAIN allCopy : allCopy[i] \in Pointers
         /\ \A i \in DOMAIN roCopy : roCopy[i].resource \in Pointers
         /\ \A key \in DOMAIN byHref : byHref[key] \in Pointers
         /\ \A id \in DOMAIN byID : byID[id] \in Pointers
         /\ coverAliased \in Pointers \cup {Nil}
<1>1. BuiltOK(Pointers)
  BY TypeParts DEF Typed
<1>2. /\ DOMAIN allCopy = 1..Len(allCopy) /\ DOMAIN roCopy = 1..Len(roCopy)
      /\ \A i \in 1..Len(allCopy) : allCopy[i] \in Pointers
      /\ \A i \in 1..Len(roCopy) : roCopy[i] \in [resource : Pointers, linear : BOOLEAN]
  BY <1>1, LenProperties, ElementOfSeq DEF BuiltOK
<1> QED
  BY <1>1, <1>2 DEF BuiltOK

\* Ids and hrefs never change, so neither do the keys.
LEMMA SameKeys ==
  ASSUME Preserved, NEW p \in Pointers
  PROVE  HasHref(p)' = HasHref(p) /\ Key(p)' = Key(p) /\ heap'[p].id = heap[p].id
BY DEF Preserved, HasHref, Key

\* What is served is not disturbed while the list stands.
LEMMA ServedKept ==
  ASSUME Typed, Preserved, UNCHANGED allCopy, NEW p \in Pointers, IsTheEntry(p)
  PROVE  IsTheEntry(p)'
<1>1. \A i \in DOMAIN allCopy : allCopy[i] \in Pointers
  BY StoredPointers
<1>2. \A q \in Pointers : heap'[q].href = heap[q].href
  BY DEF Preserved
<1> QED
  BY <1>1, <1>2 DEF IsTheEntry, HasHref, Key


-----------------------------------------------------------------------------
(* The indexes only grow: a key is never given to another resource. *)

Grown(f, g) == DOMAIN f \subseteq DOMAIN g /\ \A x \in DOMAIN f : g[x] = f[x]

LEMMA ExtendGrows ==
  ASSUME NEW f, NEW k, k \notin DOMAIN f, NEW v
  PROVE  Grown(f, Extend(f, k, v))
BY DEF Grown, Extend

\* A resource stays found.
LEMMA FoundKept ==
  ASSUME Preserved, Grown(byHref, byHref'), NEW p \in Pointers, Found(p)
  PROVE  Found(p)'
BY DEF Preserved, Grown, Found, HasHref, Key

\* The list stands and its entries stay indexed.
LEMMA ListsKept ==
  ASSUME Typed, Lists, Preserved, UNCHANGED allCopy,
         Grown(byHref, byHref'), Grown(byID, byID')
  PROVE  Lists'
<1>1. \A i \in DOMAIN allCopy : allCopy[i] \in Pointers
  BY StoredPointers
<1>2. \A p \in Pointers : heap'[p].href = heap[p].href /\ heap'[p].id = heap[p].id
  BY DEF Preserved
<1>3. UniqueEntries'
  BY <1>1, <1>2 DEF Lists, UniqueEntries, HasHref, Key
<1>4. EntriesIndexed'
  BY <1>1, <1>2 DEF Lists, EntriesIndexed, Grown, HasHref, Key
<1> QED
  BY <1>3, <1>4 DEF Lists

\* One more key in byHref, for a resource with that href.
LEMMA KeysExactKept ==
  ASSUME Typed, KeysExact, Preserved,
         \/ byHref' = byHref
         \/ \E p \in Pointers' : /\ heap'[p].href # NoHref
                                 /\ CleanHref(heap'[p].href) \notin DOMAIN byHref
                                 /\ byHref' = Extend(byHref, CleanHref(heap'[p].href), p)
  PROVE  KeysExact' /\ Grown(byHref, byHref')
<1>1. \A key \in DOMAIN byHref : byHref[key] \in Pointers
  BY StoredPointers
<1>2. \A q \in Pointers : heap'[q].href = heap[q].href
  BY DEF Preserved
<1>3. CASE byHref' = byHref
  BY <1>1, <1>2, <1>3 DEF KeysExact, HasHref, Key, Grown
<1>4. ASSUME NEW p \in Pointers', heap'[p].href # NoHref,
             CleanHref(heap'[p].href) \notin DOMAIN byHref,
             byHref' = Extend(byHref, CleanHref(heap'[p].href), p)
      PROVE  KeysExact' /\ Grown(byHref, byHref')
  <2> DEFINE k == CleanHref(heap'[p].href)
  <2>1. DOMAIN byHref' = DOMAIN byHref \cup {k} /\ byHref'[k] = p
    BY <1>4 DEF Extend
  <2>2. Grown(byHref, byHref')
    BY <1>4, ExtendGrows
  <2>3. \A x \in DOMAIN byHref :
          heap'[byHref'[x]].href # NoHref /\ CleanHref(heap'[byHref'[x]].href) = x
    BY <1>1, <1>2, <2>2 DEF KeysExact, HasHref, Key, Grown
  <2> QED
    BY <1>4, <2>1, <2>2, <2>3 DEF KeysExact, HasHref, Key
<1> QED
  BY <1>3, <1>4

\* One more id in byID, for a resource found under its own href.
LEMMA IdsFoundKept ==
  ASSUME Typed, IdsFound, Preserved, Grown(byHref, byHref'),
         \/ byID' = byID
         \/ \E id : \E p \in Pointers' : Found(p)' /\ byID' = Extend(byID, id, p)
  PROVE  IdsFound'
<1>1. \A x \in DOMAIN byID : byID[x] \in Pointers
  BY StoredPointers
<1>2. \A p \in Pointers : Found(p) => Found(p)'
  BY FoundKept
<1>3. \A p \in {byID[x] : x \in DOMAIN byID} : Found(p)'
  BY <1>1, <1>2 DEF IdsFound
<1>4. \A x \in DOMAIN byID' : \E p : byID'[x] = p /\ Found(p)'
  BY <1>3 DEF Extend
<1> QED
  BY <1>4 DEF IdsFound, Found, HasHref, Key


\* Nothing is served before the list is complete.
LEMMA NothingServedYet ==
  ASSUME Typed, phase = "index", UNCHANGED <<roCopy, coverAliased>>
  PROVE  AllServed'
BY DEF Typed, Stages, AllServed, EntryOrNil

\* What is served stays served, and so does a cover chosen now.
LEMMA AllServedKept ==
  ASSUME Typed, AllServed, Preserved, UNCHANGED <<allCopy, roCopy>>, EntryOrNil(coverAliased)'
  PROVE  AllServed'
<1>1. \A i \in DOMAIN roCopy : roCopy[i].resource \in Pointers
  BY StoredPointers
<1>2. \A p \in Pointers : IsTheEntry(p) => IsTheEntry(p)'
  BY ServedKept
<1>3. \A p \in {roCopy[i].resource : i \in DOMAIN roCopy} : IsTheEntry(p)'
  BY <1>1, <1>2 DEF AllServed
<1>4. \A i \in DOMAIN roCopy' : IsTheEntry(roCopy[i].resource)'
  BY <1>3 DEF IsTheEntry, HasHref, Key
<1> QED
  BY <1>4 DEF AllServed

\* Entering a resource whose id and href are both free.
LEMMA EnterExact ==
  ASSUME Typed, Exact, Preserved, phase = "index", UNCHANGED <<roCopy, coverAliased>>,
         NEW p \in Pointers', Enter(p, heap'[p]),
         heap'[p].href # NoHref => CleanHref(heap'[p].href) \notin DOMAIN byHref,
         heap'[p].id # NoId => heap'[p].id \notin DOMAIN byID
  PROVE  Exact'
<1> DEFINE n == Len(allCopy) + 1
           k == CleanHref(heap'[p].href)
           id == heap'[p].id
<1>1. KeysExact' /\ Grown(byHref, byHref')
  BY KeysExactKept DEF Exact, Enter
<1>2. Grown(byID, byID')
  <2>1. byID' = byID \/ (id \notin DOMAIN byID /\ byID' = Extend(byID, id, p))
    BY DEF Enter
  <2>2. Grown(byID, byID)
    BY DEF Grown
  <2> QED
    BY <2>1, <2>2, ExtendGrows
<1>3. /\ heap'[p].href # NoHref => k \in DOMAIN byHref' /\ byHref'[k] = p
      /\ id # NoId => id \in DOMAIN byID' /\ byID'[id] = p
  BY DEF Enter, Extend
<1>4. IdsFound'
  <2>1. Found(p)'
    BY <1>3 DEF Found, HasHref, Key
  <2>2. byID' = byID \/ byID' = Extend(byID, id, p)
    BY DEF Enter
  <2> QED
    BY <1>1, <2>1, <2>2, IdsFoundKept DEF Exact
<1>5. /\ DOMAIN allCopy' = DOMAIN allCopy \cup {n}
      /\ \A i \in DOMAIN allCopy : allCopy'[i] = allCopy[i]
      /\ allCopy'[n] = p
  <2>1. allCopy \in Seq(Pointers')
    BY TypeParts, SeqMonotonic DEF Typed, BuiltOK, Preserved
  <2> QED
    BY <2>1, AppendFacts DEF Enter
<1>6. \A i \in DOMAIN allCopy :
        /\ heap'[allCopy[i]].href = heap[allCopy[i]].href
        /\ heap'[allCopy[i]].id = heap[allCopy[i]].id
  BY StoredPointers DEF Preserved
<1> HIDE DEF n, k, id
<1>7. EntriesIndexed'
  <2>1. \A i \in DOMAIN allCopy :
          /\ heap'[allCopy[i]].href # NoHref =>
               /\ CleanHref(heap'[allCopy[i]].href) \in DOMAIN byHref'
               /\ byHref'[CleanHref(heap'[allCopy[i]].href)] = allCopy[i]
          /\ heap'[allCopy[i]].id # NoId =>
               /\ heap'[allCopy[i]].id \in DOMAIN byID'
               /\ byID'[heap'[allCopy[i]].id] = allCopy[i]
    BY <1>1, <1>2, <1>6 DEF Exact, Lists, EntriesIndexed, Grown, HasHref, Key
  <2> QED
    BY <1>3, <1>5, <2>1 DEF EntriesIndexed, HasHref, Key, k, id
<1>8. UniqueEntries'
  <2>1. \A i \in DOMAIN allCopy :
          /\ heap'[allCopy[i]].href # NoHref /\ heap'[p].href # NoHref
               => CleanHref(heap'[allCopy[i]].href) # k
          /\ heap'[allCopy[i]].id # NoId => heap'[allCopy[i]].id # id
    BY <1>6 DEF Exact, Lists, EntriesIndexed, HasHref, Key, k, id
  <2>2. \A i, j \in DOMAIN allCopy : i # j =>
          /\ heap'[allCopy[i]].href # NoHref /\ heap'[allCopy[j]].href # NoHref
               => CleanHref(heap'[allCopy[i]].href) # CleanHref(heap'[allCopy[j]].href)
          /\ heap'[allCopy[i]].id # NoId => heap'[allCopy[i]].id # heap'[allCopy[j]].id
    BY <1>6 DEF Exact, Lists, UniqueEntries, HasHref, Key
  <2> SUFFICES ASSUME NEW i \in DOMAIN allCopy', NEW j \in DOMAIN allCopy', i # j
               PROVE  /\ /\ heap'[allCopy'[i]].href # NoHref
                         /\ heap'[allCopy'[j]].href # NoHref
                         => CleanHref(heap'[allCopy'[i]].href)
                              # CleanHref(heap'[allCopy'[j]].href)
                      /\ heap'[allCopy'[i]].id # NoId
                         => heap'[allCopy'[i]].id # heap'[allCopy'[j]].id
    BY DEF UniqueEntries, HasHref, Key
  <2>3. CASE i \in DOMAIN allCopy /\ j \in DOMAIN allCopy
    BY <1>5, <2>2, <2>3
  <2>4. CASE i = n /\ j \in DOMAIN allCopy
    BY <1>5, <2>1, <2>4 DEF k, id
  <2>5. CASE j = n /\ i \in DOMAIN allCopy
    BY <1>5, <2>1, <2>5 DEF k, id
  <2> QED
    BY <1>5, <2>3, <2>4, <2>5
<1>9. AllServed'
  BY NothingServedYet
<1> QED
  BY <1>1, <1>4, <1>7, <1>8, <1>9 DEF Exact, Lists


-----------------------------------------------------------------------------
(* Each step keeps the indexes exact. *)

\* A step that touches neither the indexes nor what is served.
LEMMA IndexesUntouched ==
  ASSUME Typed, Exact, Preserved, UNCHANGED <<indexes, roCopy, coverAliased>>
  PROVE  Exact'
<1>1. Grown(byHref, byHref') /\ Grown(byID, byID') /\ UNCHANGED <<allCopy, byHref, byID>>
  BY DEF Grown, indexes
<1>2. Lists' /\ KeysExact' /\ IdsFound'
  BY <1>1, ListsKept, KeysExactKept, IdsFoundKept DEF Exact
<1>3. EntryOrNil(coverAliased)'
  <2>1. coverAliased # Nil => coverAliased \in Pointers /\ IsTheEntry(coverAliased)
    BY StoredPointers DEF Exact, AllServed, EntryOrNil
  <2>2. coverAliased # Nil => IsTheEntry(coverAliased)'
    <3>1. \A p \in Pointers : IsTheEntry(p) => IsTheEntry(p)'
      BY <1>1, ServedKept
    <3>2. \A p : p = coverAliased => coverAliased' = p
      OBVIOUS
    <3> QED
      BY <2>1, <3>1, <3>2 DEF IsTheEntry, HasHref, Key
  <2> QED
    BY <2>2 DEF EntryOrNil
<1>4. AllServed'
  BY <1>1, <1>3, AllServedKept DEF Exact
<1> QED
  BY <1>2, <1>4 DEF Exact

LEMMA SkipDuplicateExact == ASSUME Typed, Exact, SkipDuplicate, Preserved PROVE Exact'
<1>1. PICK p \in DOMAIN heap :
        /\ AtResource(p) /\ Duplicate(p)
        /\ byID' = IF heap[p].id # NoId /\ ~Claimed(p)
                   THEN Extend(byID, heap[p].id, byHref[Key(p)]) ELSE byID
        /\ UNCHANGED <<heap, byHref, allCopy>>
  BY DEF SkipDuplicate
<1>2. PICK q : q = byHref[Key(p)]
  OBVIOUS
<1>3. q \in Pointers' /\ Found(q)'
  <2>1. q \in Pointers
    BY <1>1, <1>2, StoredPointers DEF Duplicate
  <2>2. HasHref(q) /\ Key(q) = Key(p)
    BY <1>1, <1>2 DEF Exact, KeysExact, Duplicate
  <2> QED
    BY <1>1, <1>2, <2>1, <2>2 DEF Found, HasHref, Key, Duplicate, Pointers
<1>4. Grown(byHref, byHref') /\ Grown(byID, byID')
  <2>1. Grown(byHref, byHref) /\ Grown(byID, byID)
    BY DEF Grown
  <2>2. heap[p].id # NoId /\ ~Claimed(p) => Grown(byID, Extend(byID, heap[p].id, q))
    BY ExtendGrows DEF Claimed
  <2> QED
    BY <1>1, <1>2, <2>1, <2>2
<1>5. Lists' /\ KeysExact'
  BY <1>1, <1>4, ListsKept, KeysExactKept DEF Exact
<1>6. IdsFound'
  <2>1. byID' = byID \/ byID' = Extend(byID, heap[p].id, q)
    BY <1>1, <1>2
  <2> QED
    BY <1>3, <1>4, <2>1, IdsFoundKept DEF Exact
<1>7. AllServed'
  BY <1>1, NothingServedYet DEF AtResource
<1> QED
  BY <1>5, <1>6, <1>7 DEF Exact

LEMMA KeepResourceExact == ASSUME Typed, Exact, KeepResource, Preserved PROVE Exact'
<1>1. PICK p \in DOMAIN heap : /\ AtResource(p) /\ ~Duplicate(p) /\ ~Claimed(p)
                               /\ Enter(p, heap[p]) /\ UNCHANGED heap
  BY DEF KeepResource
<1>2. /\ p \in Pointers' /\ Enter(p, heap'[p])
      /\ phase = "index" /\ UNCHANGED <<roCopy, coverAliased>>
  BY <1>1 DEF Pointers, AtResource
<1>3. /\ heap'[p].href # NoHref => CleanHref(heap'[p].href) \notin DOMAIN byHref
      /\ heap'[p].id # NoId => heap'[p].id \notin DOMAIN byID
  BY <1>1 DEF Duplicate, Claimed, HasHref, Key
<1> QED
  BY <1>2, <1>3, EnterExact

LEMMA RenameResourceExact == ASSUME Typed, Exact, RenameResource, Preserved PROVE Exact'
<1>1. PICK p \in DOMAIN heap, n \in 1..MaxDup :
        /\ AtResource(p) /\ ~Duplicate(p) /\ FreeId(heap[p].id, n)
        /\ heap' = Append(heap, [heap[p] EXCEPT !.id = Dup(heap[p].id, n)])
        /\ Enter(Len(heap) + 1, [heap[p] EXCEPT !.id = Dup(heap[p].id, n)])
  BY DEF RenameResource
<1>2. PICK q, copy : q = Len(heap) + 1 /\ copy = [heap[p] EXCEPT !.id = Dup(heap[p].id, n)]
  OBVIOUS
<1>3. /\ IsResource(copy) /\ copy.id = Dup(heap[p].id, n) /\ copy.href = heap[p].href
  BY <1>2, RenamedResource, TypeParts DEF Typed, HeapOK, Pointers
<1>4. q \in Pointers' /\ heap'[q] = copy
  BY <1>1, <1>2, <1>3, CopyHeap, TypeParts DEF Typed
<1>5. /\ heap'[q].href # NoHref => CleanHref(heap'[q].href) \notin DOMAIN byHref
      /\ heap'[q].id # NoId => heap'[q].id \notin DOMAIN byID
  BY <1>1, <1>3, <1>4 DEF Duplicate, FreeId, HasHref, Key
<1>6. Enter(q, heap'[q]) /\ phase = "index" /\ UNCHANGED <<roCopy, coverAliased>>
  BY <1>1, <1>2, <1>4 DEF AtResource
<1> QED
  BY <1>4, <1>5, <1>6, EnterExact

LEMMA CanonicalizeItemExact ==
  ASSUME Typed, Exact, CanonicalizeItem, Preserved PROVE Exact'
<1> DEFINE item == readingOrder[index]
           entry == [resource |-> Deduped(item.resource), linear |-> item.linear]
           Entries == [resource : Pointers, linear : BOOLEAN]
<1>1. UNCHANGED <<heap, byHref, byID, allCopy, coverAliased>>
  BY DEF CanonicalizeItem, indexes
<1>2. Lists' /\ KeysExact' /\ IdsFound' /\ EntryOrNil(coverAliased)'
  BY <1>1 DEF Exact, AllServed, Lists, UniqueEntries, EntriesIndexed, KeysExact, IdsFound,
              Found, EntryOrNil, IsTheEntry, HasHref, Key
<1>3. \A p : IsTheEntry(Deduped(p))
  <2> SUFFICES ASSUME NEW p PROVE IsTheEntry(Deduped(p))
    OBVIOUS
  <2>1. CASE Duplicate(p)
    <3>1. Found(byHref[Key(p)])
      BY <2>1 DEF Exact, KeysExact, Found, Duplicate
    <3> QED
      BY <2>1, <3>1, FoundIsEntry DEF Exact, Lists, Deduped
  <2>2. CASE ~Duplicate(p)
    BY <2>2 DEF Deduped, Duplicate, IsTheEntry, Exact, Lists, EntriesIndexed
  <2> QED
    BY <2>1, <2>2
<1>4. \A i \in DOMAIN roCopy' : IsTheEntry(roCopy'[i].resource)
  <2>1. roCopy' = roCopy \/ (item.resource # Nil /\ roCopy' = Append(roCopy, entry))
    BY DEF CanonicalizeItem
  <2>2. \A i \in DOMAIN roCopy : IsTheEntry(roCopy[i].resource)
    BY DEF Exact, AllServed
  <2>3. ASSUME item.resource # Nil, roCopy' = Append(roCopy, entry)
        PROVE  \A i \in DOMAIN roCopy' : IsTheEntry(roCopy'[i].resource)
    <3>1. IsTheEntry(entry.resource)
      BY <1>3
    <3>2. roCopy \in Seq(Entries \cup {entry})
      BY SeqMonotonic, TypeParts DEF Typed, BuiltOK
    <3> HIDE DEF entry, Entries
    <3>3. /\ DOMAIN roCopy' = DOMAIN roCopy \cup {Len(roCopy) + 1}
          /\ \A i \in DOMAIN roCopy : roCopy'[i] = roCopy[i]
          /\ roCopy'[Len(roCopy) + 1] = entry
      BY <2>3, <3>2, AppendFacts
    <3> QED
      BY <2>2, <3>1, <3>3
  <2> QED
    BY <2>1, <2>2, <2>3
<1>5. AllServed'
  BY <1>1, <1>2, <1>4 DEF AllServed, IsTheEntry, HasHref, Key
<1> QED
  BY <1>2, <1>5 DEF Exact


LEMMA AliasCoverExact == ASSUME Typed, Exact, AliasCover, Preserved PROVE Exact'
<1>1. UNCHANGED <<heap, byHref, byID, allCopy, roCopy>>
  BY DEF AliasCover, AtCover
<1>2. Lists' /\ KeysExact' /\ IdsFound'
  BY <1>1 DEF Exact, Lists, UniqueEntries, EntriesIndexed, KeysExact, IdsFound,
              Found, HasHref, Key
<1>3. coverAliased' # Nil => IsTheEntry(coverAliased')
  <2>1. CASE cover = Nil
    BY <2>1 DEF AliasCover
  <2>2. CASE Duplicate(cover)
    <3>1. Found(byHref[Key(cover)])
      BY <2>2 DEF Exact, KeysExact, Found, Duplicate
    <3>2. cover # Nil => coverAliased' = byHref[Key(cover)]
      BY <2>2 DEF AliasCover, Deduped
    <3> QED
      BY <2>1, <3>1, <3>2, FoundIsEntry DEF Exact, Lists
  <2> QED
    BY <2>1, <2>2 DEF AliasCover
<1>4. AllServed'
  BY <1>1, <1>3 DEF Exact, AllServed, EntryOrNil, IsTheEntry, HasHref, Key
<1> QED
  BY <1>2, <1>4 DEF Exact

\* Indexing a cover outside the list, under a free href and perhaps a free id.
LEMMA CoverExact ==
  ASSUME Typed, Exact, Preserved, UNCHANGED <<allCopy, roCopy>>,
         NEW p \in Pointers', coverAliased' = p,
         heap'[p].href # NoHref => CleanHref(heap'[p].href) \notin DOMAIN byHref,
         byHref' = IF heap'[p].href # NoHref THEN Extend(byHref, CleanHref(heap'[p].href), p)
                   ELSE byHref,
         \/ byID' = byID
         \/ \E id : id \notin DOMAIN byID /\ byID' = Extend(byID, id, p)
  PROVE  Exact'
<1>1. KeysExact' /\ Grown(byHref, byHref')
  BY KeysExactKept DEF Exact
<1>2. Grown(byID, byID')
  <2>1. Grown(byID, byID)
    BY DEF Grown
  <2> QED
    BY <2>1, ExtendGrows
<1>3. Lists'
  BY <1>1, <1>2, ListsKept DEF Exact
<1>4. Found(p)'
  BY DEF Found, Extend, HasHref, Key
<1>5. IdsFound'
  BY <1>1, <1>4, IdsFoundKept DEF Exact
<1>6. EntryOrNil(coverAliased)'
  BY <1>3, <1>4 DEF Lists, EntriesIndexed, Found, EntryOrNil, IsTheEntry, HasHref, Key
<1>7. AllServed'
  BY <1>6, AllServedKept DEF Exact
<1> QED
  BY <1>1, <1>3, <1>5, <1>7 DEF Exact

LEMMA EnterCoverExact == ASSUME Typed, Exact, EnterCover, Preserved PROVE Exact'
<1>1. cover \in Pointers' /\ UNCHANGED <<heap, allCopy, roCopy>> /\ coverAliased' = cover
  BY TypeParts DEF Typed, ArgumentsOK, EnterCover, AtCover, Preserved
<1>2. /\ heap'[cover].href # NoHref => CleanHref(heap'[cover].href) \notin DOMAIN byHref
      /\ byHref' = IF heap'[cover].href # NoHref
                   THEN Extend(byHref, CleanHref(heap'[cover].href), cover) ELSE byHref
  BY <1>1 DEF EnterCover, Duplicate, HasHref, Key
<1>3. \/ byID' = byID
      \/ \E id : id \notin DOMAIN byID /\ byID' = Extend(byID, id, cover)
  BY DEF EnterCover, Claimed
<1>4. PICK p : p = cover
  OBVIOUS
<1> QED
  BY <1>1, <1>2, <1>3, <1>4, CoverExact

LEMMA RenameCoverExact == ASSUME Typed, Exact, RenameCover, Preserved PROVE Exact'
<1>1. PICK n \in 1..MaxDup :
        /\ AtCover /\ cover # Nil /\ ~Duplicate(cover) /\ HasHref(cover)
        /\ heap' = Append(heap, [heap[cover] EXCEPT !.id = Dup(heap[cover].id, n)])
        /\ coverAliased' = Len(heap) + 1
        /\ byHref' = Extend(byHref, Key(cover), Len(heap) + 1)
        /\ UNCHANGED byID
  BY DEF RenameCover
<1>2. PICK q, copy : /\ q = Len(heap) + 1
                     /\ copy = [heap[cover] EXCEPT !.id = Dup(heap[cover].id, n)]
  OBVIOUS
<1>3. IsResource(copy) /\ copy.href = heap[cover].href
  BY <1>1, <1>2, RenamedResource, TypeParts DEF Typed, HeapOK, ArgumentsOK
<1>4. q \in Pointers' /\ heap'[q] = copy
  BY <1>1, <1>2, <1>3, CopyHeap, TypeParts DEF Typed
<1>5. /\ heap'[q].href # NoHref /\ CleanHref(heap'[q].href) \notin DOMAIN byHref
      /\ byHref' = Extend(byHref, CleanHref(heap'[q].href), q)
  BY <1>1, <1>2, <1>3, <1>4 DEF Duplicate, HasHref, Key
<1> QED
  BY <1>1, <1>2, <1>4, <1>5, CoverExact DEF AtCover

LEMMA ExactStep == Typed /\ Exact /\ [NewResourceSet]_setvars => Exact'
<1> SUFFICES ASSUME Typed, Exact, [NewResourceSet]_setvars PROVE Exact'
  OBVIOUS
<1>1. NewResourceSet => Preserved
  BY StepIsTyped DEF StepTyped
<1>2. CASE Normalize
  BY <1>1, <1>2, IndexesUntouched DEF Normalize, NewResourceSet
<1>3. CASE IndexResource
  <2>1. Preserved
    BY <1>1, <1>3 DEF NewResourceSet
  <2>2. CASE SkipNil
    BY <2>1, <2>2, IndexesUntouched DEF SkipNil, AtResource
  <2> QED
    BY <1>3, <2>1, <2>2, SkipDuplicateExact, KeepResourceExact, RenameResourceExact
    DEF IndexResource
<1>4. CASE StartOrder
  BY <1>1, <1>4, IndexesUntouched DEF StartOrder, NewResourceSet
<1>5. CASE CanonicalizeItem
  BY <1>1, <1>5, CanonicalizeItemExact DEF NewResourceSet
<1>6. CASE ResolveCover
  BY <1>1, <1>6, AliasCoverExact, EnterCoverExact, RenameCoverExact
  DEF ResolveCover, NewResourceSet
<1>7. CASE UNCHANGED setvars
  <2>1. Preserved /\ UNCHANGED <<indexes, roCopy, coverAliased>>
    BY <1>7, SameHeap, TypeParts DEF Typed, setvars
  <2> QED
    BY <2>1, IndexesUntouched
<1> QED
  BY <1>2, <1>3, <1>4, <1>5, <1>6, <1>7 DEF NewResourceSet

\* Whatever ids, hrefs and shared or nil pointers NewResourceSet is given,
\* All(), GetByID, GetByHref, ReadingOrder and CoverImage agree on which
\* resource stands for a file (book/resource.go:248-379).
THEOREM IndexesAlwaysExact == SetSpec => []IndexesExact
<1>1. InitSet => Typed /\ Exact
  BY TypeInit, ExactInit DEF InitSet
<1> QED
  BY <1>1, TypeStep, ExactStep, ExactIndexes, PTL DEF SetSpec


-----------------------------------------------------------------------------
(* Nothing is lost.  What the loop over all has got through, and what the    *)
(* list and the indexes owe to it.                                           *)

Reached == IF phase \in {"normalize", "index"} THEN index ELSE Len(all) + 1
Seen    == {i \in Passed : i < Reached}
SeenKept == {i \in Kept : i < Reached}

\* The list holds every file seen, at the place of its first resource.
Listed ==
  /\ Len(allCopy) = Cardinality(SeenKept)
  /\ \A i \in SeenKept : Place(i) \in DOMAIN allCopy /\ Apart(allCopy[Place(i)]) = Apart(all[i])

\* The hrefs and, but for generated ones, the ids in the indexes are declared.
KeysSeen == phase \in {"normalize", "index"} =>
  DOMAIN byHref = {Key(all[i]) : i \in {j \in Seen : HasHref(all[j])}}
IdsSeen == phase \in {"normalize", "index"} =>
  \A id \in DOMAIN byID : Generated(id) \/ \E i \in Seen : heap[all[i]].id = id

\* Every id seen leads somewhere, and to its first bearer's file.
IdKept(i) == LET id == heap[all[i]].id IN id # NoId =>
  /\ id \in DOMAIN byID
  /\ FirstWithId(i) /\ ~Generated(id) => SameFile(byID[id], all[i])
IdsKept == \A i \in Seen : IdKept(i)

\* No resource a caller gave or a client gets is without charset.
Given == {all[i] : i \in DOMAIN all} \cup {cover}
         \cup {readingOrder[i].resource : i \in DOMAIN readingOrder}
Held  == {allCopy[i] : i \in DOMAIN allCopy} \cup {byHref[key] : key \in DOMAIN byHref}
         \cup {roCopy[i].resource : i \in DOMAIN roCopy} \cup {coverAliased}
Labelled == phase # "normalize" => \A p \in Given \cup Held : p # Nil => heap[p].charset # ""

Complete == Listed /\ KeysSeen /\ IdsSeen /\ IdsKept /\ Labelled

\* Resources stay as they are once their charsets are set.
Frozen == Pointers \subseteq Pointers' /\ \A p \in Pointers : heap'[p] = heap[p]

LEMMA FrozenPreserves == Frozen => Preserved
BY DEF Frozen, Preserved

LEMMA StepFreezes ==
  ASSUME Typed, NewResourceSet, ~Normalize
  PROVE  Frozen
<1>1. CASE UNCHANGED heap
  BY <1>1 DEF Frozen, Pointers
<1>2. CASE RenameResource
  <2>1. PICK p \in Pointers, n \in 1..MaxDup :
          heap' = Append(heap, [heap[p] EXCEPT !.id = Dup(heap[p].id, n)])
    BY <1>2 DEF RenameResource, Pointers
  <2>2. IsResource([heap[p] EXCEPT !.id = Dup(heap[p].id, n)])
    BY RenamedResource, TypeParts DEF Typed, HeapOK
  <2> QED
    BY <2>1, <2>2, CopyHeap, TypeParts DEF Typed, Frozen, Preserved
<1>3. CASE RenameCover
  <2>1. PICK n \in 1..MaxDup :
          cover # Nil /\ heap' = Append(heap, [heap[cover] EXCEPT !.id = Dup(heap[cover].id, n)])
    BY <1>3 DEF RenameCover
  <2>2. IsResource([heap[cover] EXCEPT !.id = Dup(heap[cover].id, n)])
    BY <2>1, RenamedResource, TypeParts DEF Typed, HeapOK, ArgumentsOK
  <2> QED
    BY <2>1, <2>2, CopyHeap, TypeParts DEF Typed, Frozen, Preserved
<1>4. CASE IndexResource
  BY <1>1, <1>2, <1>4 DEF IndexResource, SkipNil, SkipDuplicate, KeepResource
<1>5. CASE ResolveCover
  BY <1>1, <1>3, <1>5 DEF ResolveCover, AliasCover, EnterCover
<1> QED
  BY <1>1, <1>4, <1>5 DEF NewResourceSet, StartOrder, CanonicalizeItem

-----------------------------------------------------------------------------
(* What the properties say of the arguments does not change. *)

LEMMA PointersNotNil == Typed => Nil \notin Pointers
<1> SUFFICES ASSUME Typed PROVE Nil \notin Pointers
  OBVIOUS
<1>1. DOMAIN heap = 1..Len(heap) /\ Len(heap) \in Nat
  BY LenProperties, TypeParts DEF Typed, HeapOK
<1> QED
  BY <1>1 DEF Nil, Pointers

\* The list given, and the resources in it.
LEMMA PassedPointers ==
  ASSUME Typed
  PROVE  /\ Len(all) \in Nat /\ DOMAIN all = 1..Len(all)
         /\ Passed \subseteq 1..Len(all) /\ Kept \subseteq Passed
         /\ Passed \subseteq Nat /\ Reached \in Nat
         /\ \A i \in Passed : all[i] \in Pointers
<1>1. all \in Seq(Pointers \cup {Nil}) /\ index \in Nat
  BY TypeParts DEF Typed, ArgumentsOK, IndexOK
<1>2. Len(all) \in Nat /\ DOMAIN all = 1..Len(all) /\ \A i \in 1..Len(all) : all[i] \in Pointers \cup {Nil}
  BY <1>1, LenProperties, ElementOfSeq
<1> QED
  BY <1>1, <1>2 DEF Passed, Kept, Reached

LEMMA SameArguments ==
  ASSUME Typed, Preserved, UNCHANGED arguments
  PROVE  /\ Passed' = Passed /\ Kept' = Kept
         /\ \A i \in Passed : FirstWithId(i)' = FirstWithId(i)
         /\ \A id : Generated(id) => Generated(id)'
         /\ \A p, q \in Pointers : SameFile(p, q)' = SameFile(p, q)
<1>1. \A p \in Pointers : heap'[p].href = heap[p].href /\ heap'[p].id = heap[p].id
  BY DEF Preserved
<1>2. all' = all /\ Passed' = Passed /\ \A i \in Passed : Before(i) \subseteq Passed /\ Before(i)' = Before(i)
  BY DEF arguments, Passed, Before
<1>3. \A p, q \in Pointers : SameFile(p, q)' = SameFile(p, q)
  BY <1>1 DEF SameFile, HasHref, Key
<1>4. \A i \in Passed : FirstOfFile(i)' = FirstOfFile(i)
  BY <1>1, <1>2, <1>3, PassedPointers DEF FirstOfFile, HasHref, SameFile, Key
<1>5. \A i \in Passed : FirstWithId(i)' = FirstWithId(i)
  BY <1>1, <1>2, PassedPointers DEF FirstWithId
<1>6. \A id : Generated(id) => Generated(id)'
  BY <1>1 DEF Generated, Preserved
<1> QED
  BY <1>2, <1>3, <1>4, <1>5, <1>6 DEF Kept

LEMMA SamePlaces ==
  ASSUME Typed, Preserved, UNCHANGED arguments
  PROVE  \A i : Place(i)' = Place(i)
<1>1. Kept' = Kept
  BY SameArguments
<1> QED
  BY <1>1 DEF Place

-----------------------------------------------------------------------------
(* The parts of Complete, while nothing new is seen of all. *)

LEMMA ListedStays ==
  ASSUME Typed, Listed, Frozen, UNCHANGED arguments, UNCHANGED allCopy, SeenKept' = SeenKept
  PROVE  Listed'
<1>1. \A i : Place(i)' = Place(i)
  BY SamePlaces, FrozenPreserves
<1>2. \A i \in SeenKept : all[i] \in Pointers
  BY PassedPointers DEF SeenKept
<1>3. \A i \in DOMAIN allCopy : allCopy[i] \in Pointers
  BY StoredPointers
<1>4. \A p \in Pointers : heap'[p] = heap[p]
  BY DEF Frozen
<1>5. \A i \in SeenKept :
        /\ Place(i) \in DOMAIN allCopy
        /\ [heap'[allCopy[Place(i)]] EXCEPT !.id = NoId] = [heap'[all[i]] EXCEPT !.id = NoId]
  BY <1>2, <1>3, <1>4 DEF Listed, Apart
<1>6. \A i \in SeenKept' :
        /\ Place(i)' \in DOMAIN allCopy'
        /\ [heap'[allCopy'[Place(i)']] EXCEPT !.id = NoId] = [heap'[all'[i]] EXCEPT !.id = NoId]
  BY <1>1, <1>5 DEF arguments
<1>7. Len(allCopy') = Cardinality(SeenKept')
  BY DEF Listed
<1> QED
  BY <1>6, <1>7 DEF Listed, Apart

LEMMA IdsKeptStays ==
  ASSUME Typed, IdsKept, Preserved, UNCHANGED arguments, Grown(byID, byID'),
         \A i \in Seen' : i \in Seen \/ IdKept(i)'
  PROVE  IdsKept'
<1>1. /\ \A i \in Passed : all[i] \in Pointers /\ all'[i] = all[i] /\ FirstWithId(i)' = FirstWithId(i)
      /\ \A id : Generated(id) => Generated(id)'
      /\ \A p, q \in Pointers : SameFile(p, q)' = SameFile(p, q)
  BY SameArguments, PassedPointers DEF arguments
<1>2. \A p \in Pointers : heap'[p].id = heap[p].id
  BY DEF Preserved
<1>3. \A id \in DOMAIN byID : byID[id] \in Pointers /\ id \in DOMAIN byID' /\ byID'[id] = byID[id]
  BY StoredPointers DEF Grown
<1>4. \A i \in Seen : IdKept(i)'
  <2> SUFFICES ASSUME NEW i \in Seen PROVE IdKept(i)'
    OBVIOUS
  <2>1. i \in Passed /\ IdKept(i)
    BY DEF Seen, IdsKept
  <2>2. PICK p \in Pointers : p = all[i]
    BY <1>1, <2>1
  <2>3. PICK id : id = heap[p].id
    OBVIOUS
  <2>4. CASE id = NoId
    BY <1>1, <1>2, <2>1, <2>2, <2>3, <2>4 DEF IdKept
  <2>5. CASE id # NoId
    <3>1. id \in DOMAIN byID /\ (FirstWithId(i) /\ ~Generated(id) => SameFile(byID[id], p))
      BY <2>1, <2>2, <2>3, <2>5 DEF IdKept
    <3>2. PICK q \in Pointers : q = byID[id] /\ q = byID'[id] /\ id \in DOMAIN byID'
      BY <1>3, <3>1
    <3>3. FirstWithId(i)' /\ ~Generated(id)' => SameFile(q, p)'
      BY <1>1, <2>1, <3>1, <3>2
    <3>4. heap'[all'[i]].id = id /\ all'[i] = p
      BY <1>1, <1>2, <2>1, <2>2, <2>3
    <3>5. FirstWithId(i)' /\ ~Generated(id)' => SameFile(byID[id], all[i])'
      BY <3>2, <3>3, <3>4 DEF SameFile, HasHref, Key
    <3> QED
      BY <3>2, <3>4, <3>5 DEF IdKept, Generated
  <2> QED
    BY <2>4, <2>5
<1> QED
  BY <1>4 DEF IdsKept

LEMMA IdsSeenStays ==
  ASSUME Typed, IdsSeen, Preserved, UNCHANGED arguments, phase = "index", Seen \subseteq Seen',
         \A id \in DOMAIN byID' : \/ id \in DOMAIN byID
                                  \/ Generated(id)'
                                  \/ \E i \in Seen' : heap'[all'[i]].id = id
  PROVE  IdsSeen'
<1>1. /\ \A i \in Seen : all[i] \in Pointers /\ all'[i] = all[i]
      /\ \A id : Generated(id) => Generated(id)'
  BY SameArguments, PassedPointers DEF arguments, Seen
<1>2. \A i \in Seen : heap'[all'[i]].id = heap[all[i]].id
  BY <1>1 DEF Preserved
<1>3. \A id \in DOMAIN byID : Generated(id)' \/ \E i \in Seen' : heap'[all'[i]].id = id
  BY <1>1, <1>2 DEF IdsSeen
<1> QED
  BY <1>3 DEF IdsSeen

\* What the caller gave are pointers.
LEMMA GivenPointers ==
  ASSUME Typed
  PROVE  \A p \in Given : p \in Pointers \cup {Nil}
<1>1. ArgumentsOK(Pointers)
  BY TypeParts DEF Typed
<1>2. /\ DOMAIN readingOrder = 1..Len(readingOrder)
      /\ \A i \in 1..Len(readingOrder) :
           readingOrder[i] \in [resource : Pointers \cup {Nil}, linear : BOOLEAN]
  BY <1>1, LenProperties, ElementOfSeq DEF ArgumentsOK
<1>3. \A i \in DOMAIN all : all[i] \in Pointers \cup {Nil}
  BY PassedPointers DEF Passed
<1> QED
  BY <1>1, <1>2, <1>3 DEF Given, ArgumentsOK

LEMMA LabelledStays ==
  ASSUME Typed, Labelled, Frozen, phase # "normalize", UNCHANGED arguments,
         \A p \in Held' : p \in Held \/ p \in Given \/ (p # Nil => heap'[p].charset # "")
  PROVE  Labelled'
<1>1. Given' = Given
  BY DEF Given, arguments
<1>2. \A p \in Given \cup Held : p \in Pointers \cup {Nil}
  BY GivenPointers, StoredPointers DEF Held
<1>3. \A p \in Given \cup Held : p # Nil => heap'[p].charset # ""
  BY <1>2 DEF Labelled, Frozen
<1> QED
  BY <1>1, <1>3 DEF Labelled

-----------------------------------------------------------------------------
(* One turn of the loop over all. *)

\* A nil entry is not seen, any other is the next one seen.
LEMMA Turn ==
  ASSUME Typed, Preserved, UNCHANGED arguments, NEW p, AtResource(p)
  PROVE  /\ Reached = index /\ Reached' = index + 1 /\ index \in Nat
         /\ p = Nil => Seen' = Seen /\ SeenKept' = SeenKept
         /\ p # Nil => /\ p \in Pointers /\ index \in Passed /\ Before(index) = Seen
                       /\ Seen' = Seen \cup {index} /\ index \notin Seen
<1>1. /\ phase = "index" /\ phase' = "index" /\ index' = index + 1 /\ index \in Nat
      /\ index \in DOMAIN all /\ all[index] = p
  BY PassedPointers DEF AtResource
<1>2. Passed' = Passed /\ Kept' = Kept /\ Passed \subseteq Nat /\ Kept \subseteq Passed
  BY SameArguments, PassedPointers
<1>3. Reached = index /\ Reached' = index + 1
  BY <1>1 DEF Reached
<1>4. p = Nil => index \notin Passed
  BY <1>1 DEF Passed
<1>5. p # Nil => index \in Passed /\ p \in Pointers
  BY <1>1, PassedPointers DEF Passed
<1>6. Seen = {i \in Passed : i < index} /\ Seen' = {i \in Passed : i < index + 1}
  BY <1>2, <1>3 DEF Seen
<1>7. SeenKept = {i \in Kept : i < index} /\ SeenKept' = {i \in Kept : i < index + 1}
  BY <1>2, <1>3 DEF SeenKept
<1>8. \A i \in Nat : i < index + 1 <=> i < index \/ i = index
  BY <1>1
<1>9. ASSUME p = Nil PROVE Seen' = Seen /\ SeenKept' = SeenKept
  <2>1. \A i \in Passed : i < index + 1 <=> i < index
    BY <1>2, <1>4, <1>8, <1>9
  <2>2. Seen' = Seen
    BY <1>6, <2>1
  <2>3. SeenKept' = SeenKept
    BY <1>2, <1>7, <2>1
  <2> QED
    BY <2>2, <2>3
<1>10. ASSUME p # Nil PROVE Seen' = Seen \cup {index} /\ index \notin Seen
  <2>1. index \in Passed /\ ~(index < index) /\ index < index + 1
    BY <1>1, <1>5, <1>10
  <2>2. \A i \in Passed : i < index + 1 <=> i < index \/ i = index
    BY <1>2, <1>8
  <2>3. {i \in Passed : i < index + 1} = {i \in Passed : i < index} \cup {index}
    BY <2>1, <2>2
  <2> QED
    BY <1>6, <2>1, <2>3
<1>11. Before(index) = Seen
  BY <1>6 DEF Before
<1> QED
  BY <1>1, <1>3, <1>5, <1>9, <1>10, <1>11

\* A resource is a duplicate when an earlier one has its href.
LEMMA DuplicateIsLater ==
  ASSUME Typed, Preserved, UNCHANGED arguments, KeysSeen, NEW p \in Pointers, AtResource(p), p # Nil
  PROVE  Duplicate(p) <=> ~FirstOfFile(index)
<1>1. Before(index) = Seen /\ all[index] = p /\ phase = "index"
  BY Turn DEF AtResource
<1>2. DOMAIN byHref = {Key(all[i]) : i \in {j \in Seen : HasHref(all[j])}}
  BY <1>1 DEF KeysSeen
<1>3. FirstOfFile(index) <=> (HasHref(p) => \A j \in Seen : ~(HasHref(all[j]) /\ Key(all[j]) = Key(p)))
  BY <1>1 DEF FirstOfFile, SameFile
<1> QED
  BY <1>2, <1>3 DEF Duplicate

\* Its place is the next one of the list if it is the first of its file.
LEMMA NextPlace ==
  ASSUME Typed, Preserved, UNCHANGED arguments, Listed, NEW p, AtResource(p), p # Nil
  PROVE  /\ ~FirstOfFile(index) => SeenKept' = SeenKept
         /\ FirstOfFile(index) => /\ SeenKept' = SeenKept \cup {index}
                                  /\ Cardinality(SeenKept') = Len(allCopy) + 1
                                  /\ Place(index) = Len(allCopy) + 1
<1>1. Reached = index /\ Reached' = index + 1 /\ index \in Passed /\ index \in Nat
  BY Turn
<1>2. Kept' = Kept /\ Kept \subseteq 1..Len(all) /\ Kept \subseteq Nat /\ Len(all) \in Nat
  BY SameArguments, PassedPointers
<1>3. index \in Kept <=> FirstOfFile(index)
  BY <1>1 DEF Kept
<1>4. SeenKept = {i \in Kept : i < index} /\ SeenKept' = {i \in Kept : i < index + 1}
  BY <1>1, <1>2 DEF SeenKept
<1>5. \A i \in Nat : (i < index + 1 <=> i < index \/ i = index) /\ (i <= index <=> i < index \/ i = index)
  BY <1>1
<1>6. ~FirstOfFile(index) => SeenKept' = SeenKept
  BY <1>2, <1>3, <1>4, <1>5
<1>7. FirstOfFile(index) => SeenKept' = SeenKept \cup {index}
  BY <1>2, <1>3, <1>4, <1>5
<1>8. {j \in Kept : j <= index} = SeenKept'
  <2>1. \A j \in Kept : j <= index <=> j < index + 1
    BY <1>2, <1>5
  <2>2. {j \in Kept : j <= index} = {j \in Kept : j < index + 1}
    BY <2>1
  <2> QED
    BY <1>4, <2>2
<1>9. IsFiniteSet(SeenKept) /\ index \notin SeenKept
  <2>1. IsFiniteSet(1..Len(all))
    BY <1>2, FS_Interval
  <2>2. SeenKept \subseteq 1..Len(all)
    BY <1>2 DEF SeenKept
  <2>3. index \notin SeenKept
    BY <1>1, <1>4
  <2> QED
    BY <2>1, <2>2, <2>3, FS_Subset
<1>10. Cardinality(SeenKept \cup {index}) = Len(allCopy) + 1
  BY <1>9, FS_AddElement DEF Listed
<1> QED
  BY <1>6, <1>7, <1>8, <1>10 DEF Place

\* A new entry of the list, for a resource of a file not seen before.
LEMMA ListedEnter ==
  ASSUME Typed, Listed, Frozen, UNCHANGED arguments, NEW p, AtResource(p), p # Nil,
         FirstOfFile(index), NEW q \in Pointers', allCopy' = Append(allCopy, q),
         [heap'[q] EXCEPT !.id = NoId] = [heap[p] EXCEPT !.id = NoId]
  PROVE  Listed'
<1>1. /\ SeenKept' = SeenKept \cup {index}
      /\ Cardinality(SeenKept') = Len(allCopy) + 1
      /\ Place(index) = Len(allCopy) + 1
  BY NextPlace, FrozenPreserves
<1>2. \A i : Place(i)' = Place(i)
  BY SamePlaces, FrozenPreserves
<1>3. /\ Len(allCopy') = Len(allCopy) + 1 /\ DOMAIN allCopy' = DOMAIN allCopy \cup {Len(allCopy) + 1}
      /\ \A i \in DOMAIN allCopy : allCopy'[i] = allCopy[i]
      /\ allCopy'[Len(allCopy) + 1] = q
  <2>1. allCopy \in Seq(Pointers')
    BY TypeParts, SeqMonotonic DEF Typed, BuiltOK, Frozen
  <2> QED
    BY <2>1, AppendFacts
<1>4. /\ \A i \in SeenKept : all[i] \in Pointers
      /\ \A i \in DOMAIN allCopy : allCopy[i] \in Pointers
      /\ \A x \in Pointers : heap'[x] = heap[x]
      /\ p \in Pointers /\ all[index] = p
  BY PassedPointers, StoredPointers, Turn, FrozenPreserves DEF SeenKept, Frozen, AtResource
<1>5. \A i \in SeenKept :
        /\ Place(i) \in DOMAIN allCopy'
        /\ [heap'[allCopy'[Place(i)]] EXCEPT !.id = NoId] = [heap'[all[i]] EXCEPT !.id = NoId]
  <2> SUFFICES ASSUME NEW i \in SeenKept
               PROVE  /\ Place(i) \in DOMAIN allCopy'
                      /\ [heap'[allCopy'[Place(i)]] EXCEPT !.id = NoId]
                           = [heap'[all[i]] EXCEPT !.id = NoId]
    OBVIOUS
  <2>1. PICK n \in DOMAIN allCopy : n = Place(i)
    BY DEF Listed
  <2>2. [heap[allCopy[n]] EXCEPT !.id = NoId] = [heap[all[i]] EXCEPT !.id = NoId]
    BY <2>1 DEF Listed, Apart
  <2>3. heap'[allCopy'[n]] = heap[allCopy[n]] /\ heap'[all[i]] = heap[all[i]]
    BY <1>3, <1>4
  <2> QED
    BY <1>3, <2>1, <2>2, <2>3
<1>6. /\ Place(index) \in DOMAIN allCopy'
      /\ [heap'[allCopy'[Place(index)]] EXCEPT !.id = NoId] = [heap'[all[index]] EXCEPT !.id = NoId]
  BY <1>1, <1>3, <1>4
<1>7. \A i \in SeenKept' :
        /\ Place(i)' \in DOMAIN allCopy'
        /\ [heap'[allCopy'[Place(i)']] EXCEPT !.id = NoId] = [heap'[all'[i]] EXCEPT !.id = NoId]
  BY <1>1, <1>2, <1>5, <1>6 DEF arguments
<1> QED
  BY <1>1, <1>3, <1>7 DEF Listed, Apart

\* The hrefs indexed after a turn.
LEMMA KeysSeenNext ==
  ASSUME Typed, KeysSeen, Preserved, UNCHANGED arguments, NEW p, AtResource(p),
         p = Nil => byHref' = byHref,
         p # Nil => DOMAIN byHref' = DOMAIN byHref \cup (IF HasHref(p) THEN {Key(p)} ELSE {})
  PROVE  KeysSeen'
<1> DEFINE Keys(S) == {CleanHref(heap'[all[i]].href) : i \in {j \in S : heap'[all[j]].href # NoHref}}
<1>1. phase = "index" /\ phase' = "index" /\ all[index] = p
  BY DEF AtResource
<1>2. \A i \in Seen : heap'[all[i]].href = heap[all[i]].href
  BY PassedPointers DEF Preserved, Seen
<1>3. DOMAIN byHref = Keys(Seen)
  BY <1>1, <1>2 DEF KeysSeen, HasHref, Key
<1>4. CASE p = Nil
  <2>1. Seen' = Seen
    BY <1>4, Turn
  <2> QED
    BY <1>3, <1>4, <2>1 DEF KeysSeen, HasHref, Key, arguments
<1>5. CASE p # Nil
  <2>1. Seen' = Seen \cup {index} /\ heap'[all[index]].href = heap[p].href
    BY <1>1, <1>5, Turn DEF Preserved
  <2>2. Keys(Seen \cup {index}) = Keys(Seen) \cup (IF HasHref(p) THEN {Key(p)} ELSE {})
    BY <2>1 DEF HasHref, Key
  <2>3. DOMAIN byHref' = Keys(Seen')
    BY <1>3, <1>5, <2>1, <2>2
  <2> QED
    BY <2>3 DEF KeysSeen, HasHref, Key, arguments
<1> QED
  BY <1>4, <1>5

\* A claimed id is generated or an earlier resource bears it.
LEMMA ClaimedBefore ==
  ASSUME Typed, Preserved, UNCHANGED arguments, IdsSeen, NEW p, AtResource(p), p # Nil, Claimed(p)
  PROVE  Generated(heap[p].id) \/ ~FirstWithId(index)
<1>1. phase = "index" /\ all[index] = p /\ Before(index) = Seen
  BY Turn DEF AtResource
<1> QED
  BY <1>1 DEF IdsSeen, Claimed, FirstWithId

\* What a turn owes to the id it meets.
LEMMA IdKeptNext ==
  ASSUME Typed, Preserved, UNCHANGED arguments, IdsSeen, NEW p, AtResource(p), p # Nil,
         NEW i, i = index,
         Claimed(p) => heap[p].id \in DOMAIN byID',
         heap[p].id # NoId /\ ~Claimed(p) =>
           /\ heap[p].id \in DOMAIN byID' /\ byID'[heap[p].id] \in Pointers
           /\ SameFile(byID'[heap[p].id], p)
  PROVE  IdKept(i)'
<1>1. p \in Pointers /\ i \in Passed /\ all'[i] = p /\ heap'[p].id = heap[p].id
  BY Turn DEF AtResource, Preserved, arguments
<1>2. /\ FirstWithId(i)' = FirstWithId(i)
      /\ \A id : Generated(id) => Generated(id)'
      /\ \A x, y \in Pointers : SameFile(x, y)' = SameFile(x, y)
  BY <1>1, SameArguments
<1>3. PICK id : id = heap[p].id
  OBVIOUS
<1>4. CASE id = NoId \/ Claimed(p)
  <2>1. Claimed(p) => Generated(id) \/ ~FirstWithId(i)
    BY <1>3, ClaimedBefore
  <2>2. id # NoId => id \in DOMAIN byID' /\ (Generated(id)' \/ ~FirstWithId(i)')
    BY <1>2, <1>3, <1>4, <2>1
  <2> QED
    BY <1>1, <1>3, <2>2 DEF IdKept, Generated
<1>5. CASE id # NoId /\ ~Claimed(p)
  <2>1. PICK q \in Pointers : q = byID'[id] /\ SameFile(q, p) /\ id \in DOMAIN byID'
    BY <1>3, <1>5
  <2>2. SameFile(q, p)'
    BY <1>1, <1>2, <2>1
  <2>3. SameFile(byID[id], all[i])'
    BY <1>1, <2>1, <2>2 DEF SameFile, HasHref, Key
  <2> QED
    BY <1>1, <1>3, <2>1, <2>3 DEF IdKept
<1> QED
  BY <1>4, <1>5

-----------------------------------------------------------------------------
(* Each step keeps Complete. *)

\* The ids after a turn that saw p.
LEMMA IdsKeptNext ==
  ASSUME Typed, Preserved, UNCHANGED arguments, IdsSeen, IdsKept, Grown(byID, byID'),
         NEW p, AtResource(p), p # Nil,
         heap[p].id # NoId /\ ~Claimed(p) =>
           /\ heap[p].id \in DOMAIN byID' /\ byID'[heap[p].id] \in Pointers
           /\ SameFile(byID'[heap[p].id], p)
  PROVE  IdsKept'
<1>1. PICK i : i = index
  OBVIOUS
<1>2. Claimed(p) => heap[p].id \in DOMAIN byID'
  BY DEF Claimed, Grown
<1>3. IdKept(i)'
  BY <1>1, <1>2, IdKeptNext
<1>4. Seen' = Seen \cup {i}
  BY <1>1, Turn
<1> QED
  BY <1>3, <1>4, IdsKeptStays

LEMMA SkipNilCompletes ==
  ASSUME Typed, Complete, SkipNil, Frozen PROVE Complete'
<1>1. /\ AtResource(Nil) /\ UNCHANGED <<heap, indexes, roCopy, coverAliased>> /\ UNCHANGED arguments
      /\ phase = "index" /\ Preserved
  BY FrozenPreserves DEF SkipNil, AtResource
<1>2. Seen' = Seen /\ SeenKept' = SeenKept
  BY <1>1, Turn
<1>3. Listed'
  BY <1>1, <1>2, ListedStays DEF Complete, indexes
<1>4. KeysSeen'
  BY <1>1, KeysSeenNext DEF Complete, indexes
<1>5. IdsSeen'
  BY <1>1, <1>2, IdsSeenStays DEF Complete, indexes
<1>6. IdsKept'
  BY <1>1, <1>2, IdsKeptStays DEF Complete, indexes, Grown
<1>7. Labelled'
  <2>1. Held' = Held
    BY <1>1 DEF Held, indexes
  <2> QED
    BY <1>1, <2>1, LabelledStays DEF Complete
<1> QED
  BY <1>3, <1>4, <1>5, <1>6, <1>7 DEF Complete

LEMMA SkipDuplicateCompletes ==
  ASSUME Typed, Exact, Complete, SkipDuplicate, Frozen PROVE Complete'
<1>1. PICK p \in Pointers :
        /\ AtResource(p) /\ Duplicate(p)
        /\ byID' = IF heap[p].id # NoId /\ ~Claimed(p)
                   THEN Extend(byID, heap[p].id, byHref[Key(p)]) ELSE byID
        /\ UNCHANGED <<heap, byHref, allCopy>>
  BY DEF SkipDuplicate, Pointers
<1>2. /\ phase = "index" /\ UNCHANGED arguments /\ UNCHANGED <<roCopy, coverAliased>>
      /\ Preserved /\ p # Nil
  <2>1. p # Nil
    BY PointersNotNil
  <2> QED
    BY <1>1, <2>1, FrozenPreserves DEF AtResource
<1>3. PICK q \in Pointers : q = byHref[Key(p)] /\ SameFile(q, p)
  BY <1>1, StoredPointers DEF Exact, KeysExact, SameFile, Duplicate
<1>4. Seen' = Seen \cup {index} /\ SeenKept' = SeenKept /\ all[index] = p
  BY <1>1, <1>2, Turn, DuplicateIsLater, NextPlace DEF Complete, AtResource
<1>5. Grown(byID, byID')
  <2>1. Grown(byID, byID)
    BY DEF Grown
  <2>2. heap[p].id # NoId /\ ~Claimed(p) => Grown(byID, Extend(byID, heap[p].id, q))
    BY ExtendGrows DEF Claimed
  <2> QED
    BY <1>1, <1>3, <2>1, <2>2
<1>6. Listed'
  BY <1>1, <1>2, <1>4, ListedStays DEF Complete
<1>7. KeysSeen'
  BY <1>1, <1>2, KeysSeenNext DEF Complete, Duplicate
<1>8. \A id \in DOMAIN byID' : id \in DOMAIN byID \/ id = heap[p].id
  BY <1>1 DEF Extend
<1>9. IdsSeen'
  <2>1. heap'[all'[index]].id = heap[p].id /\ index \in Seen'
    BY <1>1, <1>2, <1>4 DEF arguments
  <2> QED
    BY <1>2, <1>4, <1>8, <2>1, IdsSeenStays DEF Complete
<1>10. IdsKept'
  <2>1. heap[p].id # NoId /\ ~Claimed(p) =>
          /\ heap[p].id \in DOMAIN byID' /\ byID'[heap[p].id] = q
    <3>1. heap[p].id # NoId /\ ~Claimed(p) => byID' = Extend(byID, heap[p].id, q)
      BY <1>1, <1>3
    <3>2. heap[p].id \in DOMAIN Extend(byID, heap[p].id, q) /\ Extend(byID, heap[p].id, q)[heap[p].id] = q
      BY DEF Extend
    <3> QED
      BY <3>1, <3>2
  <2> QED
    BY <1>1, <1>2, <1>3, <1>5, <2>1, IdsKeptNext DEF Complete
<1>11. Labelled'
  <2>1. Held' = Held
    BY <1>1, <1>2 DEF Held
  <2> QED
    BY <1>2, <2>1, LabelledStays DEF Complete
<1> QED
  BY <1>6, <1>7, <1>9, <1>10, <1>11 DEF Complete

\* Entering the resource met, or its copy under a generated id.
LEMMA EnterCompletes ==
  ASSUME Typed, Exact, Complete, Frozen, NEW p \in Pointers, AtResource(p), ~Duplicate(p),
         NEW q \in Pointers', Enter(q, heap'[q]),
         [heap'[q] EXCEPT !.id = NoId] = [heap[p] EXCEPT !.id = NoId],
         heap'[q].href = heap[p].href, heap'[q].charset = heap[p].charset,
         ~Claimed(p) => q = p,
         Claimed(p) => Generated(heap[q].id)',
         heap'[q].id # NoId => heap'[q].id \notin DOMAIN byID
  PROVE  Complete'
<1>0. PICK id : id = heap'[q].id
  OBVIOUS
<1>1. /\ phase = "index" /\ UNCHANGED arguments /\ UNCHANGED <<roCopy, coverAliased>>
      /\ Preserved /\ p # Nil /\ all[index] = p
  BY FrozenPreserves, PointersNotNil DEF AtResource
<1>2. Seen' = Seen \cup {index} /\ FirstOfFile(index) /\ index \in Passed
  BY <1>1, Turn, DuplicateIsLater DEF Complete
<1>3. /\ byHref' = IF heap[p].href # NoHref THEN Extend(byHref, Key(p), q) ELSE byHref
      /\ byID' = IF id # NoId THEN Extend(byID, id, q) ELSE byID
      /\ allCopy' = Append(allCopy, q)
  BY <1>0 DEF Enter, Key
<1>4. Listed'
  BY <1>1, <1>2, <1>3, ListedEnter DEF Complete
<1>5. KeysSeen'
  <2>1. DOMAIN byHref' = DOMAIN byHref \cup (IF HasHref(p) THEN {Key(p)} ELSE {})
    BY <1>3 DEF HasHref, Extend
  <2> QED
    BY <1>1, <2>1, KeysSeenNext DEF Complete
<1>6. \A x \in DOMAIN byID' : x \in DOMAIN byID \/ x = id
  BY <1>3 DEF Extend
<1>7. Grown(byID, byID')
  <2>1. Grown(byID, byID)
    BY DEF Grown
  <2> QED
    BY <1>0, <1>3, <2>1, ExtendGrows
<1>8. IdsSeen'
  <2>1. Claimed(p) => Generated(id)'
    BY <1>0 DEF Generated
  <2>2. ~Claimed(p) => id = heap'[p].id
    BY <1>0
  <2>3. heap'[all'[index]].id = heap'[p].id /\ index \in Seen'
    BY <1>1, <1>2 DEF arguments
  <2> QED
    BY <1>1, <1>2, <1>6, <2>1, <2>2, <2>3, IdsSeenStays DEF Complete
<1>9. IdsKept'
  <2>1. ASSUME heap[p].id # NoId, ~Claimed(p)
        PROVE  heap[p].id \in DOMAIN byID' /\ byID'[heap[p].id] = p
    <3>1. id = heap[p].id /\ q = p
      BY <1>0, <1>1, <2>1 DEF Preserved
    <3>2. byID' = Extend(byID, heap[p].id, p)
      BY <1>3, <2>1, <3>1
    <3> QED
      BY <3>2 DEF Extend
  <2>2. SameFile(p, p)
    BY DEF SameFile
  <2> QED
    BY <1>1, <1>7, <2>1, <2>2, IdsKeptNext DEF Complete
<1>10. Labelled'
  <2>1. p \in Given /\ heap[p].charset # ""
    BY <1>1, <1>2 DEF Given, Passed, Complete, Labelled
  <2>2. \A x \in Held' : x \in Held \/ x = q
    <3>1. allCopy \in Seq(Pointers')
      BY TypeParts, SeqMonotonic DEF Typed, BuiltOK, Frozen
    <3>2. \A x \in {allCopy'[i] : i \in DOMAIN allCopy'} : x \in Held \/ x = q
      BY <1>3, <3>1, AppendFacts DEF Held
    <3>3. \A x \in {byHref'[k] : k \in DOMAIN byHref'} : x \in Held \/ x = q
      BY <1>3 DEF Held, Extend
    <3> QED
      BY <1>1, <3>2, <3>3 DEF Held
  <2> QED
    BY <1>1, <2>1, <2>2, LabelledStays DEF Complete
<1> QED
  BY <1>4, <1>5, <1>8, <1>9, <1>10 DEF Complete

LEMMA KeepResourceCompletes ==
  ASSUME Typed, Exact, Complete, KeepResource, Frozen PROVE Complete'
<1>1. PICK p \in Pointers : /\ AtResource(p) /\ ~Duplicate(p) /\ ~Claimed(p)
                            /\ Enter(p, heap[p]) /\ UNCHANGED heap
  BY DEF KeepResource, Pointers
<1>2. p \in Pointers' /\ heap'[p] = heap[p] /\ Enter(p, heap'[p])
  BY <1>1 DEF Frozen
<1>3. heap'[p].id # NoId => heap'[p].id \notin DOMAIN byID
  BY <1>1, <1>2 DEF Claimed
<1> QED
  BY <1>1, <1>2, <1>3, EnterCompletes

LEMMA RenameResourceCompletes ==
  ASSUME Typed, Exact, Complete, RenameResource, Frozen PROVE Complete'
<1>1. PICK p \in Pointers, n \in 1..MaxDup :
        /\ AtResource(p) /\ ~Duplicate(p) /\ Claimed(p) /\ FreeId(heap[p].id, n)
        /\ heap' = Append(heap, [heap[p] EXCEPT !.id = Dup(heap[p].id, n)])
        /\ Enter(Len(heap) + 1, [heap[p] EXCEPT !.id = Dup(heap[p].id, n)])
  BY DEF RenameResource, Pointers
<1>2. PICK q, copy : q = Len(heap) + 1 /\ copy = [heap[p] EXCEPT !.id = Dup(heap[p].id, n)]
  OBVIOUS
<1>3. IsResource(heap[p])
  BY TypeParts DEF Typed, HeapOK
<1>4. /\ IsResource(copy) /\ copy.id = Dup(heap[p].id, n) /\ copy.href = heap[p].href
      /\ copy.charset = heap[p].charset
      /\ [copy EXCEPT !.id = NoId] = [heap[p] EXCEPT !.id = NoId]
  BY <1>2, <1>3 DEF IsResource, Resource
<1>5. q \in Pointers' /\ heap'[q] = copy
  BY <1>1, <1>2, <1>4, CopyHeap, TypeParts DEF Typed
<1>6. Enter(q, heap'[q]) /\ heap'[q].id \notin DOMAIN byID
  BY <1>1, <1>2, <1>4, <1>5 DEF FreeId
<1>7. Generated(heap[q].id)'
  <2>1. p \in Pointers' /\ heap'[p].id = heap[p].id
    BY DEF Frozen
  <2> QED
    BY <1>4, <1>5, <2>1 DEF Generated
<1> QED
  BY <1>1, <1>4, <1>5, <1>6, <1>7, EnterCompletes

\* A step after the loop: nothing new is seen, the ids only grow.
LEMMA AfterLoopCompletes ==
  ASSUME Typed, Complete, Frozen, UNCHANGED arguments, UNCHANGED allCopy, Grown(byID, byID'),
         Reached' = Reached, phase # "normalize", phase' \in {"order", "done"},
         \A p \in Held' : p \in Held \/ p \in Given \/ (p # Nil => heap'[p].charset # "")
  PROVE  Complete'
<1>1. Preserved /\ Passed' = Passed /\ Kept' = Kept
  BY FrozenPreserves, SameArguments
<1>2. Seen' = Seen /\ SeenKept' = SeenKept
  BY <1>1 DEF Seen, SeenKept
<1>3. Listed'
  BY <1>2, ListedStays DEF Complete
<1>4. KeysSeen' /\ IdsSeen'
  BY DEF KeysSeen, IdsSeen
<1>5. IdsKept'
  BY <1>1, <1>2, IdsKeptStays DEF Complete
<1>6. Labelled'
  BY LabelledStays DEF Complete
<1> QED
  BY <1>3, <1>4, <1>5, <1>6 DEF Complete

LEMMA StartOrderCompletes ==
  ASSUME Typed, Complete, StartOrder, Frozen PROVE Complete'
<1>1. /\ UNCHANGED arguments /\ UNCHANGED <<indexes, roCopy, coverAliased>>
      /\ phase = "index" /\ phase' = "order" /\ index \notin DOMAIN all
  BY DEF StartOrder
<1>2. Reached' = Reached
  <2>1. index \in Nat \ {0} /\ index <= Len(all) + 1 /\ Len(all) \in Nat /\ DOMAIN all = 1..Len(all)
    BY <1>1, TypeParts, PassedPointers DEF Typed, IndexOK
  <2>2. index = Len(all) + 1
    BY <1>1, <2>1
  <2> QED
    BY <1>1, <2>2 DEF Reached, arguments
<1>3. Held' = Held /\ Grown(byID, byID') /\ UNCHANGED allCopy
  BY <1>1 DEF Held, indexes, Grown
<1> QED
  BY <1>1, <1>2, <1>3, AfterLoopCompletes

LEMMA CanonicalizeItemCompletes ==
  ASSUME Typed, Complete, CanonicalizeItem, Frozen PROVE Complete'
<1> DEFINE item == readingOrder[index]
           Entries == [resource : Pointers, linear : BOOLEAN]
<1>1. /\ UNCHANGED arguments /\ UNCHANGED <<indexes, coverAliased>>
      /\ phase = "order" /\ phase' = "order" /\ index \in DOMAIN readingOrder
  BY DEF CanonicalizeItem
<1>2. Reached' = Reached /\ Grown(byID, byID') /\ UNCHANGED allCopy
  BY <1>1 DEF Reached, Grown, indexes, arguments
<1>3. Deduped(item.resource) \in Held \cup Given
  BY <1>1 DEF Deduped, Duplicate, Held, Given
<1>4. PICK entry : entry = [resource |-> Deduped(item.resource), linear |-> item.linear]
  OBVIOUS
<1>5. \A x \in {roCopy'[i].resource : i \in DOMAIN roCopy'} : x \in Held \cup Given
  <2>1. roCopy' = roCopy \/ roCopy' = Append(roCopy, entry)
    BY <1>4 DEF CanonicalizeItem
  <2>2. roCopy \in Seq(Entries \cup {entry})
    BY SeqMonotonic, TypeParts DEF Typed, BuiltOK
  <2>3. entry.resource \in Held \cup Given
    BY <1>3, <1>4
  <2>4. \A i \in DOMAIN roCopy : roCopy[i].resource \in Held
    BY DEF Held
  <2> HIDE DEF Entries, item
  <2>5. \A i \in DOMAIN roCopy' : roCopy'[i].resource \in Held \cup Given
    BY <2>1, <2>2, <2>3, <2>4, AppendFacts
  <2> QED
    BY <2>5
<1>6. \A x \in Held' : x \in Held \/ x \in Given
  BY <1>1, <1>5 DEF Held, indexes
<1> QED
  BY <1>1, <1>2, <1>6, AfterLoopCompletes

\* Serving the cover p.
LEMMA CoverCompletes ==
  ASSUME Typed, Complete, Frozen, AtCover, NEW p, coverAliased' = p,
         p \in Held \/ p \in Given \/ (p # Nil => heap'[p].charset # ""),
         byHref' = byHref \/ \E key : byHref' = Extend(byHref, key, p),
         Grown(byID, byID')
  PROVE  Complete'
<1>1. /\ UNCHANGED arguments /\ UNCHANGED <<allCopy, roCopy>>
      /\ phase = "order" /\ phase' = "done" /\ Reached' = Reached
  BY DEF AtCover, Reached, arguments
<1>2. \A x \in Held' : x \in Held \/ x = p
  BY <1>1 DEF Held, Extend
<1> QED
  BY <1>1, <1>2, AfterLoopCompletes

LEMMA AliasCoverCompletes ==
  ASSUME Typed, Complete, AliasCover, Frozen PROVE Complete'
<1>1. PICK p : p = coverAliased'
  OBVIOUS
<1>2. p \in Held \/ p \in Given
  BY <1>1 DEF AliasCover, Deduped, Duplicate, Held, Given
<1> QED
  BY <1>1, <1>2, CoverCompletes DEF AliasCover, Grown

LEMMA EnterCoverCompletes ==
  ASSUME Typed, Complete, EnterCover, Frozen PROVE Complete'
<1>1. PICK p : p = cover /\ p \in Given
  BY DEF Given
<1>2. Grown(byID, byID')
  <2>1. Grown(byID, byID)
    BY DEF Grown
  <2> QED
    BY <2>1, ExtendGrows DEF EnterCover, Claimed
<1>3. byHref' = byHref \/ \E key : byHref' = Extend(byHref, key, p)
  BY <1>1 DEF EnterCover
<1> QED
  BY <1>1, <1>2, <1>3, CoverCompletes DEF EnterCover

LEMMA RenameCoverCompletes ==
  ASSUME Typed, Complete, RenameCover, Frozen PROVE Complete'
<1>1. PICK n \in 1..MaxDup :
        /\ AtCover /\ cover # Nil /\ HasHref(cover)
        /\ heap' = Append(heap, [heap[cover] EXCEPT !.id = Dup(heap[cover].id, n)])
        /\ coverAliased' = Len(heap) + 1
        /\ byHref' = Extend(byHref, Key(cover), Len(heap) + 1)
        /\ UNCHANGED byID
  BY DEF RenameCover
<1>2. PICK q, copy : /\ q = Len(heap) + 1
                     /\ copy = [heap[cover] EXCEPT !.id = Dup(heap[cover].id, n)]
  OBVIOUS
<1>3. IsResource(heap[cover])
  BY <1>1, TypeParts DEF Typed, HeapOK, ArgumentsOK
<1>4. IsResource(copy) /\ copy.charset = heap[cover].charset
  BY <1>2, <1>3 DEF IsResource, Resource
<1>5. heap'[q] = copy
  BY <1>1, <1>2, <1>4, CopyHeap, TypeParts DEF Typed
<1>6. heap[cover].charset # ""
  BY <1>1 DEF AtCover, Complete, Labelled, Given
<1>7. \E key : byHref' = Extend(byHref, key, q)
  BY <1>1, <1>2
<1> QED
  BY <1>1, <1>2, <1>4, <1>5, <1>6, <1>7, CoverCompletes DEF Grown

LEMMA NormalizeCompletes ==
  ASSUME Typed, Complete, Normalize PROVE Complete'
<1>1. /\ UNCHANGED arguments /\ UNCHANGED <<indexes, roCopy, coverAliased>> /\ UNCHANGED index
      /\ phase = "normalize" /\ phase' = "index"
  BY DEF Normalize
<1>2. index = 1 /\ roCopy = <<>> /\ coverAliased = Nil
  BY <1>1 DEF Typed, Stages
<1>3. \A i \in Passed : ~(i < 1)
  BY PassedPointers
<1>4. Seen = {} /\ SeenKept = {}
  BY <1>1, <1>2, <1>3, PassedPointers DEF Seen, SeenKept, Reached
<1>5. Preserved /\ Passed' = Passed /\ Kept' = Kept
  BY <1>1, NormalizeHeap, SameArguments, TypeParts DEF Typed
<1>6. Seen' = {} /\ SeenKept' = {}
  BY <1>1, <1>2, <1>3, <1>5, PassedPointers DEF Seen, SeenKept, Reached
<1>7. DOMAIN byHref = {}
  BY <1>1, <1>4 DEF Complete, KeysSeen
<1>8. allCopy = <<>>
  <2>1. allCopy \in Seq(Pointers)
    BY TypeParts DEF Typed, BuiltOK
  <2>2. Len(allCopy) = 0
    BY <1>4, FS_EmptySet DEF Complete, Listed
  <2> QED
    BY <2>1, <2>2, EmptySeq
<1>9. Listed' /\ KeysSeen' /\ IdsKept'
  BY <1>1, <1>4, <1>6, <1>7 DEF Complete, Listed, KeysSeen, IdsKept, indexes
<1>10. IdsSeen'
  <2>1. \A id \in DOMAIN byID : Generated(id)
    BY <1>1, <1>4 DEF Complete, IdsSeen
  <2>2. \A id : Generated(id) => Generated(id)'
    BY <1>1, <1>5, SameArguments
  <2> QED
    BY <1>1, <2>1, <2>2 DEF IdsSeen, indexes
<1>11. Labelled'
  <2>1. Given' = Given /\ \A p \in Held' : p = Nil
    BY <1>1, <1>2, <1>7, <1>8 DEF Given, Held, arguments, indexes
  <2>2. \A p \in Given : p \in Pointers \cup {Nil}
    BY GivenPointers
  <2>3. ASSUME NEW p \in Given, p # Nil PROVE heap'[p].charset # ""
    <3>1. p \in Pointers /\ IsResource(heap[p])
      BY <2>2, <2>3, TypeParts DEF Typed, HeapOK
    <3>2. heap'[p] = [heap[p] EXCEPT !.charset = NormalizedCharset(heap[p])]
      BY <2>3, <3>1 DEF Normalize, Given, Pointers
    <3>3. heap'[p].charset = NormalizedCharset(heap[p])
      BY <3>1, <3>2 DEF IsResource, Resource
    <3> QED
      BY <3>3 DEF NormalizedCharset
  <2> QED
    BY <2>1, <2>3 DEF Labelled
<1> QED
  BY <1>9, <1>10, <1>11 DEF Complete

LEMMA CompleteStutter ==
  ASSUME Typed, Complete, UNCHANGED setvars PROVE Complete'
<1>1. /\ UNCHANGED arguments /\ UNCHANGED <<heap, phase, index, byID, byHref, allCopy, roCopy, coverAliased>>
      /\ Frozen /\ Preserved
  BY SameHeap, TypeParts DEF setvars, indexes, Typed, Frozen, Pointers
<1>2. Passed' = Passed /\ Kept' = Kept /\ Reached' = Reached
  BY <1>1, SameArguments DEF Reached, arguments
<1>3. Seen' = Seen /\ SeenKept' = SeenKept
  BY <1>2 DEF Seen, SeenKept
<1>4. Listed'
  BY <1>1, <1>3, ListedStays DEF Complete
<1>5. KeysSeen'
  BY <1>1, <1>3 DEF Complete, KeysSeen, HasHref, Key, arguments
<1>6. IdsSeen'
  BY <1>1, <1>3 DEF Complete, IdsSeen, Generated, Pointers, arguments
<1>7. IdsKept'
  <2>1. Grown(byID, byID')
    BY <1>1 DEF Grown
  <2>2. Preserved /\ UNCHANGED arguments /\ IdsKept
    BY <1>1 DEF Complete
  <2>3. \A i \in Seen' : i \in Seen
    BY <1>3
  <2> QED
    BY <2>1, <2>2, <2>3, IdsKeptStays
<1>8. Labelled'
  <2>1. Given' = Given
    BY <1>1 DEF Given, arguments
  <2>2. Held' = Held
    BY <1>1 DEF Held
  <2> QED
    BY <1>1, <2>1, <2>2 DEF Complete, Labelled
<1> QED
  BY <1>4, <1>5, <1>6, <1>7, <1>8 DEF Complete

LEMMA CompleteStep == Typed /\ Exact /\ Complete /\ [NewResourceSet]_setvars => Complete'
<1> SUFFICES ASSUME Typed, Exact, Complete, [NewResourceSet]_setvars PROVE Complete'
  OBVIOUS
<1>1. CASE Normalize
  BY <1>1, NormalizeCompletes
<1>2. CASE NewResourceSet /\ ~Normalize
  <2>1. Frozen
    BY <1>2, StepFreezes
  <2>2. CASE IndexResource
    BY <2>1, <2>2, SkipNilCompletes, SkipDuplicateCompletes, KeepResourceCompletes,
       RenameResourceCompletes DEF IndexResource
  <2>3. CASE ResolveCover
    BY <2>1, <2>3, AliasCoverCompletes, EnterCoverCompletes, RenameCoverCompletes DEF ResolveCover
  <2> QED
    BY <1>2, <2>1, <2>2, <2>3, StartOrderCompletes, CanonicalizeItemCompletes DEF NewResourceSet
<1> QED
  BY <1>1, <1>2, CompleteStutter

LEMMA CompleteInit == Typed /\ phase = "normalize" /\ EmptySet => Complete
<1> SUFFICES ASSUME Typed, phase = "normalize", EmptySet PROVE Complete
  OBVIOUS
<1>1. index = 1 /\ byID = <<>> /\ byHref = <<>> /\ allCopy = <<>>
  BY DEF EmptySet
<1>2. \A i \in Passed : ~(i < 1)
  BY PassedPointers
<1>3. Seen = {} /\ SeenKept = {}
  BY <1>1, <1>2, PassedPointers DEF Seen, SeenKept, Reached
<1> QED
  BY <1>1, <1>3, FS_EmptySet DEF Complete, Listed, KeysSeen, IdsSeen, IdsKept, Labelled

LEMMA CompleteLosesNothing == Typed /\ Complete => NothingLost
<1> SUFFICES ASSUME Typed, Complete, phase \in {"order", "done"} PROVE NothingLost
  BY DEF NothingLost
<1>1. Reached = Len(all) + 1 /\ Len(all) \in Nat
  BY PassedPointers DEF Reached
<1>2. \A i \in 1..Len(all) : i < Reached
  BY <1>1
<1>3. Seen = Passed /\ SeenKept = Kept
  BY <1>2, PassedPointers DEF Seen, SeenKept
<1>4. /\ Len(allCopy) = Cardinality(Kept)
      /\ \A i \in Kept : Apart(allCopy[Place(i)]) = Apart(all[i])
  BY <1>3 DEF Complete, Listed
<1>5. \A i \in Passed : IdKept(i)
  BY <1>3 DEF Complete, IdsKept
<1>6. \A p \in {allCopy[i] : i \in DOMAIN allCopy}
           \cup {roCopy[i].resource : i \in DOMAIN roCopy} \cup ({coverAliased} \ {Nil}) :
        heap[p].charset # ""
  <2>1. \A p \in {allCopy[i] : i \in DOMAIN allCopy} \cup {roCopy[i].resource : i \in DOMAIN roCopy} :
          p \in Held /\ p # Nil
    BY StoredPointers, PointersNotNil DEF Held
  <2>2. coverAliased \in Held
    BY DEF Held
  <2> QED
    BY <2>1, <2>2 DEF Complete, Labelled
<1> QED
  BY <1>4, <1>5, <1>6 DEF NothingLost, IdKept

\* Whatever NewResourceSet is given, removing duplicates loses neither a file
\* nor a declared id, and what a client can reach has a charset
\* (book/resource.go:236-379, book/charset.go "never empty").
THEOREM NothingEverLost == SetSpec => []NothingLost
<1>1. InitSet => Typed /\ Exact /\ Complete
  BY TypeInit, ExactInit, CompleteInit DEF InitSet
<1>2. Typed /\ Exact /\ Complete /\ [NewResourceSet]_setvars => (Typed /\ Exact /\ Complete)'
  BY TypeStep, ExactStep, CompleteStep
<1>3. Typed /\ Exact /\ Complete => NothingLost
  BY CompleteLosesNothing
<1> QED
  BY <1>1, <1>2, <1>3, PTL DEF SetSpec

=============================================================================
