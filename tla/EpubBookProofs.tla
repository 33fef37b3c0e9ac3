--------------------------- MODULE EpubBookProofs ---------------------------
(***************************************************************************)
(* Proofs about EpubBook, for every archive: the lists Read hands to       *)
(* NewResourceSet are such that what is proved of any call holds of a book *)
(* that was read, and its reading order, cover, DRM verdict and metadata   *)
(* are those of its package.                                               *)
(***************************************************************************)
EXTENDS EpubBook, ResourceSetProofs, ListLemmas

-----------------------------------------------------------------------------
(* Looking names up *)

\* The first position of a set of positions, 0 when there is none.
LEMMA FirstOf ==
  ASSUME NEW n \in Nat, NEW I, I \subseteq 1..n
  PROVE  /\ I # {} => Min(I) \in I /\ \A i \in I : Min(I) <= i
         /\ (IF I # {} THEN Min(I) ELSE 0) = 0 <=> I = {}
<1>1. ASSUME I # {} PROVE Min(I) \in I /\ \A i \in I : Min(I) <= i
  <2>1. I \in SUBSET Nat
    OBVIOUS
  <2>2. \E x \in I : \A y \in I : x <= y
    BY <1>1, <2>1, LeastMember
  <2> QED
    BY <2>2 DEF Min
<1>2. 0 \notin I
  OBVIOUS
<1>3. I # {} => Min(I) # 0
  BY <1>1, <1>2
<1> QED
  BY <1>1, <1>3

\* A list has its positions.
LEMMA ListFacts ==
  ASSUME NEW s, IsList(s)
  PROVE  /\ Len(s) \in Nat /\ DOMAIN s = 1..Len(s)
         /\ s \in Seq({s[i] : i \in DOMAIN s})
BY LenProperties DEF IsList

\* compress.Find finds the first entry of the name.
LEMMA FindFacts ==
  ASSUME IsList(archive.entries), NEW name
  PROVE  LET es == archive.entries IN
         /\ Find(name) = 0 => \A i \in DOMAIN es : es[i].name # name
         /\ Find(name) # 0 => /\ Find(name) \in DOMAIN es /\ es[Find(name)].name = name
                              /\ \A i \in DOMAIN es : es[i].name = name => Find(name) <= i
<1> DEFINE es == archive.entries
           I == {i \in 1..Len(es) : es[i].name = name}
<1>1. Len(es) \in Nat /\ DOMAIN es = 1..Len(es)
  BY ListFacts
<1>2. Find(name) = IF I # {} THEN Min(I) ELSE 0
  BY DEF Find, SelectInSeq
<1>3. /\ I # {} => Min(I) \in I /\ \A i \in I : Min(I) <= i
      /\ (IF I # {} THEN Min(I) ELSE 0) = 0 <=> I = {}
  <2> HIDE DEF es
  <2>1. I \subseteq 1..Len(es)
    OBVIOUS
  <2> HIDE DEF I
  <2> QED
    BY <1>1, <2>1, FirstOf
<1> HIDE DEF es
<1>4. /\ Find(name) = 0 => I = {}
      /\ Find(name) # 0 => Find(name) \in I /\ \A i \in I : Find(name) <= i
  BY <1>2, <1>3
<1> QED
  BY <1>1, <1>4 DEF es

-----------------------------------------------------------------------------
(* Types *)

Reading == {"open", "ocf", "adobe", "kobo", "manifest", "coverItem", "failed"}
Building == {"normalize", "index", "order", "done"}

IsArchive(a) ==
  /\ a.zip \in BOOLEAN /\ IsList(a.entries)
  /\ \A i \in DOMAIN a.entries :
       /\ a.entries[i].declared \in Labels
       /\ a.entries[i].kind = "package" =>
            IsPackage(a.entries[i].package) /\ IsMetadata(a.entries[i].package.metadata)

BookOK ==
  /\ phase \in Reading \cup Building /\ (err # "") = (phase = "failed")
  /\ IsArchive(archive) /\ IsPackage(pkg)
  /\ resolved \in [DOMAIN resolved -> Pointers]

\* NewResourceSet has not begun.
Untouched ==
  /\ byID = <<>> /\ byHref = <<>>
  /\ allCopy = <<>> /\ roCopy = <<>> /\ coverAliased = Nil

Gathering == HeapOK /\ ArgumentsOK(Pointers) /\ Untouched /\ index \in Nat \ {0}
SetInv == IF phase \in Reading THEN Gathering ELSE Typed /\ Exact /\ Complete

EpubInv == BookOK /\ SetInv

LEMMA EmptyLists ==
  /\ IsList(<<>>) /\ \A P : <<>> \in Seq(P)
  /\ DOMAIN <<>> = {} /\ \A P : <<>> \in [DOMAIN <<>> -> P]
<1>1. DOMAIN <<>> = {}
  BY EmptySeq, LenProperties
<1> QED
  BY <1>1 DEF IsList

LEMMA BookInit == Init => EpubInv
<1> SUFFICES ASSUME Init PROVE EpubInv
  OBVIOUS
<1>1. IsPackage(NoPackage)
  BY EmptyLists DEF IsPackage, NoPackage
<1>2. CASE InitRead
  <2>1. IsArchive(archive)
    BY <1>2, ArchivesAssumption DEF InitRead, IsArchive
  <2>2. /\ pkg = NoPackage /\ resolved = <<>> /\ err = "" /\ heap = <<>> /\ all = <<>>
        /\ readingOrder = <<>> /\ cover = Nil /\ phase = "open"
    BY <1>2 DEF InitRead
  <2>3. BookOK
    <3>1. resolved \in [DOMAIN resolved -> Pointers]
      BY <2>2, EmptyLists
    <3> QED
      BY <1>1, <2>1, <2>2, <3>1 DEF BookOK, Reading
  <2>4. HeapOK
    <3>1. Pointers = {}
      BY <2>2, EmptyLists DEF Pointers
    <3>2. heap \in Seq({heap[p] : p \in Pointers})
      BY <2>2, EmptyLists
    <3> QED
      BY <3>1, <3>2 DEF HeapOK
  <2>5. ArgumentsOK(Pointers)
    <3>1. all \in Seq(Pointers \cup {Nil}) /\ cover \in Pointers \cup {Nil}
      BY <2>2, EmptyLists
    <3>2. readingOrder \in Seq([resource : Pointers \cup {Nil}, linear : BOOLEAN])
      BY <2>2, EmptyLists
    <3> QED
      BY <3>1, <3>2 DEF ArgumentsOK
  <2>6. SetInv
    <3>1. Untouched /\ index = 1
      BY <1>2 DEF InitRead, Untouched, EmptySet
    <3>2. index \in Nat \ {0}
      BY <3>1
    <3>3. phase \in Reading
      BY <2>2 DEF Reading
    <3> QED
      BY <2>4, <2>5, <3>1, <3>2, <3>3 DEF SetInv, Gathering
  <2> QED
    BY <2>3, <2>6 DEF EpubInv
<1>3. CASE InitCall
  <2>1. IsArchive(archive)
    BY <1>3, EmptyLists DEF InitCall, IsArchive, NoArchive
  <2>2. BookOK
    BY <1>1, <1>3, <2>1, EmptyLists DEF InitCall, InitSet, BookOK, Building
  <2>3. Typed /\ Exact /\ Complete
    BY <1>3, TypeInit, ExactInit, CompleteInit DEF InitCall, InitSet
  <2>4. phase \notin Reading
    BY <1>3 DEF InitCall, InitSet, Reading
  <2> QED
    BY <2>2, <2>3, <2>4 DEF EpubInv, SetInv
<1> QED
  BY <1>2, <1>3 DEF Init

\* Where gathering goes on, the lists for NewResourceSet are the same.
LEMMA GatheringStays ==
  ASSUME Gathering, UNCHANGED <<heap, arguments, index, indexes, roCopy, coverAliased>>
  PROVE  Gathering'
BY DEF Gathering, HeapOK, ArgumentsOK, Untouched, Pointers, arguments, indexes

LEMMA NotYet ==
  ASSUME EpubInv, phase \in Reading
  PROVE  BookOK /\ Gathering
BY DEF EpubInv, SetInv

LEMMA FailKeeps == ASSUME EpubInv, phase \in Reading, NEW r, r # "", Fail(r) PROVE EpubInv'
<1>1. Gathering'
  BY NotYet, GatheringStays DEF Fail
<1>2. BookOK'
  BY NotYet DEF Fail, BookOK, Reading, IsArchive, Pointers
<1> QED
  BY <1>1, <1>2 DEF EpubInv, SetInv, Fail, Reading

LEMMA ProceedKeeps ==
  ASSUME EpubInv, phase \in Reading \ {"failed"}, NEW to \in Reading \ {"failed"},
         Proceed(to), IsPackage(pkg)'
  PROVE  EpubInv'
<1>1. Gathering'
  BY NotYet, GatheringStays DEF Proceed
<1>2. BookOK'
  BY NotYet DEF Proceed, BookOK, IsArchive, Pointers
<1> QED
  BY <1>1, <1>2 DEF EpubInv, SetInv, Proceed

LEMMA OpenArchiveKeeps == ASSUME EpubInv, OpenArchive PROVE EpubInv'
<1>1. phase = "open" /\ BookOK
  BY DEF OpenArchive, EpubInv
<1>2. CASE Fail("zip")
  BY <1>1, <1>2, FailKeeps DEF Reading
<1>3. CASE Proceed("ocf") /\ UNCHANGED pkg
  <2>1. IsPackage(pkg)'
    BY <1>1, <1>3 DEF BookOK, IsPackage
  <2> QED
    BY <1>1, <1>3, <2>1, ProceedKeeps DEF Reading
<1> QED
  BY <1>2, <1>3 DEF OpenArchive

LEMMA ReadPackageKeeps == ASSUME EpubInv, ReadPackage PROVE EpubInv'
<1>1. phase = "ocf" /\ BookOK
  BY DEF ReadPackage, EpubInv
<1>2. CASE Fail("ocf") \/ Fail("opf")
  BY <1>1, <1>2, FailKeeps DEF Reading
<1>3. CASE /\ Parses(PackagePath, "package") /\ Proceed("adobe")
           /\ pkg' = [Entry(PackagePath).package EXCEPT !.path = PackagePath]
  <2>1. PICK path : path = PackagePath
    OBVIOUS
  <2>2. IsList(archive.entries)
    BY <1>1 DEF BookOK, IsArchive
  <2>3. Find(path) \in DOMAIN archive.entries /\ Entry(path).kind = "package"
    BY <1>3, <2>1, <2>2, FindFacts DEF Parses
  <2>4. IsPackage(Entry(path).package)
    BY <1>1, <2>3 DEF BookOK, IsArchive, Entry
  <2>5. PICK q : q = Entry(path).package
    OBVIOUS
  <2>6. IsPackage([q EXCEPT !.path = path])
    BY <2>4, <2>5 DEF IsPackage
  <2>7. IsPackage(pkg)'
    BY <1>3, <2>1, <2>5, <2>6 DEF IsPackage
  <2> QED
    BY <1>1, <1>3, <2>7, ProceedKeeps DEF Reading
<1> QED
  BY <1>2, <1>3 DEF ReadPackage

LEMMA CheckAdobeKeeps == ASSUME EpubInv, CheckAdobeDRM PROVE EpubInv'
<1>1. phase = "adobe" /\ BookOK
  BY DEF CheckAdobeDRM, EpubInv
<1>2. CASE Fail("drm")
  BY <1>1, <1>2, FailKeeps DEF Reading
<1>3. CASE Proceed("kobo") /\ UNCHANGED pkg
  <2>1. IsPackage(pkg)'
    BY <1>1, <1>3 DEF BookOK, IsPackage
  <2> QED
    BY <1>1, <1>3, <2>1, ProceedKeeps DEF Reading
<1> QED
  BY <1>2, <1>3 DEF CheckAdobeDRM

LEMMA CheckKoboKeeps == ASSUME EpubInv, CheckKoboDRM PROVE EpubInv'
<1>1. phase = "kobo" /\ BookOK
  BY DEF CheckKoboDRM, EpubInv
<1>2. CASE Fail("drm")
  BY <1>1, <1>2, FailKeeps DEF Reading
<1>3. CASE Proceed("manifest") /\ UNCHANGED pkg
  <2>1. IsPackage(pkg)'
    BY <1>1, <1>3 DEF BookOK, IsPackage
  <2> QED
    BY <1>1, <1>3, <2>1, ProceedKeeps DEF Reading
<1> QED
  BY <1>2, <1>3 DEF CheckKoboDRM

-----------------------------------------------------------------------------
(* The lists BuildResources makes *)

\* What AddItem appends is a resource.
LEMMA NewResourceTyped ==
  ASSUME BookOK, NEW item, Lookup(item) # 0
  PROVE  IsResource(NewResource(item)) /\ NewResource(item).href = ItemKey(item)
         /\ NewResource(item).entry = Lookup(item)
<1>1. Lookup(item) \in DOMAIN archive.entries
  <2>1. IsList(archive.entries)
    BY DEF BookOK, IsArchive
  <2> QED
    BY <2>1, FindFacts DEF Lookup
<1>2. EntryCharset(item, Lookup(item)) \in Labels
  BY <1>1, LabelsAssumption DEF EntryCharset, BookOK, IsArchive
<1>3. (item.media \in TextMedia) \in BOOLEAN
  OBVIOUS
<1> QED
  BY <1>2, <1>3 DEF NewResource, IsResource, Resource

LEMMA AtItemFacts ==
  ASSUME EpubInv, AtItem
  PROVE  /\ phase = "manifest" /\ BookOK /\ Gathering
         /\ index' \in Nat \ {0}
         /\ UNCHANGED <<phase, readingOrder, cover, indexes, roCopy, coverAliased,
                        archive, pkg, err>>
<1>1. phase = "manifest" /\ phase \in Reading /\ index' = index + 1
  BY DEF AtItem, Reading
<1>2. BookOK /\ Gathering
  BY <1>1, NotYet
<1> QED
  BY <1>1, <1>2 DEF AtItem, Gathering

LEMMA SkipItemKeeps == ASSUME EpubInv, SkipItem PROVE EpubInv'
<1>1. /\ phase = "manifest" /\ BookOK /\ Gathering /\ index' \in Nat \ {0}
      /\ UNCHANGED <<phase, readingOrder, cover, indexes, roCopy, coverAliased,
                     archive, pkg, err, heap, all, resolved>>
  BY AtItemFacts DEF SkipItem
<1>2. Gathering'
  BY <1>1 DEF Gathering, HeapOK, ArgumentsOK, Untouched, Pointers, indexes
<1>3. BookOK'
  BY <1>1 DEF BookOK, IsArchive, Pointers
<1> QED
  BY <1>1, <1>2, <1>3 DEF EpubInv, SetInv, Reading

LEMMA AddItemKeeps == ASSUME EpubInv, AddItem PROVE EpubInv' /\ Preserved
<1>1. /\ phase = "manifest" /\ BookOK /\ Gathering /\ index' \in Nat \ {0}
      /\ UNCHANGED <<phase, readingOrder, cover, indexes, roCopy, coverAliased,
                     archive, pkg, err>>
  BY AtItemFacts DEF AddItem
<1>2. PICK item : item = pkg.items[index]
  OBVIOUS
<1>3. PICK p : p = Len(heap) + 1
  OBVIOUS
<1>4. /\ Lookup(item) # 0 /\ heap' = Append(heap, NewResource(item))
      /\ all' = Append(all, p) /\ resolved' = Extend(resolved, ItemKey(item), p)
  BY <1>2, <1>3 DEF AddItem
<1>5. /\ HeapOK' /\ Preserved /\ Pointers' = Pointers \cup {p}
  BY <1>1, <1>3, <1>4, NewResourceTyped, CopyHeap DEF Gathering
<1>6. ArgumentsOK(Pointers')
  BY <1>1, <1>5, Widen DEF Gathering
<1>7. ArgumentsOK(Pointers)'
  <2>1. all' \in Seq(Pointers' \cup {Nil})
    BY <1>4, <1>5, <1>6, AppendFacts DEF ArgumentsOK
  <2> QED
    BY <1>1, <1>6, <2>1 DEF ArgumentsOK
<1>8. Untouched'
  BY <1>1 DEF Gathering, Untouched, indexes
<1>9. resolved' \in [DOMAIN resolved' -> Pointers']
  <2>1. resolved \in [DOMAIN resolved -> Pointers']
    BY <1>1, <1>5 DEF BookOK
  <2> QED
    BY <1>4, <1>5, <2>1, ExtendTyped
<1>10. BookOK'
  BY <1>1, <1>9 DEF BookOK, IsArchive
<1>11. Gathering'
  BY <1>1, <1>5, <1>7, <1>8 DEF Gathering
<1> QED
  BY <1>1, <1>5, <1>10, <1>11 DEF EpubInv, SetInv, Reading

\* The entries of the spine whose item is resolved.
RefSet == {pkg.itemRefs[i] : i \in DOMAIN pkg.itemRefs}
PresentRefs == {ref \in RefSet : ResolvedItem(ItemById(ref.idRef))}
SpineRefs == Chosen(pkg.itemRefs, PresentRefs)

LEMMA SpineRefsFacts ==
  ASSUME BookOK
  PROVE  /\ pkg.itemRefs \in Seq(RefSet) /\ SpineRefs \in Seq(RefSet)
         /\ Len(SpineRefs) \in Nat /\ DOMAIN SpineRefs = 1..Len(SpineRefs)
         /\ \A n \in DOMAIN SpineRefs :
              /\ ResolvedItem(ItemById(SpineRefs[n].idRef))
              /\ ResourceOf(ItemById(SpineRefs[n].idRef)) \in Pointers
<1>1. pkg.itemRefs \in Seq(RefSet)
  BY DEF BookOK, IsPackage, IsList, RefSet
<1>2. SpineRefs \in Seq(RefSet) /\ Of(SpineRefs) = Of(pkg.itemRefs) \cap PresentRefs
  BY <1>1, ChosenList DEF SpineRefs
<1>3. Len(SpineRefs) \in Nat /\ DOMAIN SpineRefs = 1..Len(SpineRefs)
  BY <1>2, LenProperties
<1>4. \A n \in DOMAIN SpineRefs : SpineRefs[n] \in PresentRefs
  BY <1>2, <1>3, OfList
<1>5. ASSUME NEW ref \in PresentRefs PROVE ResourceOf(ItemById(ref.idRef)) \in Pointers
  <2>1. ItemKey(pkg.items[ItemById(ref.idRef)]) \in DOMAIN resolved
    BY DEF PresentRefs, ResolvedItem
  <2> QED
    BY <2>1 DEF BookOK, ResourceOf
<1>6. \A ref \in PresentRefs : ResolvedItem(ItemById(ref.idRef))
  BY DEF PresentRefs
<1> QED
  BY <1>1, <1>2, <1>3, <1>4, <1>5, <1>6

LEMMA SpineIsThat ==
  ASSUME ReadSpine
  PROVE  readingOrder' = [n \in DOMAIN SpineRefs |->
                           [resource |-> ResourceOf(ItemById(SpineRefs[n].idRef)),
                            linear |-> SpineRefs[n].linear # "no"]]
BY DEF ReadSpine, Where, SpineRefs, PresentRefs, RefSet

LEMMA ReadSpineKeeps == ASSUME EpubInv, ReadSpine PROVE EpubInv'
<1>1. phase = "manifest" /\ BookOK /\ Gathering
  BY NotYet DEF ReadSpine, Reading
<1>2. /\ phase' = "coverItem"
      /\ UNCHANGED <<heap, all, cover, index, indexes, roCopy, coverAliased, epubvars>>
  BY DEF ReadSpine
<1>3. PICK refs : refs = SpineRefs
  OBVIOUS
<1>4. PICK order : order = readingOrder'
  OBVIOUS
<1>5. /\ Len(refs) \in Nat
      /\ \A n \in 1..Len(refs) : ResourceOf(ItemById(refs[n].idRef)) \in Pointers
      /\ order = [n \in 1..Len(refs) |->
                   [resource |-> ResourceOf(ItemById(refs[n].idRef)),
                    linear |-> refs[n].linear # "no"]]
  BY <1>1, <1>3, <1>4, SpineRefsFacts, SpineIsThat
<1>6. order \in [1..Len(refs) -> [resource : Pointers \cup {Nil}, linear : BOOLEAN]]
  BY <1>5
<1>7. order \in Seq([resource : Pointers \cup {Nil}, linear : BOOLEAN])
  BY <1>5, <1>6
<1>8. ArgumentsOK(Pointers)'
  BY <1>1, <1>2, <1>4, <1>7 DEF Gathering, ArgumentsOK, Pointers
<1>9. Gathering'
  BY <1>1, <1>2, <1>8 DEF Gathering, HeapOK, Untouched, Pointers, indexes
<1>10. BookOK'
  BY <1>1, <1>2 DEF BookOK, IsArchive, Pointers, Reading, epubvars
<1> QED
  BY <1>2, <1>9, <1>10 DEF EpubInv, SetInv, Reading

StartOK == HeapOK /\ ArgumentsOK(Pointers) /\ phase = "normalize" /\ EmptySet

LEMMA StartInv == StartOK => Typed /\ Exact /\ Complete
BY StartTyped, ExactInit, CompleteInit DEF StartOK

LEMMA ReadCoverKeeps == ASSUME EpubInv, ReadCover PROVE EpubInv'
<1>1. phase = "coverItem" /\ BookOK /\ Gathering
  BY NotYet DEF ReadCover, Reading
<1>2. /\ phase' = "normalize" /\ index' = 1
      /\ UNCHANGED <<heap, all, readingOrder, indexes, roCopy, coverAliased,
                     archive, pkg, resolved, err>>
  BY DEF ReadCover
<1>3. cover' \in Pointers \cup {Nil}
  <2>1. cover' = IF ResolvedItem(CoverItem) THEN ResourceOf(CoverItem) ELSE Nil
    BY DEF ReadCover
  <2> QED
    BY <1>1, <2>1 DEF BookOK, ResolvedItem, ResourceOf
<1>4. HeapOK' /\ ArgumentsOK(Pointers)'
  BY <1>1, <1>2, <1>3 DEF Gathering, HeapOK, ArgumentsOK, Pointers
<1>5. EmptySet'
  BY <1>1, <1>2 DEF Gathering, Untouched, EmptySet, indexes
<1>7. StartOK'
  BY <1>2, <1>4, <1>5 DEF StartOK
<1>8. (Typed /\ Exact /\ Complete)'
  BY <1>7, StartInv, PTL
<1>9. BookOK'
  BY <1>1, <1>2 DEF BookOK, IsArchive, Pointers, Building, Reading
<1>10. phase' \notin Reading
  BY <1>2 DEF Reading
<1> QED
  BY <1>8, <1>9, <1>10 DEF EpubInv, SetInv

-----------------------------------------------------------------------------
(* Building the set from them *)

LEMMA BuildsLate == NewResourceSet => phase \in Building \ {"done"} /\ phase \notin Reading
<1>1. Normalize => phase = "normalize"
  BY DEF Normalize
<1>2. IndexResource => phase = "index"
  BY DEF IndexResource, SkipNil, SkipDuplicate, KeepResource, RenameResource, AtResource
<1>3. StartOrder => phase = "index"
  BY DEF StartOrder
<1>4. CanonicalizeItem => phase = "order"
  BY DEF CanonicalizeItem
<1>5. ResolveCover => phase = "order"
  BY DEF ResolveCover, AliasCover, EnterCover, RenameCover, AtCover
<1> QED
  BY <1>1, <1>2, <1>3, <1>4, <1>5 DEF NewResourceSet, Building, Reading

LEMMA NewResourceSetKeeps ==
  ASSUME EpubInv, NewResourceSet, UNCHANGED epubvars
  PROVE  EpubInv' /\ Preserved
<1>1. phase \in Building /\ phase \notin Reading
  BY BuildsLate
<1>2. BookOK /\ Typed /\ Exact /\ Complete
  BY <1>1 DEF EpubInv, SetInv
<1>3. Typed' /\ Preserved
  BY <1>2, StepIsTyped DEF StepTyped
<1>4. Exact'
  BY <1>2, ExactStep
<1>5. Complete'
  BY <1>2, CompleteStep
<1>6. phase' \in Building /\ phase' \notin Reading
  BY <1>3 DEF Typed, Stages, Building, Reading
<1>7. BookOK'
  <2>1. err' = err /\ archive' = archive /\ pkg' = pkg /\ resolved' = resolved
    BY DEF epubvars
  <2>2. (err' # "") = (phase' = "failed")
    BY <1>1, <1>2, <1>6, <2>1 DEF BookOK, Reading
  <2>3. resolved' \in [DOMAIN resolved' -> Pointers']
    BY <1>2, <1>3, <2>1 DEF BookOK, Preserved
  <2> QED
    BY <1>2, <1>6, <2>1, <2>2, <2>3 DEF BookOK, IsArchive
<1> QED
  BY <1>3, <1>4, <1>5, <1>6, <1>7 DEF EpubInv, SetInv

LEMMA EpubStutter == ASSUME EpubInv, UNCHANGED vars PROVE EpubInv'
<1>1. UNCHANGED setvars /\ UNCHANGED <<archive, pkg, resolved, err>> /\ phase' = phase
  BY DEF vars, epubvars, setvars
<1>2. BookOK'
  BY <1>1 DEF EpubInv, BookOK, IsArchive, Pointers, setvars
<1>3. CASE phase \in Reading
  <2>1. Gathering'
    BY <1>1, <1>3, NotYet, GatheringStays DEF setvars
  <2> QED
    BY <1>1, <1>2, <1>3, <2>1 DEF EpubInv, SetInv
<1>4. CASE phase \notin Reading
  <2>1. Typed /\ Exact /\ Complete
    BY <1>4 DEF EpubInv, SetInv
  <2>2. (Typed /\ Exact /\ Complete)'
    BY <1>1, <2>1, TypeStep, ExactStep, CompleteStep
  <2> QED
    BY <1>1, <1>2, <1>4, <2>2 DEF EpubInv, SetInv
<1> QED
  BY <1>3, <1>4

LEMMA EpubStep == EpubInv /\ [Next]_vars => EpubInv'
<1> SUFFICES ASSUME EpubInv, [Next]_vars PROVE EpubInv'
  OBVIOUS
<1>1. CASE Read
  BY <1>1, OpenArchiveKeeps, ReadPackageKeeps, CheckAdobeKeeps, CheckKoboKeeps,
     AddItemKeeps, SkipItemKeeps, ReadSpineKeeps, ReadCoverKeeps DEF Read
<1>2. CASE NewResourceSet /\ UNCHANGED epubvars
  BY <1>2, NewResourceSetKeeps
<1>3. CASE UNCHANGED vars
  BY <1>3, EpubStutter
<1> QED
  BY <1>1, <1>2, <1>3 DEF Next

\* Before NewResourceSet has begun there is nothing to get wrong.
LEMMA GatheringParts ==
  ASSUME EpubInv, phase \in Reading
  PROVE  SetTypeOK /\ IndexesExact /\ NothingLost
<1>1. BookOK /\ Gathering
  BY NotYet
<1>2. BuiltOK(Pointers)
  <2>1. /\ allCopy \in Seq(Pointers) /\ roCopy \in Seq([resource : Pointers, linear : BOOLEAN])
        /\ coverAliased \in Pointers \cup {Nil}
    BY <1>1, EmptyLists DEF Gathering, Untouched
  <2>2. byID \in [DOMAIN byID -> Pointers] /\ byHref \in [DOMAIN byHref -> Pointers]
    BY <1>1, EmptyLists DEF Gathering, Untouched
  <2> QED
    BY <2>1, <2>2 DEF BuiltOK
<1>3. IndexOK
  BY <1>1 DEF Gathering, IndexOK, Reading
<1>4. IndexesExact
  BY <1>1, EmptyLists DEF Gathering, Untouched, IndexesExact, UniqueEntries, EntriesIndexed
<1>5. NothingLost
  BY DEF NothingLost, Reading
<1> QED
  BY <1>1, <1>2, <1>3, <1>4, <1>5, TypeParts DEF Gathering

LEMMA EpubParts == EpubInv => TypeOK /\ IndexesExact /\ NothingLost
<1> SUFFICES ASSUME EpubInv PROVE TypeOK /\ IndexesExact /\ NothingLost
  OBVIOUS
<1>1. BookOK
  BY DEF EpubInv
<1>2. SetTypeOK /\ IndexesExact /\ NothingLost
  <2>1. CASE phase \in Reading
    BY <2>1, GatheringParts
  <2>2. CASE phase \notin Reading
    BY <2>2, ExactIndexes, CompleteLosesNothing DEF EpubInv, SetInv, Typed
  <2> QED
    BY <2>1, <2>2
<1>3. TypeOK
  BY <1>1, <1>2 DEF TypeOK, BookOK, Reading, Building
<1> QED
  BY <1>2, <1>3

\* Whatever the archive holds, Read hands NewResourceSet lists it can take:
\* every pointer of theirs, and of the result, is a resource, and a failure
\* leaves no book behind (internal/epub/reader.go).
THEOREM EpubTypesRight == Spec => []TypeOK
BY BookInit, EpubStep, EpubParts, PTL DEF Spec

\* All(), GetByID, GetByHref, ReadingOrder and CoverImage of a book that was
\* read agree, whatever its manifest declares (book/resource.go:248-379).
THEOREM EpubIndexesExact == Spec => []IndexesExact
BY BookInit, EpubStep, EpubParts, PTL DEF Spec

\* Of what its manifest declares, nothing is lost when duplicates are removed
\* (book/resource.go:248-379).
THEOREM EpubNothingLost == Spec => []NothingLost
BY BookInit, EpubStep, EpubParts, PTL DEF Spec


-----------------------------------------------------------------------------
(* What a read book owes to its package.  Until the phase "manifest" nothing *)
(* is gathered; from it on the archive and the package stay as they are.     *)

Late == {"manifest", "coverItem"} \cup Building

KeyAt(j)    == ItemKey(pkg.items[j])
EntryAt(j)  == Lookup(pkg.items[j])
RefKey(i)   == ItemKey(pkg.items[ItemRefItem(i)])
CoverKey    == ItemKey(pkg.items[CoverItem])
CoverStored == Stored(CoverItem)

Fresh == phase \in {"open", "ocf", "adobe", "kobo"} =>
  heap = <<>> /\ all = <<>> /\ resolved = <<>> /\ index = 1

\* Resource p is that of item j.
StandsFor(p, j) == heap[p].href = KeyAt(j) /\ heap[p].entry = EntryAt(j) /\ EntryAt(j) # 0

Origin == phase \in Late => \A p \in Pointers : \E j \in DOMAIN pkg.items : StandsFor(p, j)

\* The stored items the loop over the manifest has got through.
Turned == {j \in DOMAIN pkg.items : (phase = "manifest" => j < index) /\ EntryAt(j) # 0}
ListedHere(p) == \E i \in DOMAIN all : all[i] = p
LeadsTo(key) == heap[resolved[key]].href = key /\ ListedHere(resolved[key])

Resolved == phase \in Late =>
  /\ DOMAIN resolved = {KeyAt(j) : j \in Turned}
  /\ \A key \in DOMAIN resolved : LeadsTo(key)

SpinePlace(i) == Cardinality({j \in Served : j <= i})
SpineItem(i)  == [resource |-> resolved[RefKey(i)], linear |-> pkg.itemRefs[i].linear # "no"]

Spined == phase \in Late \ {"manifest"} =>
  /\ Len(readingOrder) = Cardinality(Served)
  /\ \A i \in Served : SpinePlace(i) \in 1..Len(readingOrder) /\ readingOrder[SpinePlace(i)] = SpineItem(i)
  /\ \A n \in 1..Len(readingOrder) : \E key \in DOMAIN resolved : readingOrder[n].resource = resolved[key]

Covered == phase \in Building => cover = IF CoverStored THEN resolved[CoverKey] ELSE Nil

\* Resource p of the list is what the list has for resource q.
EntryFor(p, q) == InAll(p) /\ Key(p) = Key(q)

Ordered == phase \in {"order", "done"} =>
  /\ Len(roCopy) = IF phase = "order" THEN index - 1 ELSE Len(readingOrder)
  /\ \A n \in 1..Len(roCopy) : /\ roCopy[n].linear = readingOrder[n].linear
                               /\ EntryFor(roCopy[n].resource, readingOrder[n].resource)

CoverPlaced == phase = "done" => IF cover = Nil THEN coverAliased = Nil ELSE EntryFor(coverAliased, cover)

Unprotected ==
  /\ phase \in Late \cup {"kobo"} => ~AdobeProtected
  /\ phase \in Late => ~KoboProtected

Gathered == Fresh /\ Origin /\ Resolved /\ Spined /\ Covered
Shown    == Ordered /\ CoverPlaced
Refusal  == err = "drm" => AdobeProtected \/ KoboProtected

BookInv == (archive.zip => Gathered /\ Shown /\ Unprotected) /\ Refusal

\* A canonical href is not empty and stays as it is.
LEMMA HrefFacts ==
  ASSUME NEW h, IsHref(h), NEW path
  PROVE  /\ CleanHref(h) # NoHref /\ CleanHref(CleanHref(h)) = CleanHref(h)
         /\ IsHref(ResolvePath(path, h))
         /\ h.tail = "" => CleanHref(ResolvePath(path, h)) = ResolvePath(path, h)
<1>1. IsHref(Here) /\ Here # NoHref /\ Here.tail = "" /\ Here.dotted = FALSE
  <2>1. Here.file = "." /\ NoHref.file = "" /\ Here.tail = "" /\ Here.dotted = FALSE
    BY DEF Here, NoHref
  <2>2. IsHref(Here)
    BY DEF Here, NoHref, IsHref
  <2> QED
    BY <2>1, <2>2
<1>2. \A x : IsHref(x) => /\ IsHref(Cleaned(x)) /\ Cleaned(x) # NoHref
                          /\ x.tail = "" => Cleaned(x).tail = ""
                          /\ x.dotted = FALSE => Cleaned(x).dotted = FALSE
  BY <1>1 DEF Cleaned
<1>3. \A x : IsHref(x) => /\ IsHref([x EXCEPT !.tail = "", !.dotted = FALSE])
                          /\ [x EXCEPT !.tail = "", !.dotted = FALSE].tail = ""
                          /\ [x EXCEPT !.tail = "", !.dotted = FALSE].dotted = FALSE
                          /\ x.tail = "" /\ x.dotted = FALSE => [x EXCEPT !.tail = "", !.dotted = FALSE] = x
  BY DEF IsHref
<1>4. \A x : IsHref(x) /\ x # NoHref /\ x.tail = "" /\ x.dotted = FALSE => CleanHref(x) = x
  BY <1>3 DEF CleanHref, Cleaned
<1>5. \A x : IsHref(x) => /\ IsHref(CleanHref(x)) /\ CleanHref(x) # NoHref
                          /\ CleanHref(x).tail = "" /\ CleanHref(x).dotted = FALSE
  BY <1>2, <1>3 DEF CleanHref
<1>6. PICK g : g = [h EXCEPT !.folder = path.folder, !.dotted = FALSE]
  OBVIOUS
<1>7. IsHref(g) /\ g.dotted = FALSE /\ g.tail = h.tail
  BY <1>6 DEF IsHref
<1>8. ResolvePath(path, h) = Cleaned(g)
  BY <1>6 DEF ResolvePath
<1> QED
  BY <1>2, <1>4, <1>5, <1>7, <1>8

\* The lists of the package.
LEMMA PackageLists ==
  ASSUME BookOK
  PROVE  /\ Len(pkg.items) \in Nat /\ DOMAIN pkg.items = 1..Len(pkg.items)
         /\ Len(pkg.itemRefs) \in Nat /\ DOMAIN pkg.itemRefs = 1..Len(pkg.itemRefs)
         /\ \A j \in DOMAIN pkg.items : KeyAt(j) # NoHref /\ CleanHref(KeyAt(j)) = KeyAt(j)
<1>1. /\ Len(pkg.items) \in Nat /\ DOMAIN pkg.items = 1..Len(pkg.items)
      /\ Len(pkg.itemRefs) \in Nat /\ DOMAIN pkg.itemRefs = 1..Len(pkg.itemRefs)
  BY ListFacts DEF BookOK, IsPackage
<1>2. ASSUME NEW j \in DOMAIN pkg.items PROVE KeyAt(j) # NoHref /\ CleanHref(KeyAt(j)) = KeyAt(j)
  <2>1. IsHref(ResolvePath(pkg.path, pkg.items[j].href))
    BY HrefFacts DEF BookOK, IsPackage
  <2> QED
    BY <2>1, HrefFacts DEF KeyAt, ItemKey
<1> QED
  BY <1>1, <1>2

\* What is read off the archive and the package stays while they stay.
LEMMA SamePackage ==
  ASSUME UNCHANGED <<archive, pkg>>
  PROVE  /\ \A j : KeyAt(j)' = KeyAt(j) /\ EntryAt(j)' = EntryAt(j)
         /\ \A i : RefKey(i)' = RefKey(i) /\ SpinePlace(i)' = SpinePlace(i)
         /\ Served' = Served /\ CoverKey' = CoverKey /\ CoverStored' = CoverStored
         /\ AdobeProtected' = AdobeProtected /\ KoboProtected' = KoboProtected
<1>1. archive' = archive /\ pkg' = pkg
  OBVIOUS
<1>2. \A name : Find(name)' = Find(name)
  BY <1>1 DEF Find, SelectInSeq
<1>3. \A id : ItemById(id)' = ItemById(id)
  BY <1>1 DEF ItemById, SelectInSeq
<1>4. \A j : KeyAt(j)' = KeyAt(j)
  BY <1>1 DEF KeyAt, ItemKey
<1>5. \A j : EntryAt(j)' = EntryAt(j)
  BY <1>1, <1>2 DEF EntryAt, Lookup
<1>6. \A i : ItemRefItem(i)' = ItemRefItem(i)
  BY <1>1, <1>3 DEF ItemRefItem
<1>7. \A i : RefKey(i)' = RefKey(i)
  BY <1>1, <1>6 DEF RefKey, ItemKey
<1>8. \A i : Stored(i)' = Stored(i)
  <2>1. \A i : Stored(i) <=> i # 0 /\ \E j \in DOMAIN pkg.items : KeyAt(j) = KeyAt(i) /\ EntryAt(j) # 0
    BY DEF Stored, KeyAt, EntryAt
  <2>2. \A i : Stored(i)' <=> i # 0 /\ \E j \in DOMAIN pkg'.items : KeyAt(j)' = KeyAt(i)' /\ EntryAt(j)' # 0
    BY DEF Stored, KeyAt, EntryAt
  <2> QED
    BY <1>1, <1>4, <1>5, <2>1, <2>2 DEF Stored
<1>9. Served' = Served
  BY <1>1, <1>6, <1>8 DEF Served
<1>10. \A i : SpinePlace(i)' = SpinePlace(i)
  BY <1>9 DEF SpinePlace
<1>11. CoverItem' = CoverItem
  BY <1>1, <1>3 DEF CoverItem, SelectInSeq
<1>12. CoverKey' = CoverKey /\ CoverStored' = CoverStored
  BY <1>1, <1>8, <1>11 DEF CoverKey, ItemKey, CoverStored
<1>13. AdobeProtected' = AdobeProtected
  BY <1>1, <1>2 DEF AdobeProtected, Entry
<1>14. KoboProtected' = KoboProtected
  <2>1. FindRightsXml' = FindRightsXml
    BY <1>1, <1>2 DEF FindRightsXml, SelectInSeq
  <2>2. FirstSpineContentFile' = FirstSpineContentFile
    BY <1>1, <1>2, <1>3, <1>6 DEF FirstSpineContentFile, SelectInSeq, Lookup
  <2> QED
    BY <1>1, <2>1, <2>2 DEF KoboProtected
<1> QED
  BY <1>4, <1>5, <1>7, <1>9, <1>10, <1>12, <1>13, <1>14

-----------------------------------------------------------------------------
(* Up to the manifest *)

\* Before the manifest is read there is little to show.
LEMMA ParsingBook ==
  ASSUME phase \in Reading \ {"manifest", "coverItem"}, archive.zip => Fresh,
         phase = "kobo" => ~AdobeProtected, Refusal
  PROVE  BookInv
BY DEF BookInv, Gathered, Shown, Unprotected, Fresh, Origin, Resolved, Spined, Covered,
       Ordered, CoverPlaced, Reading, Building, Late

LEMMA ParsingBookNext ==
  ASSUME phase' \in Reading \ {"manifest", "coverItem"}, (archive.zip => Fresh)',
         phase' = "kobo" => ~AdobeProtected', Refusal'
  PROVE  BookInv'
BY DEF BookInv, Gathered, Shown, Unprotected, Fresh, Origin, Resolved, Spined, Covered,
       Ordered, CoverPlaced, Reading, Building, Late

LEMMA BookInvInit == Init => BookInv
<1> SUFFICES ASSUME Init PROVE BookInv
  OBVIOUS
<1>1. CASE InitRead
  <2>1. /\ heap = <<>> /\ all = <<>> /\ resolved = <<>> /\ err = "" /\ phase = "open" /\ index = 1
    BY <1>1 DEF InitRead, EmptySet
  <2> QED
    BY <2>1, ParsingBook DEF Fresh, Refusal, Reading
<1>2. CASE InitCall
  <2>1. archive.zip = FALSE /\ err = ""
    BY <1>2 DEF InitCall, NoArchive
  <2> QED
    BY <2>1 DEF BookInv, Refusal
<1> QED
  BY <1>1, <1>2 DEF Init

LEMMA FailBook ==
  ASSUME NEW r, Fail(r), r = "drm" => AdobeProtected \/ KoboProtected
  PROVE  BookInv'
<1>1. phase' = "failed" /\ err' = r /\ UNCHANGED <<archive, pkg>>
  BY DEF Fail
<1>2. Refusal'
  BY <1>1, SamePackage DEF Refusal
<1> QED
  BY <1>1, <1>2, ParsingBookNext DEF Fresh, Reading

\* No reason to fail, and nothing gathered.
LEMMA ProceedBook ==
  ASSUME EpubInv, BookInv, phase \in {"open", "ocf", "adobe", "kobo"}, NEW to, Proceed(to)
  PROVE  /\ Refusal' /\ archive' = archive /\ phase' = to /\ (archive.zip => Fresh)'
         /\ archive.zip => heap' = <<>> /\ all' = <<>> /\ resolved' = <<>> /\ index' = 1
<1>1. err = ""
  BY DEF EpubInv, BookOK
<1>2. err' = "" /\ archive' = archive /\ phase' = to /\ UNCHANGED <<heap, arguments, index, resolved>>
  BY <1>1 DEF Proceed
<1>3. archive.zip => heap = <<>> /\ all = <<>> /\ resolved = <<>> /\ index = 1
  BY DEF BookInv, Gathered, Fresh
<1>4. (archive.zip => Fresh)'
  BY <1>2, <1>3 DEF Fresh, arguments
<1> QED
  BY <1>2, <1>3, <1>4 DEF Refusal, arguments

LEMMA OpenArchiveBook == ASSUME EpubInv, BookInv, OpenArchive PROVE BookInv'
<1>1. CASE Fail("zip")
  BY <1>1, FailBook
<1>2. CASE Proceed("ocf") /\ phase = "open"
  <2>1. Refusal' /\ phase' = "ocf" /\ (archive.zip => Fresh)'
    BY <1>2, ProceedBook
  <2> QED
    BY <2>1, ParsingBookNext DEF Reading
<1> QED
  BY <1>1, <1>2 DEF OpenArchive

LEMMA ReadPackageBook == ASSUME EpubInv, BookInv, ReadPackage PROVE BookInv'
<1>1. CASE Fail("ocf") \/ Fail("opf")
  BY <1>1, FailBook
<1>2. CASE Proceed("adobe") /\ phase = "ocf"
  <2>1. Refusal' /\ phase' = "adobe" /\ (archive.zip => Fresh)'
    BY <1>2, ProceedBook
  <2> QED
    BY <2>1, ParsingBookNext DEF Reading
<1> QED
  BY <1>1, <1>2 DEF ReadPackage

LEMMA CheckAdobeBook == ASSUME EpubInv, BookInv, CheckAdobeDRM PROVE BookInv'
<1>1. CASE AdobeProtected
  BY <1>1, FailBook DEF CheckAdobeDRM
<1>2. CASE ~AdobeProtected
  <2>1. Proceed("kobo") /\ pkg' = pkg /\ phase = "adobe"
    BY <1>2 DEF CheckAdobeDRM
  <2>2. Refusal' /\ phase' = "kobo" /\ (archive.zip => Fresh)' /\ archive' = archive
    BY <2>1, ProceedBook
  <2>3. ~AdobeProtected'
    BY <1>2, <2>1, <2>2, SamePackage
  <2> QED
    BY <2>2, <2>3, ParsingBookNext DEF Reading
<1> QED
  BY <1>1, <1>2

LEMMA CheckKoboBook == ASSUME EpubInv, BookInv, CheckKoboDRM PROVE BookInv'
<1>1. CASE KoboProtected
  BY <1>1, FailBook DEF CheckKoboDRM
<1>2. CASE ~KoboProtected
  <2>1. Proceed("manifest") /\ pkg' = pkg /\ phase = "kobo"
    BY <1>2 DEF CheckKoboDRM
  <2>2. Refusal' /\ archive' = archive /\ phase' = "manifest"
    BY <2>1, ProceedBook
  <2>3. SUFFICES ASSUME archive.zip PROVE Gathered' /\ Shown' /\ Unprotected'
    BY <2>2 DEF BookInv
  <2>4. ~AdobeProtected' /\ ~KoboProtected'
    BY <1>2, <2>1, <2>2, <2>3, SamePackage DEF BookInv, Unprotected
  <2>5. heap' = <<>> /\ all' = <<>> /\ resolved' = <<>> /\ index' = 1
    BY <2>1, <2>3, ProceedBook
  <2>6. Origin'
    BY <2>5, EmptyLists DEF Origin, Pointers
  <2>7. Resolved'
    <3>1. \A j \in DOMAIN pkg.items : ~(j < 1)
      BY PackageLists DEF EpubInv
    <3>2. Turned' = {}
      BY <2>1, <2>2, <2>5, <3>1 DEF Turned
    <3>3. DOMAIN resolved' = {}
      BY <2>5, EmptyLists
    <3> QED
      BY <3>2, <3>3 DEF Resolved
  <2>8. Fresh' /\ Spined' /\ Covered' /\ Shown'
    BY <2>2 DEF Fresh, Spined, Covered, Shown, Ordered, CoverPlaced, Building
  <2> QED
    BY <2>2, <2>4, <2>6, <2>7, <2>8 DEF Gathered, Unprotected
<1> QED
  BY <1>1, <1>2

-----------------------------------------------------------------------------
(* The manifest *)

\* What does not depend on the lists.
LEMMA StillUnprotected ==
  ASSUME BookInv, phase \in Late, phase' \in Late, UNCHANGED <<archive, pkg, err>>
  PROVE  Refusal' /\ (archive.zip => Unprotected')
<1>1. AdobeProtected' = AdobeProtected /\ KoboProtected' = KoboProtected
  BY SamePackage
<1> QED
  BY <1>1 DEF BookInv, Refusal, Unprotected

LEMMA ManifestBook ==
  ASSUME BookInv, phase = "manifest", phase' = "manifest", UNCHANGED <<archive, pkg, err>>,
         archive.zip => Origin' /\ Resolved'
  PROVE  BookInv'
<1>1. Refusal' /\ (archive.zip => Unprotected')
  BY StillUnprotected DEF Late
<1>2. Fresh' /\ Spined' /\ Covered' /\ Shown'
  BY DEF Fresh, Spined, Covered, Shown, Ordered, CoverPlaced, Building
<1> QED
  BY <1>1, <1>2 DEF BookInv, Gathered

LEMMA TurnedNext ==
  ASSUME EpubInv, AtItem
  PROVE  /\ EntryAt(index) = 0 => Turned' = Turned
         /\ EntryAt(index) # 0 => Turned' = Turned \cup {index}
<1>1. /\ phase = "manifest" /\ phase' = "manifest" /\ UNCHANGED <<archive, pkg>>
      /\ index' = index + 1 /\ index \in DOMAIN pkg.items
  BY DEF AtItem
<1>2. DOMAIN pkg.items \subseteq Nat
  BY PackageLists DEF EpubInv
<1>3. \A j : EntryAt(j)' = EntryAt(j)
  BY <1>1, SamePackage
<1>4. \A j \in DOMAIN pkg.items : j < index' <=> j < index \/ j = index
  BY <1>1, <1>2
<1>5. Turned = {j \in DOMAIN pkg.items : j < index /\ EntryAt(j) # 0}
  BY <1>1 DEF Turned
<1>6. Turned' = {j \in DOMAIN pkg.items : j < index' /\ EntryAt(j) # 0}
  BY <1>1, <1>3 DEF Turned
<1> QED
  BY <1>1, <1>4, <1>5, <1>6

\* Every resource has the href and the entry of one that was there.
KeepsEntries ==
  /\ Pointers \subseteq Pointers'
  /\ \A p \in Pointers' : \E q \in Pointers :
       (p \in Pointers => p = q) /\ heap'[p].href = heap[q].href /\ heap'[p].entry = heap[q].entry

LEMMA GatheredStays ==
  ASSUME BookOK, Origin, Resolved, phase \in Late, KeepsEntries,
         UNCHANGED <<all, resolved, archive, pkg>>, Turned' = Turned
  PROVE  Origin' /\ Resolved'
<1>1. \A j : KeyAt(j)' = KeyAt(j) /\ EntryAt(j)' = EntryAt(j)
  BY SamePackage
<1>2. \A p \in Pointers' : \E j \in DOMAIN pkg.items : StandsFor(p, j)'
  <2> SUFFICES ASSUME NEW p \in Pointers' PROVE \E j \in DOMAIN pkg.items : StandsFor(p, j)'
    OBVIOUS
  <2>1. PICK q \in Pointers : heap'[p].href = heap[q].href /\ heap'[p].entry = heap[q].entry
    BY DEF KeepsEntries
  <2>2. PICK j \in DOMAIN pkg.items : StandsFor(q, j)
    BY DEF Origin
  <2> QED
    BY <1>1, <2>1, <2>2 DEF StandsFor
<1>3. \A key \in DOMAIN resolved : LeadsTo(key)'
  <2> SUFFICES ASSUME NEW key \in DOMAIN resolved PROVE LeadsTo(key)'
    OBVIOUS
  <2>1. LeadsTo(key) /\ resolved[key] \in Pointers
    BY DEF Resolved, BookOK
  <2>2. heap'[resolved[key]].href = heap[resolved[key]].href
    BY <2>1 DEF KeepsEntries
  <2> QED
    BY <2>1, <2>2 DEF LeadsTo, ListedHere
<1>4. Origin'
  BY <1>2 DEF Origin
<1>5. Resolved'
  BY <1>1, <1>3 DEF Resolved
<1> QED
  BY <1>4, <1>5

LEMMA SameEntries == UNCHANGED heap => KeepsEntries
BY DEF KeepsEntries, Pointers

LEMMA SkipItemBook == ASSUME EpubInv, BookInv, SkipItem PROVE BookInv'
<1>1. /\ phase = "manifest" /\ UNCHANGED <<phase, archive, pkg, err, heap, all, resolved>>
  BY DEF SkipItem, AtItem
<1>2. Turned' = Turned
  BY TurnedNext DEF SkipItem, EntryAt
<1>3. ASSUME archive.zip PROVE Origin' /\ Resolved'
  <2>1. BookOK /\ Origin /\ Resolved
    BY <1>3 DEF BookInv, Gathered, EpubInv
  <2> QED
    BY <1>1, <1>2, <2>1, SameEntries, GatheredStays DEF Late
<1> QED
  BY <1>1, <1>3, ManifestBook

LEMMA AddItemBook == ASSUME EpubInv, BookInv, AddItem PROVE BookInv'
<1>1. /\ phase = "manifest" /\ BookOK /\ Gathering /\ UNCHANGED <<phase, archive, pkg, err>>
      /\ index \in DOMAIN pkg.items
  BY AtItemFacts DEF AddItem, AtItem
<1>2. PICK item : item = pkg.items[index]
  OBVIOUS
<1>3. PICK p : p = Len(heap) + 1
  OBVIOUS
<1>4. PICK k : k = index
  OBVIOUS
<1>5. ItemKey(item) = KeyAt(k) /\ Lookup(item) = EntryAt(k)
  BY <1>2, <1>4 DEF KeyAt, EntryAt
<1>6. /\ EntryAt(k) # 0 /\ heap' = Append(heap, NewResource(item))
      /\ all' = Append(all, p) /\ resolved' = Extend(resolved, KeyAt(k), p)
  BY <1>2, <1>3, <1>5 DEF AddItem
<1>7. /\ Pointers' = Pointers \cup {p} /\ \A q \in Pointers : heap'[q] = heap[q]
      /\ heap'[p] = NewResource(item) /\ p \notin Pointers
  BY <1>1, <1>3, <1>5, <1>6, NewResourceTyped, CopyHeap DEF Gathering
<1>8. heap'[p].href = KeyAt(k) /\ heap'[p].entry = EntryAt(k)
  BY <1>1, <1>5, <1>6, <1>7, NewResourceTyped
<1>9. \A j : KeyAt(j)' = KeyAt(j) /\ EntryAt(j)' = EntryAt(j)
  BY <1>1, SamePackage
<1>10. Turned' = Turned \cup {k}
  BY <1>4, <1>6, TurnedNext DEF AddItem
<1>11. \A q : ListedHere(q) \/ q = p => \E i \in DOMAIN all' : all'[i] = q
  <2>1. all \in Seq(Pointers' \cup {Nil}) /\ p \in Pointers' \cup {Nil}
    BY <1>1, <1>7, Widen DEF Gathering, ArgumentsOK
  <2>2. /\ \A i \in DOMAIN all : i \in DOMAIN all' /\ all'[i] = all[i]
        /\ Len(all) + 1 \in DOMAIN all' /\ all'[Len(all) + 1] = p
    BY <1>6, <2>1, AppendFacts
  <2> QED
    BY <2>2 DEF ListedHere
<1>12. ASSUME archive.zip PROVE Origin' /\ Resolved'
  <2>1. /\ \A q \in Pointers : \E j \in DOMAIN pkg.items : StandsFor(q, j)
        /\ DOMAIN resolved = {KeyAt(j) : j \in Turned}
        /\ \A key \in DOMAIN resolved : LeadsTo(key)
    BY <1>1, <1>12 DEF BookInv, Gathered, Origin, Resolved, Late
  <2>2. Origin'
    <3>1. \A q \in Pointers : \A j : StandsFor(q, j) => StandsFor(q, j)'
      BY <1>7, <1>9 DEF StandsFor
    <3>2. StandsFor(p, k)'
      BY <1>6, <1>8, <1>9 DEF StandsFor
    <3>3. \A q \in Pointers' : \E j \in DOMAIN pkg.items : StandsFor(q, j)'
      BY <1>1, <1>4, <1>7, <2>1, <3>1, <3>2
    <3> QED
      BY <1>1, <3>3 DEF Origin
  <2>3. DOMAIN resolved' = DOMAIN resolved \cup {KeyAt(k)}
    BY <1>6 DEF Extend
  <2>4. DOMAIN resolved' = {KeyAt(j) : j \in Turned \cup {k}}
    BY <2>1, <2>3
  <2>5. {KeyAt(j) : j \in Turned}' = {KeyAt(j) : j \in Turned \cup {k}}
    BY <1>9, <1>10
  <2>6. \A key \in DOMAIN resolved' : LeadsTo(key)'
    <3> SUFFICES ASSUME NEW key \in DOMAIN resolved'
                 PROVE  /\ heap'[resolved'[key]].href = key
                        /\ \E i \in DOMAIN all' : all'[i] = resolved'[key]
      BY DEF LeadsTo, ListedHere
    <3>1. resolved'[key] = IF key = KeyAt(k) THEN p ELSE resolved[key]
      BY <1>6 DEF Extend
    <3>2. CASE key = KeyAt(k)
      BY <1>8, <1>11, <3>1, <3>2
    <3>3. CASE key # KeyAt(k)
      <4>1. resolved'[key] = resolved[key] /\ key \in DOMAIN resolved
        BY <2>3, <3>1, <3>3
      <4>2. resolved[key] \in Pointers /\ LeadsTo(key)
        BY <1>1, <2>1, <4>1 DEF BookOK
      <4> QED
        BY <1>7, <1>11, <4>1, <4>2 DEF LeadsTo
    <3> QED
      BY <3>2, <3>3
  <2>7. Resolved'
    BY <2>4, <2>5, <2>6 DEF Resolved
  <2> QED
    BY <2>2, <2>7
<1> QED
  BY <1>1, <1>12, ManifestBook

-----------------------------------------------------------------------------
(* The spine and the cover *)

StoredItems == {j \in DOMAIN pkg.items : EntryAt(j) # 0}

LEMMA AllTurned ==
  ASSUME EpubInv
  PROVE  /\ phase # "manifest" => Turned = StoredItems
         /\ phase = "manifest" /\ index \notin DOMAIN pkg.items => Turned = StoredItems
<1>1. Len(pkg.items) \in Nat /\ DOMAIN pkg.items = 1..Len(pkg.items)
  BY PackageLists DEF EpubInv
<1>2. ASSUME phase = "manifest", index \notin DOMAIN pkg.items PROVE Turned = StoredItems
  <2>1. index \in Nat \ {0}
    BY <1>2, NotYet DEF Reading, Gathering
  <2>2. \A j \in DOMAIN pkg.items : j < index
    BY <1>1, <1>2, <2>1
  <2> QED
    BY <1>2, <2>2 DEF Turned, StoredItems
<1> QED
  BY <1>2 DEF Turned, StoredItems

\* An item is resolved exactly if its file is stored.
LEMMA ResolvedStored ==
  ASSUME BookOK, Resolved, phase \in Late, Turned = StoredItems
  PROVE  \A i : ResolvedItem(i) <=> Stored(i)
<1> SUFFICES ASSUME NEW i PROVE ResolvedItem(i) <=> Stored(i)
  OBVIOUS
<1>1. DOMAIN resolved = {KeyAt(j) : j \in StoredItems}
  BY DEF Resolved
<1>2. ResolvedItem(i) <=> i # 0 /\ KeyAt(i) \in DOMAIN resolved
  BY DEF ResolvedItem, KeyAt
<1>3. Stored(i) <=> i # 0 /\ \E j \in StoredItems : KeyAt(j) = KeyAt(i)
  BY DEF Stored, StoredItems, KeyAt, EntryAt
<1> QED
  BY <1>1, <1>2, <1>3

\* Where the entries of the spine that are served stand in the reading order.
LEMMA SpinePlaces ==
  ASSUME BookOK, Resolved, phase \in Late, Turned = StoredItems
  PROVE  /\ Len(SpineRefs) = Cardinality(Served)
         /\ \A i \in Served : /\ SpinePlace(i) \in 1..Len(SpineRefs)
                              /\ SpineRefs[SpinePlace(i)] = pkg.itemRefs[i]
<1> DEFINE refs == pkg.itemRefs
           n == Len(pkg.itemRefs)
<1>1. n \in Nat /\ DOMAIN refs = 1..n /\ refs \in Seq(RefSet)
  BY PackageLists, SpineRefsFacts
<1>2. \A i \in 1..n : refs[i] \in PresentRefs <=> Stored(ItemRefItem(i))
  BY <1>1, ResolvedStored DEF PresentRefs, RefSet, ItemRefItem
<1>3. Hits(refs, PresentRefs, n) = Served
  BY <1>1, <1>2 DEF Hits, Served
<1>4. \A i \in Served : Hits(refs, PresentRefs, i) = {j \in Served : j <= i}
  <2> SUFFICES ASSUME NEW i \in Served PROVE Hits(refs, PresentRefs, i) = {j \in Served : j <= i}
    OBVIOUS
  <2>1. i \in 1..n
    BY <1>1 DEF Served
  <2>2. \A j : j \in 1..i <=> j \in 1..n /\ j <= i
    BY <1>1, <2>1
  <2>3. \A j : j \in 1..i /\ refs[j] \in PresentRefs <=> j \in Served /\ j <= i
    BY <1>2, <1>1, <2>2 DEF Served
  <2> QED
    BY <2>3 DEF Hits
<1>5. /\ Len(SpineRefs) = Cardinality(Hits(refs, PresentRefs, n))
      /\ \A i \in Hits(refs, PresentRefs, n) :
           /\ Cardinality(Hits(refs, PresentRefs, i)) \in 1..Len(SpineRefs)
           /\ SpineRefs[Cardinality(Hits(refs, PresentRefs, i))] = refs[i]
  BY <1>1, ChosenPlaces DEF SpineRefs
<1> HIDE DEF refs, n
<1>6. \A i \in Served : SpinePlace(i) = Cardinality(Hits(refs, PresentRefs, i))
  BY <1>4 DEF SpinePlace
<1>7. \A i \in Served : SpinePlace(i) \in 1..Len(SpineRefs) /\ SpineRefs[SpinePlace(i)] = refs[i]
  BY <1>3, <1>5, <1>6
<1> QED
  BY <1>3, <1>5, <1>7 DEF refs

LEMMA ReadSpineBook == ASSUME EpubInv, BookInv, ReadSpine PROVE BookInv'
<1>1. /\ phase = "manifest" /\ phase' = "coverItem" /\ index \notin DOMAIN pkg.items
      /\ UNCHANGED <<heap, all, archive, pkg, resolved, err>> /\ BookOK
  BY DEF ReadSpine, epubvars, EpubInv
<1>2. Turned = StoredItems
  BY <1>1, AllTurned
<1>3. Refusal' /\ (archive.zip => Unprotected')
  BY <1>1, StillUnprotected DEF Late
<1>4. SUFFICES ASSUME archive.zip PROVE Gathered' /\ Shown'
  BY <1>1, <1>3 DEF BookInv
<1>5. Origin /\ Resolved
  BY <1>4 DEF BookInv, Gathered
<1>6. Turned' = Turned
  <2>1. \A j : EntryAt(j)' = EntryAt(j)
    BY <1>1, SamePackage
  <2>2. Turned' = {j \in DOMAIN pkg.items : EntryAt(j) # 0}
    BY <1>1, <2>1 DEF Turned
  <2> QED
    BY <1>2, <2>2 DEF StoredItems
<1>7. Origin' /\ Resolved'
  BY <1>1, <1>5, <1>6, SameEntries, GatheredStays DEF Late
<1>8. PICK order : order = readingOrder'
  OBVIOUS
<1>9. PICK refs : refs = SpineRefs
  OBVIOUS
<1>10. /\ Len(refs) = Cardinality(Served) /\ Len(refs) \in Nat
       /\ \A i \in Served : SpinePlace(i) \in 1..Len(refs) /\ refs[SpinePlace(i)] = pkg.itemRefs[i]
  BY <1>1, <1>2, <1>5, <1>9, SpinePlaces, SpineRefsFacts DEF Late
<1>11. order = [n \in 1..Len(refs) |-> [resource |-> ResourceOf(ItemById(refs[n].idRef)),
                                        linear |-> refs[n].linear # "no"]]
  BY <1>1, <1>8, <1>9, SpineIsThat, SpineRefsFacts
<1>12. order \in Seq({order[n] : n \in 1..Len(refs)}) /\ Len(order) = Len(refs)
  BY <1>10, <1>11
<1>13. \A i \in Served : order[SpinePlace(i)] = SpineItem(i)
  BY <1>10, <1>11 DEF SpineItem, ResourceOf, RefKey, ItemRefItem
<1>14. \A n \in 1..Len(order) : \E key \in DOMAIN resolved : order[n].resource = resolved[key]
  <2> SUFFICES ASSUME NEW n \in 1..Len(order)
               PROVE  \E key \in DOMAIN resolved : order[n].resource = resolved[key]
    OBVIOUS
  <2>1. ResolvedItem(ItemById(refs[n].idRef))
    BY <1>1, <1>9, <1>12, SpineRefsFacts
  <2>2. order[n].resource = ResourceOf(ItemById(refs[n].idRef))
    BY <1>11, <1>12
  <2> QED
    BY <2>1, <2>2 DEF ResolvedItem, ResourceOf
<1>15. Spined'
  <2>1. \A i : RefKey(i)' = RefKey(i) /\ SpinePlace(i)' = SpinePlace(i)
    BY <1>1, SamePackage
  <2>2. Served' = Served
    BY <1>1, SamePackage
  <2>3. \A i : SpineItem(i)' = SpineItem(i)
    BY <1>1, <2>1 DEF SpineItem
  <2>4. Len(readingOrder') = Cardinality(Served')
    BY <1>8, <1>10, <1>12, <2>2
  <2>5. \A i \in Served' : SpinePlace(i)' \in 1..Len(readingOrder') /\ readingOrder'[SpinePlace(i)'] = SpineItem(i)'
    BY <1>8, <1>10, <1>12, <1>13, <2>1, <2>2, <2>3
  <2>6. \A n \in 1..Len(readingOrder') : \E key \in DOMAIN resolved' : readingOrder'[n].resource = resolved'[key]
    BY <1>1, <1>8, <1>14
  <2> QED
    BY <2>4, <2>5, <2>6 DEF Spined
<1>16. Fresh' /\ Covered' /\ Shown'
  BY <1>1 DEF Fresh, Covered, Shown, Ordered, CoverPlaced, Building
<1> QED
  BY <1>7, <1>15, <1>16 DEF Gathered

\* What was read of the spine stays.
LEMMA SpinedStays ==
  ASSUME Spined, phase \in Late \ {"manifest"}, UNCHANGED <<readingOrder, resolved, archive, pkg>>
  PROVE  Spined'
<1>1. /\ \A i : RefKey(i)' = RefKey(i) /\ SpinePlace(i)' = SpinePlace(i)
      /\ Served' = Served
  BY SamePackage
<1>2. \A i : SpineItem(i)' = SpineItem(i)
  BY <1>1 DEF SpineItem
<1> QED
  BY <1>1, <1>2 DEF Spined

LEMMA ReadCoverBook == ASSUME EpubInv, BookInv, ReadCover PROVE BookInv'
<1>1. /\ phase = "coverItem" /\ phase' = "normalize"
      /\ UNCHANGED <<heap, all, readingOrder, archive, pkg, resolved, err>> /\ BookOK
  BY DEF ReadCover, EpubInv
<1>2. Turned = StoredItems
  BY <1>1, AllTurned
<1>3. Refusal' /\ (archive.zip => Unprotected')
  BY <1>1, StillUnprotected DEF Late, Building
<1>4. SUFFICES ASSUME archive.zip PROVE Gathered' /\ Shown'
  BY <1>1, <1>3 DEF BookInv
<1>5. Origin /\ Resolved /\ Spined
  BY <1>4 DEF BookInv, Gathered
<1>6. Turned' = Turned
  <2>1. \A j : EntryAt(j)' = EntryAt(j)
    BY <1>1, SamePackage
  <2> QED
    BY <1>1, <2>1 DEF Turned
<1>7. Origin' /\ Resolved'
  BY <1>1, <1>5, <1>6, SameEntries, GatheredStays DEF Late
<1>8. Spined'
  BY <1>1, <1>5, SpinedStays DEF Late
<1>9. Covered'
  <2>1. cover' = IF ResolvedItem(CoverItem) THEN ResourceOf(CoverItem) ELSE Nil
    BY DEF ReadCover
  <2>2. ResolvedItem(CoverItem) <=> CoverStored
    BY <1>1, <1>2, <1>5, ResolvedStored DEF CoverStored, Late
  <2>3. ResourceOf(CoverItem) = resolved[CoverKey]
    BY DEF ResourceOf, CoverKey
  <2>4. CoverStored' = CoverStored /\ CoverKey' = CoverKey
    BY <1>1, SamePackage
  <2> QED
    BY <1>1, <2>1, <2>2, <2>3, <2>4 DEF Covered
<1>10. Fresh' /\ Shown'
  BY <1>1 DEF Fresh, Shown, Ordered, CoverPlaced
<1> QED
  BY <1>7, <1>8, <1>9, <1>10 DEF Gathered

-----------------------------------------------------------------------------
(* From the lists to the set *)

LEMMA StepKeepsEntries ==
  ASSUME Typed, NewResourceSet
  PROVE  KeepsEntries
<1>1. HeapOK
  BY TypeParts DEF Typed
<1>2. ASSUME NEW q \in Pointers, NEW id, heap' = Append(heap, [heap[q] EXCEPT !.id = id])
      PROVE  KeepsEntries
  <2>1. PICK r : r = [heap[q] EXCEPT !.id = id]
    OBVIOUS
  <2>2. IsResource(r) /\ r.href = heap[q].href /\ r.entry = heap[q].entry
    <3>1. IsResource(heap[q])
      BY <1>1 DEF HeapOK
    <3> QED
      BY <2>1, <3>1, RenamedResource DEF IsResource, Resource
  <2>3. PICK n : n = Len(heap) + 1
    OBVIOUS
  <2>4. /\ Pointers' = Pointers \cup {n} /\ n \notin Pointers
        /\ \A p \in Pointers : heap'[p] = heap[p]
        /\ heap'[n] = r
    BY <1>1, <1>2, <2>1, <2>2, <2>3, CopyHeap
  <2> QED
    BY <2>2, <2>4 DEF KeepsEntries
<1>3. CASE Normalize
  <2>1. /\ Pointers' = Pointers
        /\ \A p \in Pointers : \/ heap'[p] = heap[p]
                               \/ heap'[p] = [heap[p] EXCEPT !.charset = NormalizedCharset(heap[p])]
    BY <1>3 DEF Normalize, Pointers
  <2>2. \A p \in Pointers : heap'[p].href = heap[p].href /\ heap'[p].entry = heap[p].entry
    <3> SUFFICES ASSUME NEW p \in Pointers
                 PROVE  heap'[p].href = heap[p].href /\ heap'[p].entry = heap[p].entry
      OBVIOUS
    <3>1. IsResource(heap[p])
      BY <1>1 DEF HeapOK
    <3> QED
      BY <2>1, <3>1 DEF IsResource, Resource
  <2> QED
    BY <2>1, <2>2 DEF KeepsEntries
<1>4. CASE RenameResource
  <2>1. PICK q \in Pointers, n \in 1..MaxDup : heap' = Append(heap, [heap[q] EXCEPT !.id = Dup(heap[q].id, n)])
    BY <1>4 DEF RenameResource, Pointers
  <2> QED
    BY <1>2, <2>1
<1>5. CASE RenameCover
  <2>1. PICK n \in 1..MaxDup :
          cover # Nil /\ heap' = Append(heap, [heap[cover] EXCEPT !.id = Dup(heap[cover].id, n)])
    BY <1>5 DEF RenameCover
  <2>2. cover \in Pointers
    BY <2>1, TypeParts DEF Typed, ArgumentsOK
  <2> QED
    BY <1>2, <2>1, <2>2
<1>6. CASE IndexResource /\ ~RenameResource
  BY <1>6, SameEntries DEF IndexResource, SkipNil, SkipDuplicate, KeepResource
<1>7. CASE ResolveCover /\ ~RenameCover
  BY <1>7, SameEntries DEF ResolveCover, AliasCover, EnterCover
<1> QED
  BY <1>3, <1>4, <1>5, <1>6, <1>7, SameEntries DEF NewResourceSet, StartOrder, CanonicalizeItem

\* Once the loop over all is through, every resource given has its entry.
LEMMA InList ==
  ASSUME Typed, Exact, Complete, phase = "order", NEW i \in Passed, HasHref(all[i])
  PROVE  Duplicate(all[i]) /\ EntryFor(Deduped(all[i]), all[i])
<1>1. PICK p : p = all[i]
  OBVIOUS
<1>2. /\ Len(all) \in Nat /\ Passed \subseteq 1..Len(all) /\ Passed \in SUBSET Nat
      /\ \A j \in Passed : all[j] \in Pointers
  BY PassedPointers
<1>3. SeenKept = Kept
  <2>1. Reached = Len(all) + 1
    BY DEF Reached
  <2>2. \A j \in Kept : j < Reached
    BY <1>2, <2>1 DEF Kept
  <2> QED
    BY <2>2 DEF SeenKept
<1>4. PICK k \in Passed : SameFile(all[k], p) /\ \A j \in Passed : SameFile(all[j], p) => k <= j
  <2>1. PICK T : T = {j \in Passed : SameFile(all[j], p)}
    OBVIOUS
  <2>2. T \in SUBSET Nat /\ i \in T
    BY <1>1, <1>2, <2>1 DEF SameFile
  <2>3. PICK k \in T : \A j \in T : k <= j
    BY <2>2, LeastMember
  <2> QED
    BY <2>1, <2>3
<1>5. HasHref(p) /\ HasHref(all[k]) /\ Key(all[k]) = Key(p)
  BY <1>1, <1>4 DEF SameFile
<1>6. k \in Kept
  <2>1. \A j \in Before(k) : ~SameFile(all[j], all[k])
    <3> SUFFICES ASSUME NEW j \in Before(k), SameFile(all[j], all[k]) PROVE FALSE
      OBVIOUS
    <3>1. j \in Passed /\ j < k /\ j \in Nat /\ k \in Nat
      BY <1>2 DEF Before
    <3>2. SameFile(all[j], p)
      BY <1>5 DEF SameFile
    <3> QED
      BY <1>4, <3>1, <3>2
  <2> QED
    BY <2>1 DEF Kept, FirstOfFile
<1>7. PICK n \in DOMAIN allCopy : Apart(allCopy[n]) = Apart(all[k])
  BY <1>3, <1>6 DEF Complete, Listed
<1>8. PICK q : q = allCopy[n]
  OBVIOUS
<1>9. heap[q].href = heap[all[k]].href
  <2>1. q \in Pointers /\ all[k] \in Pointers
    BY <1>2, <1>7, <1>8, StoredPointers
  <2>2. IsResource(heap[q]) /\ IsResource(heap[all[k]])
    BY <2>1, TypeParts DEF Typed, HeapOK
  <2>3. [heap[q] EXCEPT !.id = NoId] = [heap[all[k]] EXCEPT !.id = NoId]
    BY <1>7, <1>8 DEF Apart
  <2>4. \A r : IsResource(r) => [r EXCEPT !.id = NoId].href = r.href
    BY RenamedResource
  <2>5. /\ [heap[q] EXCEPT !.id = NoId].href = heap[q].href
        /\ [heap[all[k]] EXCEPT !.id = NoId].href = heap[all[k]].href
    BY ONLY <2>2, <2>4
  <2> QED
    BY <2>3, <2>5
<1>10. HasHref(q) /\ Key(q) = Key(p)
  BY <1>5, <1>9 DEF HasHref, Key
<1>11. Key(q) \in DOMAIN byHref /\ byHref[Key(q)] = q
  BY <1>7, <1>8, <1>10 DEF Exact, Lists, EntriesIndexed
<1>12. Duplicate(p) /\ Deduped(p) = q
  BY <1>5, <1>10, <1>11 DEF Duplicate, Deduped
<1> QED
  BY <1>1, <1>7, <1>8, <1>10, <1>12 DEF EntryFor, InAll

\* What BuildResources resolved is in the list it made, under a proper href.
LEMMA ResolvedInList ==
  ASSUME BookOK, Typed, Exact, Complete, Resolved, phase = "order", NEW key \in DOMAIN resolved
  PROVE  LET p == resolved[key] IN
         p \in Pointers /\ Key(p) = key /\ Duplicate(p) /\ EntryFor(Deduped(p), p)
<1>1. PICK p : p = resolved[key]
  OBVIOUS
<1>2. /\ DOMAIN resolved = {KeyAt(j) : j \in Turned} /\ LeadsTo(key)
  BY DEF Resolved, Late, Building
<1>3. key # NoHref /\ CleanHref(key) = key
  BY <1>2, PackageLists DEF Turned
<1>4. p \in Pointers /\ heap[p].href = key
  BY <1>1, <1>2 DEF BookOK, LeadsTo
<1>5. PICK i \in DOMAIN all : all[i] = p
  BY <1>1, <1>2 DEF LeadsTo, ListedHere
<1>6. i \in Passed /\ HasHref(all[i])
  BY <1>3, <1>4, <1>5, PointersNotNil DEF Passed, HasHref
<1>7. Duplicate(p) /\ EntryFor(Deduped(p), p)
  BY <1>5, <1>6, InList
<1> QED
  BY <1>1, <1>3, <1>4, <1>7 DEF Key

LEMMA SameLists == NewResourceSet => UNCHANGED arguments
BY DEF NewResourceSet, Normalize, IndexResource, SkipNil, SkipDuplicate, KeepResource,
       RenameResource, AtResource, StartOrder, CanonicalizeItem, ResolveCover, AliasCover,
       EnterCover, RenameCover, AtCover

LEMMA GatheredBook ==
  ASSUME EpubInv, BookInv, NewResourceSet, UNCHANGED epubvars
  PROVE  Refusal' /\ (archive.zip => Gathered' /\ Unprotected')
<1>1. /\ phase \in Building /\ BookOK /\ Typed /\ UNCHANGED arguments
      /\ UNCHANGED <<archive, pkg, resolved, err>>
  BY BuildsLate, SameLists DEF EpubInv, SetInv, epubvars
<1>2. phase' \in Building
  BY <1>1, StepIsTyped DEF StepTyped, Typed, Stages, Building
<1>3. Refusal' /\ (archive.zip => Unprotected')
  BY <1>1, <1>2, StillUnprotected DEF Late
<1>4. SUFFICES ASSUME archive.zip PROVE Gathered'
  BY <1>3
<1>5. Origin /\ Resolved /\ Spined /\ Covered
  BY <1>4 DEF BookInv, Gathered
<1>6. Turned' = Turned
  <2>1. \A j : EntryAt(j)' = EntryAt(j)
    BY <1>1, SamePackage
  <2>2. phase # "manifest" /\ phase' # "manifest"
    BY <1>1, <1>2 DEF Building
  <2> QED
    BY <1>1, <2>1, <2>2 DEF Turned
<1>7. Origin' /\ Resolved'
  <2>1. KeepsEntries
    BY <1>1, StepKeepsEntries
  <2> QED
    BY <1>1, <1>5, <1>6, <2>1, GatheredStays DEF Late, arguments
<1>8. Spined'
  BY <1>1, <1>5, SpinedStays DEF Late, Building, arguments
<1>9. Covered'
  <2>1. CoverStored' = CoverStored /\ CoverKey' = CoverKey
    BY <1>1, SamePackage
  <2> QED
    BY <1>1, <1>5, <2>1 DEF Covered, arguments
<1>10. Fresh'
  BY <1>2 DEF Fresh, Building
<1> QED
  BY <1>7, <1>8, <1>9, <1>10 DEF Gathered

\* Entries stay what they are for a resource.
LEMMA EntryForStays ==
  ASSUME Typed, Preserved, UNCHANGED allCopy, NEW p, NEW q \in Pointers, EntryFor(p, q)
  PROVE  EntryFor(p, q)'
<1>1. p \in Pointers
  BY StoredPointers DEF EntryFor, InAll
<1> QED
  BY <1>1, SameKeys DEF EntryFor, InAll

\* An item of the spine leads to the entry of its resource.
LEMMA ItemPlaced ==
  ASSUME EpubInv, Gathered, phase = "order", NEW n \in DOMAIN readingOrder
  PROVE  LET p == readingOrder[n].resource IN
         p # Nil /\ p \in Pointers /\ EntryFor(Deduped(p), p)
<1>1. BookOK /\ Typed /\ Exact /\ Complete
  BY DEF EpubInv, SetInv, Reading
<1>2. n \in 1..Len(readingOrder)
  BY <1>1, LenProperties, TypeParts DEF Typed, ArgumentsOK
<1>3. PICK key \in DOMAIN resolved : readingOrder[n].resource = resolved[key]
  BY <1>2 DEF Gathered, Spined, Late, Building
<1>4. resolved[key] \in Pointers /\ EntryFor(Deduped(resolved[key]), resolved[key])
  BY <1>1, ResolvedInList DEF Gathered
<1>5. resolved[key] # Nil
  BY <1>1, <1>4, PointersNotNil
<1> QED
  BY <1>3, <1>4, <1>5

LEMMA StartOrderShown == ASSUME EpubInv, StartOrder PROVE Shown'
<1>1. phase' = "order" /\ index' = 1 /\ roCopy' = roCopy /\ phase = "index"
  BY DEF StartOrder
<1>2. roCopy = <<>>
  BY <1>1 DEF EpubInv, SetInv, Reading, Typed, Stages
<1>3. Len(roCopy') = 0
  BY <1>1, <1>2
<1> QED
  BY <1>1, <1>3 DEF Shown, Ordered, CoverPlaced

LEMMA CanonicalizeItemShown ==
  ASSUME EpubInv, Gathered, Ordered, CanonicalizeItem
  PROVE  Shown'
<1>1. PICK k : k = index
  OBVIOUS
<1>2. PICK p : p = readingOrder[k].resource
  OBVIOUS
<1>3. PICK d : d = Deduped(p)
  OBVIOUS
<1>4. /\ phase = "order" /\ k \in DOMAIN readingOrder /\ index' = k + 1
      /\ UNCHANGED <<heap, arguments, phase, indexes, coverAliased>>
  BY <1>1 DEF CanonicalizeItem
<1>5. p # Nil /\ p \in Pointers /\ EntryFor(d, p)
  BY <1>2, <1>3, <1>4, ItemPlaced
<1>6. BookOK /\ Typed
  BY <1>4 DEF EpubInv, SetInv, Reading
<1>7. /\ d \in Pointers /\ readingOrder[k].linear \in BOOLEAN /\ k \in Nat
      /\ roCopy \in Seq([resource : Pointers, linear : BOOLEAN])
      /\ Len(roCopy) = k - 1 /\ Len(roCopy) \in Nat /\ DOMAIN roCopy = 1..Len(roCopy)
  <2>1. roCopy \in Seq([resource : Pointers, linear : BOOLEAN])
    BY <1>6, TypeParts DEF Typed, BuiltOK
  <2>2. d \in Pointers
    BY <1>5, <1>6, StoredPointers DEF EntryFor, InAll
  <2>3. k \in 1..Len(readingOrder) /\ readingOrder[k] \in [resource : Pointers \cup {Nil}, linear : BOOLEAN]
    BY <1>4, <1>6, LenProperties, ElementOfSeq, TypeParts DEF Typed, ArgumentsOK
  <2>4. Len(roCopy) = k - 1
    BY <1>1, <1>4 DEF Ordered
  <2> QED
    BY <2>1, <2>2, <2>3, <2>4, LenProperties
<1>8. PICK e : e = [resource |-> d, linear |-> readingOrder[k].linear]
  OBVIOUS
<1>9. roCopy' = Append(roCopy, e)
  BY <1>1, <1>2, <1>3, <1>5, <1>8 DEF CanonicalizeItem
<1>10. e \in [resource : Pointers, linear : BOOLEAN]
  BY <1>7, <1>8
<1>11. /\ Len(roCopy') = k /\ roCopy'[k] = e
       /\ \A n \in 1..k - 1 : roCopy'[n] = roCopy[n]
  <2> HIDE DEF Ordered
  <2>1. /\ Len(Append(roCopy, e)) = Len(roCopy) + 1
        /\ \A n \in DOMAIN roCopy : Append(roCopy, e)[n] = roCopy[n]
        /\ Append(roCopy, e)[Len(roCopy) + 1] = e
    BY <1>7, <1>10, AppendFacts
  <2>2. Len(roCopy) + 1 = k /\ DOMAIN roCopy = 1..k - 1
    BY <1>7
  <2> QED
    BY <1>9, <2>1, <2>2
<1>12. ASSUME NEW n \in 1..k
       PROVE  /\ roCopy'[n].linear = readingOrder[n].linear
              /\ EntryFor(roCopy'[n].resource, readingOrder[n].resource)
  <2>1. CASE n = k
    BY <1>2, <1>5, <1>8, <1>11, <2>1
  <2>2. CASE n # k
    <3>1. n \in 1..k - 1
      BY <1>7, <2>2
    <3>2. /\ roCopy[n].linear = readingOrder[n].linear
          /\ EntryFor(roCopy[n].resource, readingOrder[n].resource)
      BY <1>4, <1>7, <3>1 DEF Ordered
    <3> QED
      BY <1>11, <3>1, <3>2
  <2> QED
    BY <2>1, <2>2
<1>13. Ordered'
  <2>1. PICK ro, given : ro = roCopy' /\ given = readingOrder
    OBVIOUS
  <2>2. ro = roCopy' /\ given = readingOrder' /\ heap' = heap /\ allCopy' = allCopy /\ phase' = "order"
    BY <1>4, <2>1 DEF arguments, indexes
  <2>3. Len(ro) = k /\ Len(ro) = index' - 1
    BY <1>4, <1>7, <1>11, <2>1
  <2>4. \A n \in 1..Len(ro) : ro[n].linear = given[n].linear /\ EntryFor(ro[n].resource, given[n].resource)
    BY <1>12, <2>1, <2>3
  <2> QED
    BY <2>2, <2>3, <2>4 DEF Ordered, EntryFor, InAll, Key
<1> QED
  BY <1>4, <1>13 DEF Shown, CoverPlaced

LEMMA ResolveCoverShown ==
  ASSUME EpubInv, Gathered, Ordered, ResolveCover
  PROVE  Shown'
<1>1. /\ phase = "order" /\ phase' = "done" /\ index \notin DOMAIN readingOrder
      /\ UNCHANGED <<arguments, index, allCopy, roCopy>>
  BY DEF ResolveCover, AliasCover, EnterCover, RenameCover, AtCover
<1>2. BookOK /\ Typed /\ Exact /\ Complete
  BY <1>1 DEF EpubInv, SetInv, Reading
<1>3. Preserved
  BY <1>2, StepIsTyped DEF NewResourceSet, StepTyped
<1>4. /\ Len(readingOrder) \in Nat /\ DOMAIN readingOrder = 1..Len(readingOrder)
      /\ \A n \in 1..Len(readingOrder) : readingOrder[n].resource \in Pointers
  BY <1>1, <1>2, LenProperties, TypeParts, ItemPlaced DEF Typed, ArgumentsOK
<1>5. Len(roCopy) = Len(readingOrder)
  <2>1. index \in Nat \ {0} /\ index <= Len(readingOrder) + 1
    BY <1>1, <1>2, TypeParts DEF Typed, IndexOK
  <2>2. index = Len(readingOrder) + 1
    BY <1>1, <1>4, <2>1
  <2>3. Len(roCopy) = index - 1
    BY <1>1 DEF Ordered
  <2> QED
    BY <1>4, <2>2, <2>3
<1>6. Ordered'
  <2>1. PICK ro, given : ro = roCopy /\ given = readingOrder
    OBVIOUS
  <2>2. ro = roCopy' /\ given = readingOrder' /\ phase' = "done" /\ Len(ro) = Len(given)
    BY <1>1, <1>5, <2>1 DEF arguments
  <2>3. ASSUME NEW n \in 1..Len(ro)
        PROVE  ro[n].linear = given[n].linear /\ EntryFor(ro[n].resource, given[n].resource)'
    <3>1. ro[n].linear = given[n].linear /\ EntryFor(ro[n].resource, given[n].resource)
      BY <1>1, <2>1 DEF Ordered
    <3>2. given[n].resource \in Pointers
      BY <1>4, <2>1, <2>2
    <3>3. PICK p, q : p = ro[n].resource /\ q = given[n].resource
      OBVIOUS
    <3>4. EntryFor(p, q)'
      BY <1>1, <1>2, <1>3, <3>1, <3>2, <3>3, EntryForStays
    <3> QED
      BY <3>1, <3>3, <3>4
  <2> QED
    BY <2>2, <2>3 DEF Ordered, EntryFor, InAll, Key
<1>7. CASE cover = Nil
  <2>1. coverAliased' = Nil
    BY <1>7 DEF ResolveCover, AliasCover, EnterCover, RenameCover
  <2> QED
    BY <1>1, <1>6, <1>7, <2>1 DEF Shown, CoverPlaced, arguments
<1>8. CASE cover # Nil
  <2>1. PICK c : c = cover
    OBVIOUS
  <2>2. PICK d : d = Deduped(c)
    OBVIOUS
  <2>3. cover = resolved[CoverKey] /\ CoverStored
    BY <1>1, <1>8 DEF Gathered, Covered, Building
  <2>4. CoverKey \in DOMAIN resolved
    <3>1. phase # "manifest" /\ phase \in Late /\ Resolved
      BY <1>1 DEF Late, Building, Gathered
    <3>2. ResolvedItem(CoverItem)
      BY <1>2, <2>3, <3>1, AllTurned, ResolvedStored DEF CoverStored
    <3> QED
      BY <3>2 DEF ResolvedItem, CoverKey
  <2>5. c \in Pointers /\ Duplicate(c) /\ EntryFor(d, c)
    BY <1>1, <1>2, <2>1, <2>2, <2>3, <2>4, ResolvedInList DEF Gathered
  <2>6. coverAliased' = d
    BY <1>8, <2>1, <2>2, <2>5 DEF ResolveCover, AliasCover, EnterCover, RenameCover
  <2>7. EntryFor(d, c)'
    BY <1>1, <1>2, <1>3, <2>5, EntryForStays
  <2>8. CoverPlaced'
    BY <1>1, <1>8, <2>1, <2>6, <2>7 DEF CoverPlaced, EntryFor, InAll, Key, arguments
  <2> QED
    BY <1>6, <2>8 DEF Shown
<1> QED
  BY <1>7, <1>8

LEMMA BuildingBook ==
  ASSUME EpubInv, BookInv, NewResourceSet, UNCHANGED epubvars
  PROVE  BookInv'
<1>1. Refusal' /\ (archive.zip => Gathered' /\ Unprotected')
  BY GatheredBook
<1>2. archive' = archive
  BY DEF epubvars
<1>3. SUFFICES ASSUME archive.zip PROVE Shown'
  BY <1>1, <1>2 DEF BookInv
<1>4. Gathered /\ Ordered
  BY <1>3 DEF BookInv, Shown
<1>5. CASE Normalize \/ IndexResource
  <2>1. phase' = "index"
    BY <1>5 DEF Normalize, IndexResource, SkipNil, SkipDuplicate, KeepResource, RenameResource, AtResource
  <2> QED
    BY <2>1 DEF Shown, Ordered, CoverPlaced
<1> QED
  BY <1>4, <1>5, StartOrderShown, CanonicalizeItemShown, ResolveCoverShown DEF NewResourceSet

LEMMA BookStutter == ASSUME BookInv, UNCHANGED vars PROVE BookInv'
<1>1. UNCHANGED <<archive, pkg, err, phase, index, heap, all, readingOrder, cover, resolved,
                  allCopy, roCopy, coverAliased>>
  BY DEF vars, setvars, epubvars, arguments, indexes
<1>2. /\ \A j : KeyAt(j)' = KeyAt(j) /\ EntryAt(j)' = EntryAt(j)
      /\ \A i : RefKey(i)' = RefKey(i) /\ SpinePlace(i)' = SpinePlace(i)
      /\ Served' = Served /\ CoverKey' = CoverKey /\ CoverStored' = CoverStored
      /\ AdobeProtected' = AdobeProtected /\ KoboProtected' = KoboProtected
  BY <1>1, SamePackage
<1>3. Fresh => Fresh'
  BY <1>1 DEF Fresh
<1>4. Origin => Origin'
  BY <1>1, <1>2 DEF Origin, StandsFor, Pointers
<1>5. Resolved => Resolved'
  <2>1. Turned' = Turned
    BY <1>1, <1>2 DEF Turned
  <2> QED
    BY <1>1, <1>2, <2>1 DEF Resolved, LeadsTo, ListedHere
<1>6. Spined => Spined'
  <2>1. \A i : SpineItem(i)' = SpineItem(i)
    BY <1>1, <1>2 DEF SpineItem
  <2> QED
    BY <1>1, <1>2, <2>1 DEF Spined
<1>7. (Covered => Covered') /\ (Unprotected => Unprotected') /\ (Refusal => Refusal')
  BY <1>1, <1>2 DEF Covered, Unprotected, Refusal
<1>8. Shown => Shown'
  BY <1>1 DEF Shown, Ordered, CoverPlaced, EntryFor, InAll, Key
<1> QED
  BY <1>1, <1>3, <1>4, <1>5, <1>6, <1>7, <1>8 DEF BookInv, Gathered

LEMMA BookStep == EpubInv /\ BookInv /\ [Next]_vars => BookInv'
<1> SUFFICES ASSUME EpubInv, BookInv, [Next]_vars PROVE BookInv'
  OBVIOUS
<1>1. CASE Read
  BY <1>1, OpenArchiveBook, ReadPackageBook, CheckAdobeBook, CheckKoboBook,
     AddItemBook, SkipItemBook, ReadSpineBook, ReadCoverBook DEF Read
<1>2. CASE NewResourceSet /\ UNCHANGED epubvars
  BY <1>2, BuildingBook
<1>3. CASE UNCHANGED vars
  BY <1>3, BookStutter
<1> QED
  BY <1>1, <1>2, <1>3 DEF Next

-----------------------------------------------------------------------------
(* What the invariant says of a book that was read *)

LEMMA BookFaithful == EpubInv /\ BookInv => SpineFaithful
<1> SUFFICES ASSUME EpubInv, BookInv, BookRead PROVE SpineFaithful
  BY DEF SpineFaithful
<1>1. phase = "done" /\ Gathered /\ Shown
  BY DEF BookRead, BookInv
<1>2. BookOK /\ Typed
  BY <1>1 DEF EpubInv, SetInv, Reading
<1>3. Origin /\ Resolved /\ Spined /\ Covered /\ Ordered /\ CoverPlaced
  BY <1>1 DEF Gathered, Shown
<1>4. ASSUME NEW key \in DOMAIN resolved
      PROVE  Key(resolved[key]) = key
  <2>1. LeadsTo(key) /\ key \in {KeyAt(j) : j \in Turned}
    BY <1>1, <1>3 DEF Resolved, Late, Building
  <2>2. CleanHref(key) = key
    BY <1>2, <2>1, PackageLists DEF Turned
  <2> QED
    BY <2>1, <2>2 DEF LeadsTo, Key
<1>5. \A i : Stored(i) => ResolvedItem(i)
  BY <1>1, <1>2, <1>3, AllTurned, ResolvedStored DEF Late, Building
<1>6. Len(roCopy) = Cardinality(Served)
  BY <1>1, <1>3 DEF Ordered, Spined, Late, Building
<1>7. ASSUME NEW i \in Served
      PROVE  LET item == roCopy[SpinePlace(i)] IN
             /\ item.linear = (pkg.itemRefs[i].linear # "no")
             /\ Key(item.resource) = RefKey(i) /\ InAll(item.resource)
  <2>1. PICK n : n = SpinePlace(i)
    OBVIOUS
  <2>2. n \in 1..Len(readingOrder) /\ readingOrder[n] = SpineItem(i) /\ Len(roCopy) = Len(readingOrder)
    BY <1>1, <1>3, <2>1 DEF Spined, Ordered, Late, Building
  <2>3. roCopy[n].linear = readingOrder[n].linear /\ EntryFor(roCopy[n].resource, readingOrder[n].resource)
    BY <1>1, <1>3, <2>2 DEF Ordered
  <2>4. RefKey(i) \in DOMAIN resolved
    BY <1>5 DEF Served, ResolvedItem, RefKey
  <2>5. readingOrder[n].resource = resolved[RefKey(i)] /\ readingOrder[n].linear = (pkg.itemRefs[i].linear # "no")
    BY <2>2 DEF SpineItem
  <2>6. Key(readingOrder[n].resource) = RefKey(i)
    BY <1>4, <2>4, <2>5
  <2> QED
    BY <2>1, <2>3, <2>5, <2>6 DEF EntryFor
<1>8. IF CoverStored THEN InAll(coverAliased) /\ Key(coverAliased) = CoverKey ELSE coverAliased = Nil
  <2>1. CASE CoverStored
    <3>1. CoverKey \in DOMAIN resolved /\ cover = resolved[CoverKey]
      BY <1>1, <1>3, <1>5, <2>1 DEF CoverStored, ResolvedItem, CoverKey, Covered, Building
    <3>2. cover # Nil
      BY <1>2, <3>1, PointersNotNil DEF BookOK
    <3> QED
      BY <1>1, <1>3, <1>4, <2>1, <3>1, <3>2 DEF CoverPlaced, EntryFor
  <2>2. CASE ~CoverStored
    BY <1>1, <1>3, <2>2 DEF Covered, CoverPlaced, Building
  <2> QED
    BY <2>1, <2>2
<1>9. ASSUME NEW i \in DOMAIN allCopy
      PROVE  CleanHref(archive.entries[heap[allCopy[i]].entry].name) = Key(allCopy[i])
  <2>1. PICK p : p = allCopy[i]
    OBVIOUS
  <2>2. p \in Pointers
    BY <1>2, <2>1, StoredPointers
  <2>3. PICK j \in DOMAIN pkg.items : StandsFor(p, j)
    BY <1>1, <1>3, <2>2 DEF Origin, Late, Building
  <2>4. PICK path : path = ResolvePath(pkg.path, pkg.items[j].href)
    OBVIOUS
  <2>5. IsList(archive.entries)
    BY <1>2 DEF BookOK, IsArchive
  <2>6. archive.entries[heap[p].entry].name = path
    BY <2>3, <2>4, <2>5, FindFacts DEF StandsFor, EntryAt, Lookup
  <2>7. CleanHref(path) = KeyAt(j)
    BY <2>4 DEF KeyAt, ItemKey
  <2>8. Key(p) = KeyAt(j)
    BY <1>2, <2>3, PackageLists DEF StandsFor, Key
  <2> QED
    BY <2>1, <2>6, <2>7, <2>8
<1> QED
  BY <1>6, <1>7, <1>8, <1>9 DEF SpineFaithful, SpinePlace, RefKey, CoverStored, CoverKey

\* The reading order of a book is the spine of its package without what is not
\* stored, its cover the one declared, and both lead to the resources of All(),
\* each the file it names (internal/opf/resources.go, internal/epub/reader.go).
THEOREM SpineAlwaysFaithful == Spec => []SpineFaithful
<1>1. Init => EpubInv /\ BookInv
  BY BookInit, BookInvInit
<1>2. EpubInv /\ BookInv /\ [Next]_vars => (EpubInv /\ BookInv)'
  BY EpubStep, BookStep
<1> QED
  BY <1>1, <1>2, BookFaithful, PTL DEF Spec

-----------------------------------------------------------------------------
(* Protection *)

Encryptions == {i \in DOMAIN archive.entries : archive.entries[i].name = EncryptionXml}
RightsFiles == {i \in DOMAIN archive.entries :
                 archive.entries[i].name.file = RightsXml.file /\ archive.entries[i].name.tail = ""}
IsContent(i) == /\ ItemRefItem(i) # 0 /\ pkg.items[ItemRefItem(i)].media \in OebDocs
                /\ Lookup(pkg.items[ItemRefItem(i)]) # 0
Contents == {i \in DOMAIN pkg.itemRefs : IsContent(i)}
Documents == {i \in Served : pkg.items[ItemRefItem(i)].media \in OebDocs}

LEMMA RightsFacts ==
  ASSUME BookOK
  PROVE  /\ FindRightsXml # 0 => FindRightsXml \in RightsFiles
         /\ FindRightsXml = 0 => RightsFiles = {}
<1> DEFINE es == archive.entries
<1>1. IsList(es) /\ Len(es) \in Nat /\ DOMAIN es = 1..Len(es)
  BY ListFacts DEF BookOK, IsArchive
<1>2. CASE Find(RightsXml) # 0
  <2>1. FindRightsXml = Find(RightsXml)
    BY <1>2 DEF FindRightsXml
  <2>2. Find(RightsXml) \in DOMAIN es /\ es[Find(RightsXml)].name = RightsXml
    BY <1>1, <1>2, FindFacts
  <2> QED
    BY <1>2, <2>1, <2>2, NamesAssumption DEF RightsFiles
<1>3. CASE Find(RightsXml) = 0
  <2>1. RightsFiles \subseteq 1..Len(es)
    BY <1>1 DEF RightsFiles
  <2>2. FindRightsXml = IF RightsFiles # {} THEN Min(RightsFiles) ELSE 0
    <3>1. RightsFiles = {i \in 1..Len(es) : es[i].name.file = RightsXml.file /\ es[i].name.tail = ""}
      BY <1>1 DEF RightsFiles
    <3> QED
      BY <1>3, <3>1 DEF FindRightsXml, SelectInSeq
  <2>3. /\ RightsFiles # {} => Min(RightsFiles) \in RightsFiles
        /\ (IF RightsFiles # {} THEN Min(RightsFiles) ELSE 0) = 0 <=> RightsFiles = {}
    BY <1>1, <2>1, FirstOf
  <2> QED
    BY <2>2, <2>3
<1> QED
  BY <1>2, <1>3

LEMMA ContentFacts ==
  ASSUME BookOK
  PROVE  /\ Contents = {} => FirstSpineContentFile = 0
         /\ Contents # {} => \E i \in Contents :
              (\A j \in Contents : i <= j) /\ FirstSpineContentFile = Lookup(pkg.items[ItemRefItem(i)])
<1> DEFINE refs == pkg.itemRefs
           first == IF Contents # {} THEN Min(Contents) ELSE 0
<1>1. Len(refs) \in Nat /\ DOMAIN refs = 1..Len(refs)
  BY PackageLists
<1>2. Contents = {i \in 1..Len(refs) : IsContent(i)}
  BY <1>1 DEF Contents
<1>3. FirstSpineContentFile = IF first = 0 THEN 0 ELSE Lookup(pkg.items[ItemRefItem(first)])
  BY <1>2 DEF FirstSpineContentFile, SelectInSeq, IsContent, ItemRefItem
<1>4. /\ Contents # {} => Min(Contents) \in Contents /\ \A i \in Contents : Min(Contents) <= i
      /\ first = 0 <=> Contents = {}
  BY <1>1, <1>2, FirstOf
<1> QED
  BY <1>3, <1>4

\* Only a protected book is refused with ErrDRM.
LEMMA RefusedProtected ==
  ASSUME BookOK, AdobeProtected \/ KoboProtected
  PROVE  Encryptions # {} \/ \E i \in RightsFiles : ~archive.entries[i].empty
<1>1. CASE AdobeProtected
  <2>1. Find(EncryptionXml) # 0
    BY <1>1 DEF AdobeProtected
  <2>2. Find(EncryptionXml) \in Encryptions
    BY <2>1, FindFacts DEF BookOK, IsArchive, Encryptions
  <2> QED
    BY <2>2
<1>2. CASE KoboProtected
  <2>1. FindRightsXml # 0 /\ ~archive.entries[FindRightsXml].empty
    BY <1>2 DEF KoboProtected
  <2> QED
    BY <2>1, RightsFacts
<1> QED
  BY <1>1, <1>2

\* The encryption.xml a reader of the archive finds is no protection.
LEMMA ReadUnencrypted ==
  ASSUME BookOK, ~AdobeProtected, NEW i \in Encryptions, i = Find(EncryptionXml)
  PROVE  LET e == archive.entries[i] IN
         e.readable /\ (e.blank \/ (e.kind = "encryption" /\ e.algorithms \subseteq FontObfuscation))
<1>1. IsList(archive.entries) /\ i \in DOMAIN archive.entries
  BY DEF BookOK, IsArchive, Encryptions
<1>2. i # 0
  BY <1>1, ListFacts
<1> QED
  BY <1>2 DEF AdobeProtected, Entry

LEMMA ItemByIdFacts ==
  ASSUME BookOK, NEW id, ItemById(id) # 0
  PROVE  ItemById(id) \in DOMAIN pkg.items
<1> DEFINE I == {j \in 1..Len(pkg.items) : pkg.items[j].id = id}
<1>1. Len(pkg.items) \in Nat /\ DOMAIN pkg.items = 1..Len(pkg.items)
  BY PackageLists
<1>2. ItemById(id) = IF I # {} THEN Min(I) ELSE 0
  BY DEF ItemById, SelectInSeq
<1>3. I \subseteq 1..Len(pkg.items)
  OBVIOUS
<1> HIDE DEF I
<1>4. I # {} => Min(I) \in I
  BY <1>1, <1>3, FirstOf
<1> QED
  BY <1>1, <1>2, <1>3, <1>4

\* Where no href carries a fragment, an item's entry is that of its key, and
\* the documents of the spine are those whose file is stored.
PlainHrefs == \A j \in DOMAIN pkg.items : pkg.items[j].href.tail = ""

LEMMA PlainEntries ==
  ASSUME BookOK, PlainHrefs, NEW j \in DOMAIN pkg.items
  PROVE  EntryAt(j) = Find(KeyAt(j))
<1>1. IsHref(pkg.items[j].href) /\ pkg.items[j].href.tail = ""
  BY DEF BookOK, IsPackage, PlainHrefs
<1>2. KeyAt(j) = ResolvePath(pkg.path, pkg.items[j].href)
  BY <1>1, HrefFacts DEF KeyAt, ItemKey
<1> QED
  BY <1>2 DEF EntryAt, Lookup

LEMMA DocumentsContents ==
  ASSUME BookOK, PlainHrefs
  PROVE  Documents = Contents
<1>1. ASSUME NEW i, Stored(ItemRefItem(i)) PROVE Lookup(pkg.items[ItemRefItem(i)]) # 0
  <2>1. PICK n : n = ItemRefItem(i)
    OBVIOUS
  <2>2. n \in DOMAIN pkg.items
    BY <1>1, <2>1, ItemByIdFacts DEF Stored, ItemRefItem
  <2>3. PICK j \in DOMAIN pkg.items : KeyAt(j) = KeyAt(n) /\ EntryAt(j) # 0
    BY <1>1, <2>1 DEF Stored, KeyAt, EntryAt
  <2>4. EntryAt(n) # 0
    BY <2>2, <2>3, PlainEntries
  <2> QED
    BY <2>1, <2>4 DEF EntryAt
<1>2. ASSUME NEW i, IsContent(i) PROVE Stored(ItemRefItem(i))
  BY <1>2, ItemByIdFacts DEF IsContent, Stored, ItemRefItem
<1>3. \A i \in DOMAIN pkg.itemRefs :
        IsContent(i) <=> Stored(ItemRefItem(i)) /\ pkg.items[ItemRefItem(i)].media \in OebDocs
  BY <1>1, <1>2 DEF IsContent, Stored
<1> QED
  BY <1>3 DEF Documents, Contents, Served

\* The document probed is the first one a reader of the book is served.
LEMMA ProbedIsServed ==
  ASSUME EpubInv, BookInv, BookRead, PlainHrefs, NEW i \in Served
  PROVE  heap[roCopy[SpinePlace(i)].resource].entry = Lookup(pkg.items[ItemRefItem(i)])
<1>1. BookOK /\ Typed /\ Origin /\ phase \in Late
  BY DEF BookRead, BookInv, Gathered, EpubInv, SetInv, Reading, Late, Building
<1>2. PICK p : p = roCopy[SpinePlace(i)].resource
  OBVIOUS
<1>3. PICK n : n = ItemRefItem(i)
  OBVIOUS
<1>4. Key(p) = KeyAt(n) /\ InAll(p)
  BY <1>2, <1>3, BookFaithful DEF SpineFaithful, SpinePlace, KeyAt
<1>5. p \in Pointers
  BY <1>1, <1>4, StoredPointers DEF InAll
<1>6. PICK j \in DOMAIN pkg.items : StandsFor(p, j)
  BY <1>1, <1>5 DEF Origin
<1>7. KeyAt(j) = KeyAt(n) /\ heap[p].entry = EntryAt(j)
  BY <1>1, <1>4, <1>6, PackageLists DEF StandsFor, Key
<1>8. n \in DOMAIN pkg.items
  BY <1>1, <1>3, ItemByIdFacts DEF Served, Stored, ItemRefItem
<1>9. EntryAt(j) = EntryAt(n)
  BY <1>1, <1>6, <1>7, <1>8, PlainEntries
<1> QED
  BY <1>2, <1>3, <1>7, <1>9 DEF EntryAt

LEMMA BookProtected == EpubInv /\ BookInv => ProtectedNeverRead
<1> SUFFICES ASSUME EpubInv, BookInv PROVE ProtectedNeverRead
  OBVIOUS
<1>1. BookOK
  BY DEF EpubInv
<1>2. BookRead => Unprotected /\ ~AdobeProtected /\ ~KoboProtected
  BY DEF BookRead, BookInv, Unprotected, Late, Building
<1>3. BookRead => \A i \in Encryptions : i = Find(EncryptionXml) =>
        LET e == archive.entries[i] IN
          e.readable /\ (e.blank \/ (e.kind = "encryption" /\ e.algorithms \subseteq FontObfuscation))
  BY <1>1, <1>2, ReadUnencrypted
<1>4. ASSUME BookRead, Documents # {}, PlainHrefs, RightsFiles # {},
             \A i \in RightsFiles : ~archive.entries[i].empty
      PROVE  LET i == CHOOSE i \in Documents : \A j \in Documents : i <= j
                 e == heap[roCopy[SpinePlace(i)].resource].entry
             IN archive.entries[e].readable /\ archive.entries[e].markup
  <2>1. PICK k \in Documents : /\ \A j \in Documents : k <= j
                               /\ FirstSpineContentFile = Lookup(pkg.items[ItemRefItem(k)])
    BY <1>1, <1>4, DocumentsContents, ContentFacts
  <2>2. PICK i : i = CHOOSE n \in Documents : \A j \in Documents : n <= j
    OBVIOUS
  <2>3. i \in Documents /\ \A j \in Documents : i <= j
    BY <2>1, <2>2
  <2>4. Documents \subseteq Nat
    BY <1>1, PackageLists DEF Documents, Served
  <2>5. i = k
    BY <2>1, <2>3, <2>4
  <2>6. PICK e : e = heap[roCopy[SpinePlace(k)].resource].entry
    OBVIOUS
  <2>7. e = FirstSpineContentFile
    BY <1>4, <2>1, <2>6, ProbedIsServed DEF Documents
  <2>8. e # 0
    BY <1>1, <1>4, <2>1, <2>7, DocumentsContents DEF Contents, IsContent
  <2>9. FindRightsXml # 0 /\ ~archive.entries[FindRightsXml].empty
    BY <1>1, <1>4, RightsFacts
  <2>10. archive.entries[e].readable /\ archive.entries[e].markup
    BY <1>2, <1>4, <2>7, <2>8, <2>9 DEF KoboProtected
  <2> QED
    BY <2>2, <2>5, <2>6, <2>10
<1>5. err = "drm" => Encryptions # {} \/ \E i \in RightsFiles : ~archive.entries[i].empty
  BY <1>1, RefusedProtected DEF BookInv, Refusal
<1> QED
  BY <1>3, <1>4, <1>5 DEF ProtectedNeverRead, Encryptions, RightsFiles, Documents, PlainHrefs, SpinePlace

\* No book whose encryption.xml names a real cipher, or whose rights.xml goes
\* with an unreadable first document, is returned, and nothing else is refused
\* with ErrDRM (internal/epub/drm.go:34-45).
THEOREM ProtectedIsNeverRead == Spec => []ProtectedNeverRead
<1>1. Init => EpubInv /\ BookInv
  BY BookInit, BookInvInit
<1>2. EpubInv /\ BookInv /\ [Next]_vars => (EpubInv /\ BookInv)'
  BY EpubStep, BookStep
<1> QED
  BY <1>1, <1>2, BookProtected, PTL DEF Spec
-----------------------------------------------------------------------------
(* Metadata.  From ReadCover on it is that of the package, which the parser *)
(* left with lists of elements.                                             *)

MetaInv == archive.zip =>
  /\ phase \in {"adobe", "kobo"} \cup Late => IsMetadata(pkg.metadata)
  /\ phase \in Building => metadata = BookMetadata(pkg.metadata)

LEMMA MetaInit == Init => MetaInv
<1> SUFFICES ASSUME Init PROVE MetaInv
  OBVIOUS
<1>1. CASE InitRead
  BY <1>1 DEF InitRead, MetaInv, Late, Building
<1>2. CASE InitCall
  <2>1. archive.zip = FALSE
    BY <1>2 DEF InitCall, NoArchive
  <2> QED
    BY <2>1 DEF MetaInv
<1> QED
  BY <1>1, <1>2 DEF Init

\* A step that leaves package and metadata alone.
LEMMA MetaStays ==
  ASSUME MetaInv, UNCHANGED <<archive, pkg, metadata>>,
         phase' \in {"adobe", "kobo"} \cup Late => phase \in {"adobe", "kobo"} \cup Late,
         phase' \in Building => phase \in Building
  PROVE  MetaInv'
BY DEF MetaInv

LEMMA ReadPackageMeta == ASSUME EpubInv, ReadPackage PROVE MetaInv'
<1>1. phase = "ocf" /\ BookOK
  BY DEF ReadPackage, EpubInv
<1>2. CASE phase' = "failed"
  BY <1>2 DEF MetaInv, Late, Building
<1>3. CASE /\ Parses(PackagePath, "package") /\ Proceed("adobe")
           /\ pkg' = [Entry(PackagePath).package EXCEPT !.path = PackagePath]
  <2>1. PICK path : path = PackagePath
    OBVIOUS
  <2>2. IsList(archive.entries)
    BY <1>1 DEF BookOK, IsArchive
  <2>3. Find(path) \in DOMAIN archive.entries /\ Entry(path).kind = "package"
    BY <1>3, <2>1, <2>2, FindFacts DEF Parses
  <2>4. IsPackage(Entry(path).package) /\ IsMetadata(Entry(path).package.metadata)
    BY <1>1, <2>3 DEF BookOK, IsArchive, Entry
  <2>5. PICK q : q = Entry(path).package
    OBVIOUS
  <2>6. [q EXCEPT !.path = path].metadata = q.metadata
    BY <2>4, <2>5 DEF IsPackage
  <2>7. pkg'.metadata = q.metadata
    BY <1>3, <2>1, <2>5, <2>6
  <2>8. IsMetadata(pkg'.metadata)
    BY <2>4, <2>5, <2>7
  <2>9. phase' = "adobe"
    BY <1>3 DEF Proceed
  <2> QED
    BY <2>8, <2>9 DEF MetaInv, Building
<1> QED
  BY <1>2, <1>3 DEF ReadPackage, Fail

LEMMA MetaStep == EpubInv /\ MetaInv /\ [Next]_vars => MetaInv'
<1> SUFFICES ASSUME EpubInv, MetaInv, [Next]_vars PROVE MetaInv'
  OBVIOUS
<1>1. CASE OpenArchive
  BY <1>1 DEF OpenArchive, Fail, Proceed, MetaInv, Late, Building
<1>2. CASE CheckAdobeDRM
  BY <1>2, MetaStays DEF CheckAdobeDRM, Fail, Proceed, Late, Building
<1>3. CASE CheckKoboDRM
  BY <1>3, MetaStays DEF CheckKoboDRM, Fail, Proceed, Late, Building
<1>4. CASE AddItem \/ SkipItem
  BY <1>4, MetaStays DEF AddItem, SkipItem, AtItem
<1>5. CASE ReadSpine
  BY <1>5, MetaStays DEF ReadSpine, epubvars, Late, Building
<1>6. CASE ReadCover
  <2>1. /\ phase = "coverItem" /\ UNCHANGED <<archive, pkg>>
        /\ metadata' = BookMetadata(pkg.metadata)
    BY <1>6 DEF ReadCover
  <2>2. BookMetadata(pkg.metadata)' = BookMetadata(pkg.metadata)
    BY <2>1
  <2> QED
    BY <2>1, <2>2 DEF MetaInv, Late
<1>7. CASE NewResourceSet /\ UNCHANGED epubvars
  BY <1>7, BuildsLate, MetaStays DEF epubvars, Late
<1>8. CASE UNCHANGED vars
  BY <1>8, MetaStays DEF vars, setvars, epubvars
<1> QED
  BY <1>1, <1>2, <1>3, <1>4, <1>5, <1>6, <1>7, <1>8, ReadPackageMeta DEF Next, Read

\* Where a list is filtered by what its elements say.
Elements(s) == {s[i] : i \in DOMAIN s}

LEMMA SeqIsList ==
  ASSUME NEW A, NEW s \in Seq(A)
  PROVE  IsList(s) /\ Elements(s) \subseteq A
<1>1. Len(s) \in Nat /\ DOMAIN s = 1..Len(s) /\ \A i \in 1..Len(s) : s[i] \in A
  BY LenProperties, ElementOfSeq
<1>2. s = [i \in 1..Len(s) |-> s[i]]
  OBVIOUS
<1>3. s \in Seq({s[i] : i \in DOMAIN s})
  BY <1>1, <1>2
<1> QED
  BY <1>1, <1>3 DEF IsList, Elements

\* A list turned into another, element by element.
LEMMA MappedList ==
  ASSUME NEW s, IsList(s), NEW t, t = [i \in DOMAIN s |-> t[i]]
  PROVE  /\ IsList(t) /\ DOMAIN t = DOMAIN s /\ Len(t) = Len(s)
         /\ t = <<>> <=> s = <<>>
<1>1. Len(s) \in Nat /\ DOMAIN s = 1..Len(s) /\ s \in Seq({s[i] : i \in DOMAIN s})
  BY ListFacts
<1>2. t \in Seq({t[i] : i \in 1..Len(s)}) /\ Len(t) = Len(s) /\ DOMAIN t = DOMAIN s
  BY <1>1
<1>3. t = <<>> <=> Len(t) = 0
  BY <1>2, EmptySeq
<1>4. s = <<>> <=> Len(s) = 0
  BY <1>1, EmptySeq
<1> QED
  BY <1>2, <1>3, <1>4, SeqIsList

LEMMA JoinedLists ==
  ASSUME NEW s, NEW t, IsList(s), IsList(t)
  PROVE  /\ IsList(s \o t)
         /\ Elements(s \o t) \subseteq Elements(s) \cup Elements(t)
<1> DEFINE A == Elements(s) \cup Elements(t)
<1>1. s \in Seq(Elements(s)) /\ t \in Seq(Elements(t))
  BY ListFacts DEF Elements
<1>2. s \in Seq(A) /\ t \in Seq(A)
  <2>1. Elements(s) \subseteq A /\ Elements(t) \subseteq A
    OBVIOUS
  <2> HIDE DEF A
  <2> QED
    BY <1>1, <2>1
<1> HIDE DEF A
<1>3. s \o t \in Seq(A)
  BY <1>2, ConcatProperties
<1>4. IsList(s \o t) /\ Elements(s \o t) \subseteq A
  BY <1>3, SeqIsList
<1> QED
  BY <1>4 DEF A

\* First of a list and of two lists joined.
LEMMA FirstFacts ==
  ASSUME NEW s, IsList(s)
  PROVE  /\ s = <<>> => First(s) = ""
         /\ s # <<>> => 1 \in DOMAIN s /\ First(s) = s[1]
<1>1. s \in Seq({s[i] : i \in DOMAIN s}) /\ DOMAIN s = 1..Len(s)
  BY ListFacts
<1>2. ASSUME s # <<>> PROVE 1 \in 1..Len(s) /\ Head(s) = s[1]
  BY <1>1, <1>2, HeadIsFirst
<1> QED
  BY <1>1, <1>2 DEF First

LEMMA FirstOfJoined ==
  ASSUME NEW s, NEW t, IsList(s), IsList(t)
  PROVE  First(s \o t) = IF s # <<>> THEN First(s) ELSE First(t)
<1> DEFINE A == Elements(s) \cup Elements(t)
<1>1. s \in Seq(Elements(s)) /\ t \in Seq(Elements(t))
  BY ListFacts DEF Elements
<1>2. s \in Seq(A) /\ t \in Seq(A)
  <2>1. Elements(s) \subseteq A /\ Elements(t) \subseteq A
    OBVIOUS
  <2> HIDE DEF A
  <2> QED
    BY <1>1, <2>1
<1> HIDE DEF A
<1>3. CASE s = <<>>
  BY <1>2, <1>3, ConcatEmptySeq
<1>4. CASE s # <<>>
  <2>1. 1 \in 1..Len(s) /\ Len(s) \in Nat /\ Len(t) \in Nat
    BY <1>2, <1>4, HeadIsFirst, LenProperties
  <2>2. Len(s \o t) = Len(s) + Len(t) /\ (s \o t)[1] = s[1]
    BY <1>2, <2>1, ConcatProperties
  <2>3. s \o t # <<>>
    <3>1. Len(s \o t) # 0
      BY <2>1, <2>2
    <3> QED
      BY <3>1, EmptySeq
  <2>4. First(s \o t) = (s \o t)[1] /\ First(s) = s[1]
    BY <1>4, <2>3, FirstFacts, JoinedLists
  <2> QED
    BY <1>4, <2>2, <2>4
<1> QED
  BY <1>3, <1>4

LEMMA FilterFacts ==
  ASSUME NEW s, IsList(s), NEW P, NEW I, I = {i \in DOMAIN s : s[i] \in P}
  PROVE  /\ IsList(s) /\ s \in Seq(Elements(s)) /\ DOMAIN s = 1..Len(s) /\ Len(s) \in Nat
         /\ I = Hits(s, P, Len(s))
         /\ Chosen(s, P) = <<>> <=> I = {}
         /\ I # {} => \E i \in I : /\ \A j \in I : i <= j
                                   /\ Chosen(s, P) # <<>> /\ Chosen(s, P)[1] = s[i]
<1>1. s \in Seq(Elements(s)) /\ DOMAIN s = 1..Len(s) /\ Len(s) \in Nat
  BY ListFacts DEF Elements
<1>2. I = Hits(s, P, Len(s))
  BY <1>1 DEF Hits
<1>3. /\ Chosen(s, P) = <<>> <=> I = {}
      /\ \A i \in I : (\A j \in I : i <= j) => Chosen(s, P) # <<>> /\ Chosen(s, P)[1] = s[i]
  BY <1>1, <1>2, ChosenFirst
<1>4. I \in SUBSET Nat
  BY <1>1
<1>5. I # {} => \E i \in I : \A j \in I : i <= j
  BY <1>4, LeastMember
<1> QED
  BY <1>1, <1>2, <1>3, <1>5

\* c is what is kept of a list, and this comes first of it.
KeepsFirst(c, s, I) ==
  /\ Keeps(c, s, I) /\ IsList(c) /\ (c = <<>> <=> I = {})
  /\ I # {} => /\ Min(I) \in I /\ \A j \in I : Min(I) <= j
               /\ 1 \in DOMAIN c /\ c[1] = s[Min(I)]

LEMMA KeptFacts ==
  ASSUME NEW s, IsList(s), NEW P, NEW I, I = {i \in DOMAIN s : s[i] \in P}
  PROVE  KeepsFirst(Chosen(s, P), s, I)
<1> DEFINE c == Chosen(s, P)
<1>1. /\ s \in Seq(Elements(s)) /\ DOMAIN s = 1..Len(s) /\ Len(s) \in Nat
      /\ I = Hits(s, P, Len(s))
      /\ c = <<>> <=> I = {}
      /\ I # {} => \E i \in I : (\A j \in I : i <= j) /\ c # <<>> /\ c[1] = s[i]
  BY FilterFacts
<1>2. IsList(c)
  BY <1>1, ChosenList, SeqIsList
<1>3. /\ Len(c) = Cardinality(Hits(s, P, Len(s)))
      /\ \A i \in Hits(s, P, Len(s)) : c[Cardinality(Hits(s, P, i))] = s[i]
  BY <1>1, ChosenPlaces
<1>4. ASSUME NEW i \in I PROVE {j \in I : j <= i} = Hits(s, P, i)
  <2>1. i \in 1..Len(s)
    BY <1>1
  <2> QED
    BY <1>1, <2>1 DEF Hits
<1> HIDE DEF c
<1>5. Keeps(c, s, I)
  BY <1>1, <1>3, <1>4 DEF Keeps
<1>6. ASSUME I # {}
      PROVE  Min(I) \in I /\ (\A j \in I : Min(I) <= j) /\ 1 \in DOMAIN c /\ c[1] = s[Min(I)]
  <2>1. I \subseteq 1..Len(s) /\ I \subseteq Nat
    BY <1>1
  <2>2. Min(I) \in I /\ \A j \in I : Min(I) <= j
    BY <1>1, <1>6, <2>1, FirstOf
  <2>3. PICK i \in I : (\A j \in I : i <= j) /\ c # <<>> /\ c[1] = s[i]
    BY <1>1, <1>6
  <2>4. i = Min(I)
    <3>1. i \in Nat /\ Min(I) \in Nat /\ i <= Min(I) /\ Min(I) <= i
      BY <2>1, <2>2, <2>3
    <3> QED
      BY <3>1
  <2>5. 1 \in DOMAIN c
    BY <1>2, <2>3, FirstFacts
  <2> QED
    BY <2>2, <2>3, <2>4, <2>5
<1> QED
  BY <1>1, <1>2, <1>5, <1>6 DEF c, KeepsFirst

\* The same of a list of texts, when the blank ones are left out.
LEMMA NonEmptyFacts ==
  ASSUME NEW texts, IsList(texts)
  PROVE  /\ Keeps(NonEmpty(texts), Words(texts), Filled(texts))
         /\ NonEmpty(texts) = <<>> <=> Filled(texts) = {}
         /\ Filled(texts) = {} => FirstNonEmpty(texts) = ""
         /\ Filled(texts) # {} => /\ FirstNonEmpty(texts) = Trim(texts[Min(Filled(texts))])
                                  /\ FirstNonEmpty(texts) # ""
<1> DEFINE t == Words(texts)
           P == {w \in Elements(t) : NotBlank(w)}
           c == Chosen(t, P)
           I == Filled(texts)
<1>1. t = [i \in DOMAIN texts |-> Trim(texts[i])]
  BY DEF Words
<1>2. NonEmpty(texts) = c
  BY DEF NonEmpty, Where, Elements
<1>3. I = {i \in DOMAIN t : t[i] \in P}
  BY DEF Filled, Words, Elements, NotBlank
<1>4. IsList(t)
  <2>1. t = [i \in DOMAIN texts |-> t[i]]
    BY <1>1
  <2> HIDE DEF t
  <2> QED
    BY <2>1, MappedList
<1> HIDE DEF t, P, I
<1>5. /\ Keeps(c, t, I) /\ IsList(c) /\ (c = <<>> <=> I = {})
      /\ I # {} => Min(I) \in I /\ 1 \in DOMAIN c /\ c[1] = t[Min(I)]
  <2>1. KeepsFirst(c, t, I)
    BY <1>3, <1>4, KeptFacts
  <2> HIDE DEF c
  <2> QED
    BY <2>1 DEF KeepsFirst
<1> HIDE DEF c
<1>6. FirstNonEmpty(texts) = First(c)
  BY <1>2 DEF FirstNonEmpty
<1>7. c # <<>> => First(c) = c[1]
  BY <1>5, FirstFacts
<1>8. c = <<>> => First(c) = ""
  BY <1>5, FirstFacts
<1>9. \A i \in I : t[i] = Trim(texts[i]) /\ t[i] # ""
  BY <1>1 DEF I, Filled
<1> QED
  BY <1>2, <1>5, <1>6, <1>7, <1>8, <1>9 DEF t, I

-----------------------------------------------------------------------------
(* Title, description, publisher, subjects, languages *)

\* The lists of a group, and the subjects of both, one after the other.
LEMMA GroupLists ==
  ASSUME NEW m, IsMetadata(m)
  PROVE  /\ IsList(m.direct.creators) /\ IsList(m.wrapped.creators)
         /\ IsList(m.direct.titles) /\ IsList(m.wrapped.titles)
         /\ IsList(m.direct.descriptions) /\ IsList(m.wrapped.descriptions)
         /\ IsList(m.direct.publishers) /\ IsList(m.wrapped.publishers)
         /\ IsList(m.direct.languages) /\ IsList(m.wrapped.languages) /\ IsList(m.capitals)
         /\ IsList(FlattenSeq(m.direct.subjects \o m.wrapped.subjects))
<1>1. IsGroup(m.direct) /\ IsGroup(m.wrapped) /\ IsList(m.capitals)
  BY DEF IsMetadata
<1>2. ASSUME NEW g, IsGroup(g)
      PROVE  /\ IsList(g.creators) /\ IsList(g.titles) /\ IsList(g.descriptions)
             /\ IsList(g.publishers) /\ IsList(g.languages) /\ IsList(g.subjects)
             /\ \A s \in Elements(g.subjects) : IsList(s)
  BY <1>2 DEF IsGroup, Elements
<1>3. PICK ss : ss = m.direct.subjects \o m.wrapped.subjects
  OBVIOUS
<1>4. IsList(ss) /\ \A s \in Elements(ss) : IsList(s)
  <2>1. /\ IsList(m.direct.subjects) /\ IsList(m.wrapped.subjects)
        /\ \A s \in Elements(m.direct.subjects) \cup Elements(m.wrapped.subjects) : IsList(s)
    BY <1>1, <1>2
  <2>2. IsList(ss) /\ Elements(ss) \subseteq Elements(m.direct.subjects) \cup Elements(m.wrapped.subjects)
    BY <1>3, <2>1, JoinedLists
  <2> QED
    BY <2>1, <2>2
<1> DEFINE A == UNION {Elements(s) : s \in Elements(ss)}
<1>5. \A s \in Elements(ss) : s \in Seq(A)
  <2> SUFFICES ASSUME NEW s \in Elements(ss) PROVE s \in Seq(A)
    OBVIOUS
  <2>1. s \in Seq(Elements(s)) /\ Elements(s) \subseteq A
    BY <1>4, ListFacts DEF Elements
  <2> HIDE DEF A
  <2> QED
    BY <2>1
<1> HIDE DEF A
<1>6. ss \in Seq(Seq(A))
  <2>1. ss \in Seq(Elements(ss)) /\ Elements(ss) \subseteq Seq(A)
    BY <1>4, <1>5, ListFacts DEF Elements
  <2> QED
    BY <2>1
<1>7. IsList(FlattenSeq(ss))
  BY <1>6, FlattenList, SeqIsList
<1> QED
  BY <1>1, <1>2, <1>3, <1>7

\* The first text of two lists, one before the other.
FirstOfTwo(s, t) ==
  IF Filled(s) # {} THEN Trim(s[Min(Filled(s))])
  ELSE IF Filled(t) # {} THEN Trim(t[Min(Filled(t))]) ELSE ""

LEMMA FirstOfTwoFacts ==
  ASSUME NEW s, NEW t, IsList(s), IsList(t)
  PROVE  OrElse(FirstNonEmpty(s), FirstNonEmpty(t)) = FirstOfTwo(s, t)
<1>1. /\ Filled(s) = {} => FirstNonEmpty(s) = ""
      /\ Filled(s) # {} => FirstNonEmpty(s) = Trim(s[Min(Filled(s))]) /\ FirstNonEmpty(s) # ""
  BY NonEmptyFacts
<1>2. /\ Filled(t) = {} => FirstNonEmpty(t) = ""
      /\ Filled(t) # {} => FirstNonEmpty(t) = Trim(t[Min(Filled(t))])
  BY NonEmptyFacts
<1>3. CASE Filled(s) # {}
  BY <1>1, <1>3 DEF OrElse, FirstOfTwo
<1>4. CASE Filled(s) = {}
  BY <1>1, <1>2, <1>4 DEF OrElse, FirstOfTwo
<1> QED
  BY <1>3, <1>4

LEMMA TitleFacts ==
  ASSUME NEW m, IsMetadata(m)
  PROVE  LET titles == IF m.direct.titles # <<>> THEN m.direct.titles ELSE m.wrapped.titles
         IN Title(m) = IF titles = <<>> THEN "" ELSE Trim(titles[1])
<1> DEFINE titles == IF m.direct.titles # <<>> THEN m.direct.titles ELSE m.wrapped.titles
           w == Words(titles)
<1>1. Title(m) = First(w) /\ IsList(titles)
  BY GroupLists DEF Title, FirstGroup
<1> HIDE DEF titles
<1>2. w = [i \in DOMAIN titles |-> Trim(titles[i])]
  BY DEF Words
<1>3. w = [i \in DOMAIN titles |-> w[i]]
  BY <1>2
<1> HIDE DEF w
<1>4. IsList(w) /\ DOMAIN w = DOMAIN titles /\ (w = <<>> <=> titles = <<>>)
  BY <1>1, <1>3, MappedList
<1>5. CASE titles = <<>>
  BY <1>1, <1>4, <1>5, FirstFacts DEF titles
<1>6. CASE titles # <<>>
  <2>1. 1 \in DOMAIN w /\ First(w) = w[1]
    BY <1>4, <1>6, FirstFacts
  <2>2. w[1] = Trim(titles[1])
    BY <1>2, <1>4, <2>1
  <2> QED
    BY <1>1, <1>6, <2>1, <2>2 DEF titles
<1> QED
  BY <1>5, <1>6

LEMMA TextsRight ==
  ASSUME NEW m, IsMetadata(m), metadata = BookMetadata(m)
  PROVE  TextsFaithful(m)
<1> DEFINE titles == IF m.direct.titles # <<>> THEN m.direct.titles ELSE m.wrapped.titles
           subjects == FlattenSeq(m.direct.subjects \o m.wrapped.subjects)
           languages == IF Filled(m.direct.languages) # {} THEN m.direct.languages
                        ELSE IF Filled(m.wrapped.languages) # {} THEN m.wrapped.languages ELSE m.capitals
<1>1. /\ metadata.title = Title(m) /\ metadata.description = Description(m)
      /\ metadata.publisher = Publisher(m) /\ metadata.subjects = Subjects(m)
      /\ metadata.languages = Languages(m)
  BY DEF BookMetadata
<1>2. Title(m) = IF titles = <<>> THEN "" ELSE Trim(titles[1])
  BY TitleFacts
<1>3. Description(m) = FirstOfTwo(m.direct.descriptions, m.wrapped.descriptions)
  BY GroupLists, FirstOfTwoFacts DEF Description
<1>4. Publisher(m) = FirstOfTwo(m.direct.publishers, m.wrapped.publishers)
  BY GroupLists, FirstOfTwoFacts DEF Publisher
<1>5. Keeps(Subjects(m), Words(subjects), Filled(subjects))
  BY GroupLists, NonEmptyFacts DEF Subjects
<1>6. Keeps(Languages(m), Words(languages), Filled(languages))
  <2>1. Languages(m) = NonEmpty(languages)
    <3>1. /\ NonEmpty(m.direct.languages) = <<>> <=> Filled(m.direct.languages) = {}
          /\ NonEmpty(m.wrapped.languages) = <<>> <=> Filled(m.wrapped.languages) = {}
      BY GroupLists, NonEmptyFacts
    <3> QED
      BY <3>1 DEF Languages, FirstGroup
  <2>2. IsList(languages)
    BY GroupLists
  <2> QED
    BY <2>1, <2>2, NonEmptyFacts
<1>7. /\ metadata.description = FirstOfTwo(m.direct.descriptions, m.wrapped.descriptions)
      /\ metadata.publisher = FirstOfTwo(m.direct.publishers, m.wrapped.publishers)
  BY <1>1, <1>3, <1>4
<1> QED
  BY <1>1, <1>2, <1>5, <1>6, <1>7 DEF TextsFaithful, FirstOfTwo

-----------------------------------------------------------------------------
(* Date *)

LEMMA GroupFacts ==
  ASSUME NEW m, IsMetadata(m)
  PROVE  /\ IsList(Dates(m)) /\ IsList(Metas(m)) /\ IsList(Declared(m))
         /\ \A i \in DOMAIN Dates(m) : Trim(Dates(m)[i].event) \in DOMAIN Lower
<1>1. IsGroup(m.direct) /\ IsGroup(m.wrapped)
  BY DEF IsMetadata
<1>2. ASSUME NEW g, IsGroup(g)
      PROVE  /\ IsList(g.dates) /\ IsList(g.identifiers) /\ IsList(g.sources)
             /\ \A d \in Elements(g.dates) : Trim(d.event) \in DOMAIN Lower
  BY <1>2 DEF IsGroup, Elements
<1>3. IsList(Dates(m)) /\ Elements(Dates(m)) \subseteq Elements(m.direct.dates) \cup Elements(m.wrapped.dates)
  BY <1>1, <1>2, JoinedLists DEF Dates
<1>4. IsList(Metas(m))
  BY JoinedLists DEF IsMetadata, Metas
<1>5. IsList(Declared(m))
  <2>1. IsList(m.direct.identifiers \o m.wrapped.identifiers)
    BY <1>1, <1>2, JoinedLists
  <2>2. IsList((m.direct.identifiers \o m.wrapped.identifiers) \o m.direct.sources)
    BY <1>1, <1>2, <2>1, JoinedLists
  <2>3. IsList(((m.direct.identifiers \o m.wrapped.identifiers) \o m.direct.sources) \o m.wrapped.sources)
    BY <1>1, <1>2, <2>2, JoinedLists
  <2> QED
    BY <2>3 DEF Declared
<1>6. \A i \in DOMAIN Dates(m) : Trim(Dates(m)[i].event) \in DOMAIN Lower
  <2>1. \A d \in Elements(Dates(m)) : Trim(d.event) \in DOMAIN Lower
    BY <1>1, <1>2, <1>3
  <2> QED
    BY <2>1 DEF Elements
<1> QED
  BY <1>3, <1>4, <1>5, <1>6

\* v are the dates of ds in P, which stand at the positions in I.
DatesOf(ds, P, I, v) ==
  /\ I = {i \in DOMAIN ds : ds[i] \in P}
  /\ v = [i \in DOMAIN Chosen(ds, P) |-> Trim(Chosen(ds, P)[i].value)]

\* What a date list yields first, and where it stood.
LEMMA FirstDate ==
  ASSUME NEW ds, IsList(ds), NEW P, NEW I, NEW v, DatesOf(ds, P, I, v)
  PROVE  /\ IsList(v) /\ (v = <<>> <=> I = {})
         /\ I # {} => \E i \in I : First(v) = Trim(ds[i].value) /\ \A j \in I : i <= j
<1> DEFINE c == Chosen(ds, P)
<1>1. I = {i \in DOMAIN ds : ds[i] \in P}
  BY DEF DatesOf
<1>2. /\ ds \in Seq(Elements(ds))
      /\ c = <<>> <=> I = {}
      /\ I # {} => \E i \in I : (\A j \in I : i <= j) /\ c # <<>> /\ c[1] = ds[i]
  BY <1>1, FilterFacts
<1>3. IsList(c)
  BY <1>2, ChosenList, SeqIsList
<1> HIDE DEF c
<1>4. v = [i \in DOMAIN c |-> Trim(c[i].value)]
  BY DEF c, DatesOf
<1>5. IsList(v) /\ DOMAIN v = DOMAIN c /\ (v = <<>> <=> c = <<>>)
  BY <1>3, <1>4, MappedList
<1>6. ASSUME I # {} PROVE \E i \in I : First(v) = Trim(ds[i].value) /\ \A j \in I : i <= j
  <2>1. PICK i \in I : (\A j \in I : i <= j) /\ c # <<>> /\ c[1] = ds[i]
    BY <1>2, <1>6
  <2>2. First(v) = v[1] /\ 1 \in DOMAIN v
    BY <1>5, <2>1, FirstFacts
  <2>3. v[1] = Trim(c[1].value)
    BY <1>4, <1>5, <2>2
  <2> QED
    BY <2>1, <2>2, <2>3
<1> QED
  BY <1>2, <1>5, <1>6

LEMMA DateRight ==
  ASSUME NEW m, IsMetadata(m), metadata = BookMetadata(m)
  PROVE  DateFaithful(m)
<1> DEFINE ds == Dates(m)
           Event(i) == Lower[Trim(ds[i].event)]
           Published(d)  == Trim(d.value) # "" /\ Folds(d.event, "publication")
           Undeclared(d) == Trim(d.value) # "" /\ Trim(d.event) = ""
           P == {d \in Elements(ds) : Published(d)}
           Q == {d \in Elements(ds) : Undeclared(d)}
           I == {i \in DOMAIN ds : ds[i] \in P}
           J == {i \in DOMAIN ds : ds[i] \in Q}
           v == [i \in DOMAIN Chosen(ds, P) |-> Trim(Chosen(ds, P)[i].value)]
           w == [i \in DOMAIN Chosen(ds, Q) |-> Trim(Chosen(ds, Q)[i].value)]
<1>1. metadata.publicationDate = First(v \o w)
  BY DEF BookMetadata, PublicationDate, Where, Elements
<1>2. IsList(ds) /\ \A i \in DOMAIN ds : Trim(ds[i].event) \in DOMAIN Lower
  BY GroupFacts
<1>3. {i \in {i \in DOMAIN ds : Trim(ds[i].value) # ""} : Event(i) = "publication"} = I
  BY DEF Elements, Folds
<1>4. {i \in {i \in DOMAIN ds : Trim(ds[i].value) # ""} : Event(i) = ""} = J
  BY <1>2, LowerAssumption DEF Elements
<1>5. DateFaithful(m) <=>
        LET best == IF I # {} THEN I ELSE J IN
          IF best = {} THEN metadata.publicationDate = ""
          ELSE \E i \in best : /\ metadata.publicationDate = Trim(ds[i].value)
                               /\ \A j \in best : i <= j
  BY <1>3, <1>4 DEF DateFaithful
<1> HIDE DEF ds, P, Q
<1>6. DatesOf(ds, P, I, v) /\ DatesOf(ds, Q, J, w)
  BY DEF DatesOf
<1> HIDE DEF I, J, v, w
<1>7. /\ IsList(v) /\ (v = <<>> <=> I = {})
      /\ I # {} => \E i \in I : First(v) = Trim(ds[i].value) /\ \A j \in I : i <= j
  BY <1>2, <1>6, FirstDate
<1>8. /\ IsList(w) /\ (w = <<>> <=> J = {})
      /\ J # {} => \E i \in J : First(w) = Trim(ds[i].value) /\ \A j \in J : i <= j
  BY <1>2, <1>6, FirstDate
<1>9. First(v \o w) = IF v # <<>> THEN First(v) ELSE First(w)
  BY <1>7, <1>8, FirstOfJoined
<1>10. w = <<>> => First(w) = ""
  BY <1>8, FirstFacts
<1> QED
  BY <1>1, <1>5, <1>7, <1>8, <1>9, <1>10


-----------------------------------------------------------------------------
(* Series *)

\* The metas that refine id by property.
Refining(metas, id, property) ==
  {r \in DOMAIN metas : /\ Folds(metas[r].property, property) /\ Trim(metas[r].refines) = id
                        /\ Trim(metas[r].value) # ""}

LEMMA RefinementFacts ==
  ASSUME NEW metas, IsList(metas), NEW id, NEW property
  PROVE  /\ Refining(metas, id, property) = {} => RefinementValue(metas, id, property) = ""
         /\ Refining(metas, id, property) # {} =>
              \E r \in Refining(metas, id, property) :
                /\ \A q \in Refining(metas, id, property) : r <= q
                /\ RefinementValue(metas, id, property) = Trim(metas[r].value)
<1> DEFINE Refines(r) == Folds(r.property, property) /\ Trim(r.refines) = id /\ Trim(r.value) # ""
           P == {r \in Elements(metas) : Refines(r)}
           I == Refining(metas, id, property)
           c == Chosen(metas, P)
<1>1. RefinementValue(metas, id, property) = IF c = <<>> THEN "" ELSE Trim(c[1].value)
  BY DEF RefinementValue, Where, Elements
<1>2. I = {i \in DOMAIN metas : metas[i] \in P}
  BY DEF Refining, Elements
<1> HIDE DEF P, I
<1>3. /\ c = <<>> <=> I = {}
      /\ I # {} => \E i \in I : (\A j \in I : i <= j) /\ c # <<>> /\ c[1] = metas[i]
  BY <1>2, FilterFacts
<1> QED
  BY <1>1, <1>3 DEF I

\* The metas declared as series, and the first that gives one its property.
SeriesAt(metas) ==
  {i \in DOMAIN metas :
     /\ Trim(metas[i].id) # "" /\ Folds(metas[i].property, "belongs-to-collection")
     /\ Trim(metas[i].value) # ""
     /\ RefinementValue(metas, Trim(metas[i].id), "collection-type") = "series"}

\* What the first of calibre's metas of that name that are not blank holds.
CalibreAt(metas, n) ==
  {i \in DOMAIN metas : Trim(metas[i].name) = n /\ Trim(metas[i].content) # ""}
ContentOf(metas, n) ==
  IF CalibreAt(metas, n) = {} THEN "" ELSE Trim(metas[Min(CalibreAt(metas, n))].content)

LEMMA CalibreFacts ==
  ASSUME NEW metas, IsList(metas), NEW n
  PROVE  First(NamedContents(metas, n)) = ContentOf(metas, n)
<1> DEFINE Q == {c \in Elements(metas) : Trim(c.name) = n /\ Trim(c.content) # ""}
           I == CalibreAt(metas, n)
           c == Chosen(metas, Q)
           v == [i \in DOMAIN c |-> Trim(c[i].content)]
<1>1. NamedContents(metas, n) = v
  BY DEF NamedContents, Where, Elements
<1>2. I = {i \in DOMAIN metas : metas[i] \in Q}
  BY DEF CalibreAt, Elements
<1> HIDE DEF Q, I
<1>3. /\ IsList(c) /\ (c = <<>> <=> I = {})
      /\ I # {} => 1 \in DOMAIN c /\ c[1] = metas[Min(I)]
  <2>1. KeepsFirst(c, metas, I)
    BY <1>2, KeptFacts
  <2> HIDE DEF c
  <2> QED
    BY <2>1 DEF KeepsFirst
<1>4. v = [i \in DOMAIN c |-> v[i]] /\ \A i \in DOMAIN c : v[i] = Trim(c[i].content)
  OBVIOUS
<1> HIDE DEF c, v
<1>5. IsList(v) /\ (v = <<>> <=> c = <<>>)
  BY <1>3, <1>4, MappedList
<1>6. /\ v = <<>> => First(v) = ""
      /\ v # <<>> => First(v) = v[1]
  BY <1>5, FirstFacts
<1>7. CASE I = {}
  BY <1>1, <1>3, <1>5, <1>6, <1>7 DEF I, ContentOf
<1>8. CASE I # {}
  <2>1. First(v) = Trim(metas[Min(I)].content)
    BY <1>3, <1>4, <1>5, <1>6, <1>8
  <2> QED
    BY <1>1, <1>8, <2>1 DEF I, ContentOf
<1> QED
  BY <1>7, <1>8

LEMMA SeriesFacts ==
  ASSUME NEW m, IsList(Metas(m))
  PROVE  LET metas == Metas(m)  I == SeriesAt(metas)  got == Series(m) IN
         /\ I # {} => \E i \in I :
              /\ \A j \in I : i <= j
              /\ got.name = Trim(metas[i].value)
              /\ got.index = RefinementValue(metas, Trim(metas[i].id), "group-position")
         /\ I = {} => got.name = ContentOf(metas, "calibre:series")
         /\ I = {} /\ got.name # "" => got.index = ContentOf(metas, "calibre:series_index")
         /\ I = {} /\ got.name = "" => got.index = ""
<1> DEFINE metas == Metas(m)
           I == SeriesAt(metas)
           IsSeries(c) == /\ Trim(c.id) # "" /\ Folds(c.property, "belongs-to-collection")
                          /\ Trim(c.value) # ""
                          /\ RefinementValue(metas, Trim(c.id), "collection-type") = "series"
           P == {c \in Elements(metas) : IsSeries(c)}
           found == Chosen(metas, P)
           name == First(NamedContents(metas, "calibre:series"))
           position == First(NamedContents(metas, "calibre:series_index"))
           number == IF name = "" THEN "" ELSE position
<1>1. Series(m) = IF found # <<>>
                  THEN [name |-> Trim(found[1].value),
                        index |-> RefinementValue(metas, Trim(found[1].id), "group-position")]
                  ELSE [name |-> name, index |-> number]
  BY DEF Series, Where, Elements
<1>2. I = {i \in DOMAIN metas : metas[i] \in P}
  BY DEF SeriesAt, Elements
<1>3. IsList(metas)
  OBVIOUS
<1> HIDE DEF P, I, metas
<1>4. /\ found = <<>> <=> I = {}
      /\ I # {} => \E i \in I : (\A j \in I : i <= j) /\ found # <<>> /\ found[1] = metas[i]
  BY <1>2, <1>3, FilterFacts
<1>5. name = ContentOf(metas, "calibre:series") /\ position = ContentOf(metas, "calibre:series_index")
  BY <1>3, CalibreFacts
<1>6. /\ name = "" => number = ""
      /\ name # "" => number = position
  OBVIOUS
<1> HIDE DEF found, name, position, number
<1>7. CASE I # {}
  <2>1. PICK i \in I : (\A j \in I : i <= j) /\ found # <<>> /\ found[1] = metas[i]
    BY <1>4, <1>7
  <2>2. /\ Series(m).name = Trim(metas[i].value)
        /\ Series(m).index = RefinementValue(metas, Trim(metas[i].id), "group-position")
    BY <1>1, <2>1
  <2> QED
    BY <1>7, <2>1, <2>2 DEF metas, I
<1>8. CASE I = {}
  <2>1. Series(m) = [name |-> name, index |-> number]
    BY <1>1, <1>4, <1>8
  <2>2. Series(m).name = name /\ Series(m).index = number
    BY <2>1
  <2> QED
    BY <1>5, <1>6, <1>8, <2>2 DEF metas, I
<1> QED
  BY <1>7, <1>8 DEF metas, I

\* The first meta that refines id by property.
FirstRefining(metas, id, property) ==
  {r \in Refining(metas, id, property) : \A q \in Refining(metas, id, property) : r <= q}

LEMMA FirstRefiningFacts ==
  ASSUME NEW metas, IsList(metas), NEW id, NEW property
  PROVE  /\ FirstRefining(metas, id, property) = {} => RefinementValue(metas, id, property) = ""
         /\ \A r \in FirstRefining(metas, id, property) :
              RefinementValue(metas, id, property) = Trim(metas[r].value)
<1> DEFINE R == Refining(metas, id, property)
           F == FirstRefining(metas, id, property)
           value == RefinementValue(metas, id, property)
<1>1. R \subseteq Nat
  <2>1. R \subseteq DOMAIN metas
    BY DEF Refining
  <2>2. DOMAIN metas \subseteq Nat
    BY ListFacts
  <2> QED
    BY <2>1, <2>2
<1>2. F = {r \in R : \A q \in R : r <= q}
  BY DEF FirstRefining
<1>3. /\ R = {} => value = ""
      /\ R # {} => \E r \in R : (\A q \in R : r <= q) /\ value = Trim(metas[r].value)
  BY RefinementFacts
<1> HIDE DEF R, F, value
<1>4. R # {} => F # {}
  BY <1>2, <1>3
<1>5. ASSUME NEW r \in F PROVE value = Trim(metas[r].value)
  <2>1. PICK q \in R : (\A p \in R : q <= p) /\ value = Trim(metas[q].value)
    BY <1>2, <1>3
  <2>2. r \in R /\ r <= q /\ q <= r
    BY <1>2, <2>1
  <2>3. q = r
    BY <1>1, <2>1, <2>2
  <2> QED
    BY <2>1, <2>3
<1> QED
  BY <1>3, <1>4, <1>5 DEF F, value

LEMMA SeriesRight ==
  ASSUME NEW m, IsMetadata(m), metadata = BookMetadata(m)
  PROVE  SeriesFaithful(m)
<1> DEFINE metas == Metas(m)
           refines(r, i, p) == /\ Trim(metas[r].refines) = Trim(metas[i].id)
                               /\ Lower[Trim(metas[r].property)] = p /\ Trim(metas[r].value) # ""
           first(i, p) == {r \in DOMAIN metas : refines(r, i, p) /\ \A q \in 1..r - 1 : ~refines(q, i, p)}
           series == {i \in DOMAIN metas :
                       /\ Lower[Trim(metas[i].property)] = "belongs-to-collection"
                       /\ Trim(metas[i].id) # "" /\ Trim(metas[i].value) # ""
                       /\ \E r \in first(i, "collection-type") : Trim(metas[r].value) = "series"}
           calibre(n) == {i \in DOMAIN metas : Trim(metas[i].name) = n /\ Trim(metas[i].content) # ""}
           content(n) == IF calibre(n) = {} THEN "" ELSE Trim(metas[Min(calibre(n))].content)
           got == metadata.series
<1>1. IsList(metas) /\ DOMAIN metas = 1..Len(metas) /\ Len(metas) \in Nat
  BY GroupFacts, ListFacts
<1>2. got = Series(m)
  BY DEF BookMetadata
<1>3. ASSUME NEW i \in DOMAIN metas, NEW p
      PROVE  first(i, p) = FirstRefining(metas, Trim(metas[i].id), p)
  <2> DEFINE R == Refining(metas, Trim(metas[i].id), p)
  <2>1. \A r \in DOMAIN metas : r \in R <=> refines(r, i, p)
    BY DEF Refining, Folds
  <2>2. R \subseteq DOMAIN metas
    BY DEF Refining
  <2>3. FirstRefining(metas, Trim(metas[i].id), p) = {r \in R : \A q \in R : r <= q}
    BY DEF FirstRefining
  <2> HIDE DEF R, refines, metas
  <2>4. ASSUME NEW r \in DOMAIN metas
        PROVE  refines(r, i, p) /\ (\A q \in 1..r - 1 : ~refines(q, i, p))
               <=> r \in R /\ \A q \in R : r <= q
    <3>1. \A q \in 1..r - 1 : q \in DOMAIN metas /\ ~(r <= q)
      BY <1>1
    <3>2. \A q \in DOMAIN metas : r <= q \/ q \in 1..r - 1
      BY <1>1
    <3> QED
      BY <2>1, <2>2, <3>1, <3>2
  <2> QED
    BY <2>2, <2>3, <2>4
<1>4. \A i \in DOMAIN metas : \A p :
        /\ first(i, p) = {} => RefinementValue(metas, Trim(metas[i].id), p) = ""
        /\ \A r \in first(i, p) : RefinementValue(metas, Trim(metas[i].id), p) = Trim(metas[r].value)
  <2> SUFFICES ASSUME NEW i \in DOMAIN metas, NEW p
               PROVE  LET value == RefinementValue(metas, Trim(metas[i].id), p) IN
                      /\ first(i, p) = {} => value = ""
                      /\ \A r \in first(i, p) : value = Trim(metas[r].value)
    OBVIOUS
  <2>1. first(i, p) = FirstRefining(metas, Trim(metas[i].id), p)
    BY <1>3
  <2> HIDE DEF first, metas
  <2>2. PICK id : id = Trim(metas[i].id)
    OBVIOUS
  <2>3. /\ FirstRefining(metas, id, p) = {} => RefinementValue(metas, id, p) = ""
        /\ \A r \in FirstRefining(metas, id, p) : RefinementValue(metas, id, p) = Trim(metas[r].value)
    BY <1>1, FirstRefiningFacts
  <2> QED
    BY <2>1, <2>2, <2>3
<1> HIDE DEF first
<1>5. series = SeriesAt(metas)
  <2> HIDE DEF metas
  <2>1. ASSUME NEW i \in DOMAIN metas
        PROVE  (\E r \in first(i, "collection-type") : Trim(metas[r].value) = "series")
               <=> RefinementValue(metas, Trim(metas[i].id), "collection-type") = "series"
    BY <1>4
  <2> QED
    BY <2>1 DEF SeriesAt, Folds
<1>6. /\ series # {} => \E i \in series :
            /\ \A j \in series : i <= j
            /\ got.name = Trim(metas[i].value)
            /\ got.index = RefinementValue(metas, Trim(metas[i].id), "group-position")
      /\ series = {} => got.name = content("calibre:series")
      /\ series = {} /\ got.name # "" => got.index = content("calibre:series_index")
      /\ series = {} /\ got.name = "" => got.index = ""
  <2>1. \A n : content(n) = ContentOf(metas, n)
    BY DEF ContentOf, CalibreAt
  <2> HIDE DEF series, got, content
  <2> QED
    BY <1>1, <1>2, <1>5, <2>1, SeriesFacts
<1>7. \A i \in series : i \in DOMAIN metas /\ Trim(metas[i].value) # ""
  OBVIOUS
<1> SUFFICES /\ \A i \in series : (\A j \in series : i <= j) =>
                  /\ got.name = Trim(metas[i].value)
                  /\ first(i, "group-position") = {} => got.index = ""
                  /\ \A r \in first(i, "group-position") : got.index = Trim(metas[r].value)
             /\ series = {} => got.name = content("calibre:series")
             /\ series = {} /\ got.name # "" => got.index = content("calibre:series_index")
             /\ got.name = "" => got.index = ""
  BY DEF SeriesFaithful, first
<1> HIDE DEF series, got, metas, content
<1>8. ASSUME NEW i \in series, \A j \in series : i <= j
      PROVE  /\ got.name = Trim(metas[i].value)
             /\ got.index = RefinementValue(metas, Trim(metas[i].id), "group-position")
  <2>1. PICK k \in series :
          /\ \A j \in series : k <= j
          /\ got.name = Trim(metas[k].value)
          /\ got.index = RefinementValue(metas, Trim(metas[k].id), "group-position")
    BY <1>6
  <2>2. i \in Nat /\ k \in Nat /\ i <= k /\ k <= i
    <3>1. i \in DOMAIN metas /\ k \in DOMAIN metas
      BY <1>7
    <3>2. i \in Nat /\ k \in Nat
      BY <1>1, <3>1
    <3> QED
      BY <1>8, <2>1, <3>2
  <2> QED
    BY <2>1, <2>2
<1>9. got.name = "" => series = {}
  <2> SUFFICES ASSUME series # {} PROVE got.name # ""
    OBVIOUS
  <2>1. PICK k \in series : got.name = Trim(metas[k].value)
    BY <1>6
  <2> QED
    BY <1>7, <2>1
<1> QED
  BY <1>4, <1>6, <1>7, <1>8, <1>9

-----------------------------------------------------------------------------
(* Identifiers *)

\* The scheme of a value whose element says e, whether the value repeats it, and
\* what is shown of both.
SchemeOf(value, e) ==
  IF value = Plain("") THEN "" ELSE IF e # "" THEN SchemeLabel[e]
  ELSE IF value.form = "url" THEN "URL"
  ELSE IF Prefixed(value) THEN SchemeLabel[value.prefix] ELSE ""
RepeatsScheme(value, e) == Prefixed(value) /\ Lower[SchemeLabel[value.prefix]] = Lower[SchemeOf(value, e)]
ShownOf(value, e) ==
  [scheme |-> SchemeOf(value, e), value |-> IF RepeatsScheme(value, e) THEN Plain(value.rest) ELSE value]

LEMMA SplitFacts ==
  ASSUME NEW value, NEW e
  PROVE  SplitIdentifier(value, e) = ShownOf(value, e)
<1>1. \A w : ~Prefixed(Plain(w))
  BY DEF Plain, Prefixed
<1>2. CASE value = Plain("")
  <2>1. ~Prefixed(value) /\ value.form # "url"
    BY <1>2 DEF Plain, Prefixed
  <2>2. SplitIdentifier(value, e) = [scheme |-> "", value |-> value]
    BY <1>2, <2>1 DEF SplitIdentifier
  <2> QED
    BY <1>2, <2>1, <2>2 DEF ShownOf, SchemeOf, RepeatsScheme
<1>3. CASE e # "" /\ value # Plain("")
  <2>1. SplitIdentifier(value, e) =
          [scheme |-> SchemeLabel[e],
           value |-> IF Prefixed(value) /\ Lower[SchemeLabel[value.prefix]] = Lower[SchemeLabel[e]]
                     THEN Plain(value.rest) ELSE value]
    BY <1>3 DEF SplitIdentifier
  <2>2. SchemeOf(value, e) = SchemeLabel[e]
    BY <1>3 DEF SchemeOf
  <2> QED
    BY <2>1, <2>2 DEF ShownOf, RepeatsScheme
<1>4. CASE e = "" /\ value # Plain("")
  <2>1. CASE value.form = "url"
    <3>1. SplitIdentifier(value, e) = [scheme |-> "URL", value |-> value] /\ ~Prefixed(value)
      BY <1>4, <2>1 DEF SplitIdentifier, Prefixed
    <3>2. SchemeOf(value, e) = "URL"
      BY <1>4, <2>1 DEF SchemeOf
    <3> QED
      BY <3>1, <3>2 DEF ShownOf, RepeatsScheme
  <2>2. CASE Prefixed(value)
    <3>1. /\ SplitIdentifier(value, e) = [scheme |-> SchemeLabel[value.prefix], value |-> Plain(value.rest)]
          /\ value.form # "url"
      BY <1>4, <2>2 DEF SplitIdentifier, Prefixed
    <3>2. SchemeOf(value, e) = SchemeLabel[value.prefix]
      BY <1>4, <2>2, <3>1 DEF SchemeOf
    <3>3. RepeatsScheme(value, e)
      BY <2>2, <3>2 DEF RepeatsScheme
    <3> QED
      BY <3>1, <3>2, <3>3 DEF ShownOf
  <2>3. CASE value.form # "url" /\ ~Prefixed(value)
    <3>1. SplitIdentifier(value, e) = [scheme |-> "", value |-> value]
      BY <1>4, <2>3 DEF SplitIdentifier
    <3>2. SchemeOf(value, e) = "" /\ ~RepeatsScheme(value, e)
      BY <1>4, <2>3 DEF SchemeOf, RepeatsScheme
    <3> QED
      BY <3>1, <3>2 DEF ShownOf
  <2> QED
    BY <2>1, <2>2, <2>3
<1> QED
  BY <1>2, <1>3, <1>4

\* The identifier-type metas of an element, and what the first of them names.
TypesOf(metas, id) ==
  {r \in DOMAIN metas : /\ Lower[Trim(metas[r].property)] = "identifier-type"
                        /\ Exactly(id, Trim(metas[r].refines))}
NamedBy(r) ==
  IF Lower[Trim(r.scheme)] = "onix:codelist5" THEN OnixScheme(Trim(r.value))
  ELSE IF Trim(r.scheme) # "" THEN Trim(r.scheme) ELSE Trim(r.value)
RefinedBy(metas, id) ==
  IF Trim(id) = "" \/ TypesOf(metas, id) = {} THEN "" ELSE NamedBy(metas[Min(TypesOf(metas, id))])

LEMMA TypeSchemeFacts ==
  ASSUME NEW metas, IsList(metas), NEW id
  PROVE  IdentifierTypeScheme(metas, id) = RefinedBy(metas, id)
<1> DEFINE Types(t) == Folds(t.property, "identifier-type") /\ ~id.pad /\ Trim(t.refines) = id.v
           P == {r \in Elements(metas) : Types(r)}
           I == TypesOf(metas, id)
           c == Chosen(metas, P)
<1>1. IdentifierTypeScheme(metas, id) =
        IF id.v = "" \/ c = <<>> THEN ""
        ELSE IF Folds(c[1].scheme, "onix:codelist5") THEN OnixScheme(Trim(c[1].value))
        ELSE OrElse(Trim(c[1].scheme), Trim(c[1].value))
  BY DEF IdentifierTypeScheme, Where, Elements
<1>2. IdentifierTypeScheme(metas, id) = IF id.v = "" \/ c = <<>> THEN "" ELSE NamedBy(c[1])
  <2> HIDE DEF c
  <2> QED
    BY <1>1 DEF Folds, OrElse, NamedBy
<1>3. I = {i \in DOMAIN metas : metas[i] \in P}
  BY DEF TypesOf, Elements, Folds, Exactly
<1> HIDE DEF P, I
<1>4. /\ c = <<>> <=> I = {}
      /\ I # {} => c[1] = metas[Min(I)]
  <2>1. KeepsFirst(c, metas, I)
    BY <1>3, KeptFacts
  <2> HIDE DEF c
  <2> QED
    BY <2>1 DEF KeepsFirst
<1> HIDE DEF c
<1> QED
  BY <1>2, <1>4 DEF RefinedBy, I, Trim

LEMMA IdentifiersRight ==
  ASSUME NEW m, IsMetadata(m), metadata = BookMetadata(m)
  PROVE  IdentifiersFaithful(m)
<1> DEFINE ds == Declared(m)
           Explicit(d) == OrElse(Trim(d.scheme), IdentifierTypeScheme(Metas(m), d.id))
           Said(d) == IF Trim(d.scheme) # "" THEN Trim(d.scheme) ELSE RefinedBy(Metas(m), d.id)
           split == [i \in DOMAIN ds |-> SplitIdentifier(ds[i].value, Explicit(ds[i]))]
           shown == [i \in DOMAIN ds |-> ShownOf(ds[i].value, Said(ds[i]))]
           P == {s \in Elements(split) : s.value # Plain("")}
           I == {i \in DOMAIN ds : ShownOf(ds[i].value, Said(ds[i])).value # Plain("")}
<1>1. metadata.identifiers = Chosen(split, P)
  BY DEF BookMetadata, Identifiers, Where, Elements
<1>2. IsList(ds) /\ IsList(Metas(m))
  BY GroupFacts
<1>3. split = shown
  <2>1. \A d : Explicit(d) = Said(d)
    BY <1>2, TypeSchemeFacts DEF OrElse
  <2> HIDE DEF ds, Explicit, Said
  <2> QED
    BY <2>1, SplitFacts
<1>4. I = {i \in DOMAIN split : split[i] \in P}
  <2>1. \A i \in DOMAIN split : split[i] \in P <=> split[i].value # Plain("")
    BY DEF Elements
  <2>2. \A i \in DOMAIN ds : split[i] = ShownOf(ds[i].value, Said(ds[i]))
    <3>1. \A i \in DOMAIN ds : shown[i] = ShownOf(ds[i].value, Said(ds[i]))
      OBVIOUS
    <3> HIDE DEF split, shown, Said, ds
    <3> QED
      BY <1>3, <3>1
  <2>3. DOMAIN split = DOMAIN ds
    OBVIOUS
  <2> HIDE DEF split, P, Said, ds
  <2> QED
    BY <2>1, <2>2, <2>3
<1>5. IsList(split)
  <2>1. split = [i \in DOMAIN ds |-> split[i]]
    OBVIOUS
  <2> HIDE DEF split, ds
  <2> QED
    BY <1>2, <2>1, MappedList
<1>6. Keeps(metadata.identifiers, shown, I)
  <2> HIDE DEF split, shown, P, I
  <2>1. KeepsFirst(Chosen(split, P), split, I)
    BY <1>4, <1>5, KeptFacts
  <2> QED
    BY <1>1, <1>3, <2>1 DEF KeepsFirst
<1> QED
  BY <1>6 DEF IdentifiersFaithful, RepeatsScheme, SchemeOf, ShownOf, RefinedBy, TypesOf, NamedBy

-----------------------------------------------------------------------------
(* Authors *)

NameOf(c)  == OrElse(Trim(c.value), Trim(c.fileAs))
IsNamed(c) == NameOf(c) # ""
AuthorsAt(creators) ==
  {i \in DOMAIN creators : Lower[Trim(creators[i].role)] \in {"aut", ""} /\ IsNamed(creators[i])}

LEMMA NameFacts == \A c : IsNamed(c) <=> NameOf(c) # ""
BY DEF IsNamed

\* The authors of a group are its creators of that role, in order.
LEMMA AuthorsOfFacts ==
  ASSUME NEW creators, IsList(creators)
  PROVE  /\ Len(AuthorsOf(creators)) = Cardinality(AuthorsAt(creators))
         /\ AuthorsOf(creators) = <<>> <=> AuthorsAt(creators) = {}
         /\ \A i \in AuthorsAt(creators) :
              AuthorsOf(creators)[Cardinality({j \in AuthorsAt(creators) : j <= i})] = NameOf(creators[i])
<1> DEFINE s == creators
           I == AuthorsAt(s)
           P == {c \in Elements(s) : Lower[Trim(c.role)] \in {"aut", ""}}
           c == Chosen(s, P)
           t == [i \in DOMAIN c |-> NameOf(c[i])]
           Q == {w \in Elements(t) : NotBlank(w)}
           R == {x \in Elements(s) : Lower[Trim(x.role)] \in {"aut", ""} /\ IsNamed(x)}
           n == Len(s)
           At(i) == Cardinality(Hits(s, P, i))
<1>1. AuthorsOf(s) = Chosen(t, Q)
  BY DEF AuthorsOf, Where, Elements, NameOf
<1>2. s \in Seq(Elements(s)) /\ n \in Nat /\ DOMAIN s = 1..n
  BY ListFacts DEF Elements
<1>3. /\ \A i \in 1..n : s[i] \in R <=> s[i] \in P /\ IsNamed(s[i])
      /\ I = {i \in DOMAIN s : s[i] \in R}
  BY <1>2 DEF Elements, AuthorsAt
<1>4. /\ t = [i \in DOMAIN c |-> t[i]]
      /\ \A i \in DOMAIN c : t[i] = NameOf(c[i])
  OBVIOUS
<1>5. \A i \in DOMAIN t : t[i] \in Q <=> t[i] # ""
  BY DEF Elements, NotBlank
<1> HIDE DEF P, Q, R, I
<1>6. IsList(c)
  BY <1>2, ChosenList, SeqIsList
<1> HIDE DEF c, t
<1>7. IsList(t) /\ DOMAIN t = DOMAIN c /\ Len(t) = Len(c)
  BY <1>4, <1>6, MappedList
<1>8. t \in Seq(Elements(t)) /\ DOMAIN t = 1..Len(t) /\ DOMAIN c = 1..Len(c)
  BY <1>6, <1>7, ListFacts DEF Elements
<1>9. \A i \in Hits(s, P, n) : At(i) \in 1..Len(c) /\ c[At(i)] = s[i]
  BY <1>2, ChosenPlaces DEF c
<1>10. ASSUME NEW i \in 1..n
       PROVE  s[i] \in R <=> s[i] \in P /\ t[At(i)] \in Q
  <2>1. CASE s[i] \notin P
    BY <1>3, <2>1
  <2>2. CASE s[i] \in P
    <3>1. At(i) \in DOMAIN t /\ t[At(i)] = NameOf(s[i])
      <4>1. i \in Hits(s, P, n)
        BY <2>2 DEF Hits
      <4>2. At(i) \in DOMAIN c /\ c[At(i)] = s[i]
        BY <1>8, <1>9, <4>1
      <4> HIDE DEF At
      <4> QED
        BY <1>4, <1>7, <4>2
    <3>2. IsNamed(s[i]) <=> t[At(i)] \in Q
      BY <1>5, <3>1, NameFacts
    <3> QED
      BY <1>3, <2>2, <3>2
  <2> QED
    BY <2>1, <2>2
<1>11. /\ Len(Chosen(t, Q)) = Cardinality(Hits(s, R, n))
       /\ \A i \in Hits(s, R, n) :
            /\ Chosen(t, Q)[Cardinality(Hits(s, R, i))] = t[At(i)]
            /\ s[i] \in P
  <2>1. Len(t) = Len(Chosen(s, P))
    BY <1>7 DEF c
  <2> HIDE DEF n
  <2>2. /\ s \in Seq(Elements(s)) /\ t \in Seq(Elements(t))
        /\ \A i \in 1..Len(s) : s[i] \in R <=> s[i] \in P /\ t[Cardinality(Hits(s, P, i))] \in Q
    BY <1>2, <1>8, <1>10 DEF n
  <2> QED
    BY <2>1, <2>2, ChosenOfChosen DEF n
<1>12. I = Hits(s, R, n) /\ IsFiniteSet(I)
  <2>1. I = Hits(s, R, n)
    BY <1>2, <1>3 DEF Hits
  <2> QED
    BY <1>2, <2>1, HitsFinite
<1>13. ASSUME NEW i \in I
       PROVE  Chosen(t, Q)[Cardinality({j \in I : j <= i})] = NameOf(s[i])
  <2>1. i \in 1..n /\ s[i] \in P
    BY <1>11, <1>12 DEF Hits
  <2>2. {j \in I : j <= i} = Hits(s, R, i)
    BY <1>2, <1>12, <2>1 DEF Hits
  <2>3. t[At(i)] = NameOf(s[i])
    <3>1. i \in Hits(s, P, n)
      BY <2>1 DEF Hits
    <3>2. At(i) \in DOMAIN c /\ c[At(i)] = s[i]
      BY <1>8, <1>9, <3>1
    <3> HIDE DEF At
    <3> QED
      BY <1>4, <3>2
  <2> QED
    BY <1>11, <1>12, <2>2, <2>3
<1>14. Chosen(t, Q) = <<>> <=> I = {}
  <2>1. Chosen(t, Q) \in Seq(Elements(t)) /\ Len(Chosen(t, Q)) = Cardinality(I)
    BY <1>8, <1>11, <1>12, ChosenList
  <2> QED
    BY <1>12, <2>1, FS_EmptySet, EmptySeq
<1> QED
  BY <1>1, <1>11, <1>12, <1>13, <1>14 DEF I

LEMMA AuthorsRight ==
  ASSUME NEW m, IsMetadata(m), metadata = BookMetadata(m)
  PROVE  AuthorsFaithful(m)
<1> DEFINE direct == m.direct.creators
           wrapped == m.wrapped.creators
           group == IF AuthorsAt(direct) # {} THEN direct ELSE wrapped
           names == [i \in DOMAIN group |-> NameOf(group[i])]
           G == AuthorsAt(group)
<1>1. metadata.authors = Authors(m)
  BY DEF BookMetadata
<1>2. IsList(direct) /\ IsList(wrapped)
  BY GroupLists
<1>3. AuthorsFaithful(m) <=> Keeps(metadata.authors, names, G)
  <2> DEFINE name(c) == IF Trim(c.value) # "" THEN Trim(c.value) ELSE Trim(c.fileAs)
             authors(s) == {i \in DOMAIN s : Lower[Trim(s[i].role)] \in {"aut", ""} /\ name(s[i]) # ""}
             g == IF authors(direct) # {} THEN direct ELSE wrapped
  <2>1. \A c : name(c) = NameOf(c)
    BY DEF NameOf, OrElse
  <2>2. \A s : authors(s) = AuthorsAt(s)
    BY <2>1, NameFacts DEF AuthorsAt
  <2>3. AuthorsFaithful(m) <=> Keeps(metadata.authors, [i \in DOMAIN g |-> name(g[i])], authors(g))
    BY DEF AuthorsFaithful
  <2> HIDE DEF name, authors
  <2>4. g = group
    BY <2>2
  <2> HIDE DEF g, group
  <2>5. [i \in DOMAIN g |-> name(g[i])] = [i \in DOMAIN group |-> NameOf(group[i])]
    BY <2>1, <2>4
  <2> QED
    BY <2>2, <2>3, <2>4, <2>5
<1>4. Authors(m) = IF AuthorsOf(direct) # <<>> THEN AuthorsOf(direct) ELSE AuthorsOf(wrapped)
  BY DEF Authors, FirstGroup
<1>5. AuthorsOf(direct) = <<>> <=> AuthorsAt(direct) = {}
  BY <1>2, AuthorsOfFacts
<1>6. Authors(m) = AuthorsOf(group) /\ IsList(group)
  BY <1>2, <1>4, <1>5
<1>7. \A i \in G : i \in DOMAIN group
  BY DEF AuthorsAt
<1> HIDE DEF group
<1>8. /\ Len(AuthorsOf(group)) = Cardinality(G)
      /\ \A i \in G : AuthorsOf(group)[Cardinality({j \in G : j <= i})] = NameOf(group[i])
  BY <1>6, AuthorsOfFacts
<1>9. \A i \in G : names[i] = NameOf(group[i])
  BY <1>7
<1> HIDE DEF G, names
<1>10. Keeps(metadata.authors, names, G)
  BY <1>1, <1>6, <1>8, <1>9 DEF Keeps
<1> QED
  BY <1>3, <1>10

-----------------------------------------------------------------------------
LEMMA BookDescribed == MetaInv => MetadataFaithful
<1> SUFFICES ASSUME MetaInv, BookRead PROVE MetadataFaithful
  BY DEF MetadataFaithful
<1>1. PICK m : m = pkg.metadata
  OBVIOUS
<1>2. IsMetadata(m) /\ metadata = BookMetadata(m)
  BY <1>1 DEF MetaInv, BookRead, Late, Building
<1>3. /\ TextsFaithful(m) /\ AuthorsFaithful(m) /\ DateFaithful(m)
      /\ SeriesFaithful(m) /\ IdentifiersFaithful(m)
  BY <1>2, TextsRight, AuthorsRight, DateRight, SeriesRight, IdentifiersRight
<1> QED
  BY <1>1, <1>3 DEF MetadataFaithful

\* Whatever a package declares, the book says, field by field: title,
\* description and publisher, subjects and languages, authors, publication date,
\* series and identifiers are exactly those the precedence of
\* internal/opf/opf.go gives them.
THEOREM MetadataAlwaysFaithful == Spec => []MetadataFaithful
<1>1. Init => EpubInv /\ MetaInv
  BY BookInit, MetaInit
<1>2. (EpubInv /\ MetaInv) /\ [Next]_vars => (EpubInv /\ MetaInv)'
  BY EpubStep, MetaStep
<1> QED
  BY <1>1, <1>2, BookDescribed, PTL DEF Spec
=============================================================================
