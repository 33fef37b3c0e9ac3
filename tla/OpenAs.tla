------------------------------- MODULE OpenAs -------------------------------
(***************************************************************************)
(* Resource.OpenAs and its variants (book/resource.go): the conversion     *)
(* chain from a resource to a MIME type and a charset, run by goroutines   *)
(* over one shared registry that others extend meanwhile.                  *)
(*                                                                         *)
(* Text is followed by its encoding only: a stream decoded with another    *)
(* charset than its own is "garbled".  Opening the resource and starting   *)
(* a transformer may fail.  A stream that is returned is closed by its     *)
(* caller; every wrapper of the chain passes Close on.                     *)
(***************************************************************************)
EXTENDS ConverterRegistry

CONSTANTS
  Resources,  \* [media, charset, stored, declared]: MIME type, label, the
              \* encoding of the bytes, and the one their head declares
  TextMedia,  \* MIME types charset.IsTextMedia accepts
  Known,      \* labels a decoder exists for, UTF-8 aside
  Added,      \* transformers registered while the program runs
  Targets     \* [to, out]: what callers ask for, out = "" for no charset

ASSUME ResourcesAssumption ==
  /\ Added \subseteq Transformers
  /\ Resources \subseteq [media : Mimes, charset : STRING, stored : STRING, declared : STRING]
  /\ Targets \subseteq [to : Mimes, out : STRING]
  /\ Known \cap {"", "utf-8", "binary"} = {}

VARIABLES
  pc,       \* where each goroutine is in OpenAs
  res,      \* the resource it opens
  target,   \* what it wants
  step,     \* next transformer of the path
  enc,      \* encoding of the stream built so far
  open      \* open streams of the resource, by goroutine

chain == <<pc, res, target, step, enc, open>>
vars  == <<registry, chain>>

NoRes    == [media |-> "", charset |-> "", stored |-> "", declared |-> ""]
NoTarget == [to |-> "", out |-> ""]

UTF8 == "utf-8"
Raw == {"", UTF8, "binary"}

\* effectiveCharset: the label, or the default of the media type.
EffectiveCharset(r) ==
  IF r.charset # "" THEN r.charset ELSE IF r.media \in TextMedia THEN UTF8 ELSE "binary"

DecodedAs(stored, label) == IF label = stored THEN UTF8 ELSE "garbled"

\* Seeded bug: the head is believed before the label.
DecodeForTransformSniff(r) ==
  IF r.media \notin TextMedia \/ EffectiveCharset(r) = "binary" THEN r.stored
  ELSE IF r.declared \in Known THEN DecodedAs(r.stored, r.declared)
  ELSE IF EffectiveCharset(r) \in Known THEN DecodedAs(r.stored, EffectiveCharset(r))
  ELSE r.stored

\* charset.DecodeForTransform: a label other than UTF-8 wins, otherwise the
\* head is sniffed; unknown labels leave the bytes alone.
DecodeForTransform(r) ==
  LET cs == EffectiveCharset(r)
      used == IF cs = UTF8 THEN r.declared ELSE cs
  IN IF r.media \in TextMedia /\ cs # "binary" /\ used \in Known
     THEN DecodedAs(r.stored, used) ELSE r.stored

\* charset.Encode of a UTF-8 stream.
Encoded(e, out) == IF e = UTF8 THEN out ELSE "garbled"

Init ==
  /\ RegistryInit
  /\ pc = [g \in Procs |-> "idle"]
  /\ res = [g \in Procs |-> NoRes] /\ target = [g \in Procs |-> NoTarget]
  /\ step = [g \in Procs |-> 1] /\ enc = [g \in Procs |-> ""]
  /\ open = [g \in Procs |-> 0]

At(g, s) == pc[g] = s
Go(g, s) == pc' = [pc EXCEPT ![g] = s]
-----------------------------------------------------------------------------
(* openAsWithRegistryCharset *)

\* The caller chooses a resource and a target; the same type is returned as
\* stored unless another charset is asked for, all else needs a path.
Begin(g) ==
  /\ At(g, "idle") /\ job[g] = "none"
  /\ \E r \in Resources, t \in Targets :
       /\ res' = [res EXCEPT ![g] = r] /\ target' = [target EXCEPT ![g] = t]
       /\ IF r.media = t.to
            THEN /\ Go(g, IF t.out \in {"", "binary", EffectiveCharset(r)} \/ r.media \notin TextMedia
                          THEN "raw" ELSE "transcode")
                 /\ UNCHANGED registry
            ELSE Go(g, "path") /\ Ask(g, r.media, t.to)
  /\ UNCHANGED <<step, enc, open>>

\* r.Open succeeds, with the stream in encoding e, or its error is returned.
OpenSource(g, e, s) ==
  \/ /\ open' = [open EXCEPT ![g] = @ + 1]
     /\ enc' = [enc EXCEPT ![g] = e]
     /\ Go(g, s)
  \/ Go(g, "failed") /\ UNCHANGED <<open, enc>>

OpenRaw(g) ==
  /\ At(g, "raw")
  /\ OpenSource(g, res[g].stored, "opened")
  /\ UNCHANGED <<registry, res, target, step>>

\* transcodeIdentity
OpenTranscode(g) ==
  /\ At(g, "transcode")
  /\ OpenSource(g, DecodeForTransform(res[g]), "encode")
  /\ UNCHANGED <<registry, res, target, step>>

\* FindPath has returned: no path is ErrNoTransformer, otherwise the source
\* is opened and decoded for the first transformer.
OpenPath(g) ==
  /\ At(g, "path") /\ job[g] = "none"
  /\ IF path[g] = NoPath
       THEN Go(g, "failed") /\ UNCHANGED <<open, enc>>
       ELSE OpenSource(g, DecodeForTransform(res[g]), "transform")
  /\ step' = [step EXCEPT ![g] = 1]
  /\ UNCHANGED <<registry, res, target>>

\* Closing the outermost stream closes the resource's.
CloseChain(g) == open' = [open EXCEPT ![g] = @ - 1]

\* Seeded bug: a transformer that fails leaves the chain open.
TransformLeaks(g) ==
  /\ At(g, "transform") /\ step[g] <= Len(path[g])
  /\ \/ step' = [step EXCEPT ![g] = @ + 1] /\ UNCHANGED pc
     \/ Go(g, "failed") /\ UNCHANGED step
  /\ UNCHANGED <<registry, res, target, enc, open>>

\* One transformer of the path; when it fails the chain so far is closed.
Transform(g) ==
  /\ At(g, "transform") /\ step[g] <= Len(path[g])
  /\ \/ step' = [step EXCEPT ![g] = @ + 1] /\ UNCHANGED <<pc, open>>
     \/ CloseChain(g) /\ Go(g, "failed") /\ UNCHANGED step
  /\ UNCHANGED <<registry, res, target, enc>>

TransformsDone(g) ==
  /\ At(g, "transform") /\ step[g] > Len(path[g])
  /\ Go(g, IF target[g].out \in Raw THEN "opened" ELSE "encode")
  /\ UNCHANGED <<registry, res, target, step, enc, open>>

\* charset.Encode; an unknown label closes the chain.
Encode(g) ==
  LET out == target[g].out IN
  /\ At(g, "encode")
  /\ IF out \in Raw THEN Go(g, "opened") /\ UNCHANGED <<enc, open>>
     ELSE IF out \in Known
       THEN /\ enc' = [enc EXCEPT ![g] = Encoded(@, out)]
            /\ Go(g, "opened") /\ UNCHANGED open
       ELSE CloseChain(g) /\ Go(g, "failed") /\ UNCHANGED enc
  /\ UNCHANGED <<registry, res, target, step>>

\* The caller closes the stream, or drops the error.
Finish(g) ==
  /\ pc[g] \in {"opened", "failed"}
  /\ IF At(g, "opened") THEN CloseChain(g) ELSE UNCHANGED open
  /\ Go(g, "idle")
  /\ step' = [step EXCEPT ![g] = 1] /\ enc' = [enc EXCEPT ![g] = ""]
  /\ res' = [res EXCEPT ![g] = NoRes] /\ target' = [target EXCEPT ![g] = NoTarget]
  /\ path' = [path EXCEPT ![g] = NoPath]
  /\ UNCHANGED <<byEdge, mutex, job, goal, queue, visited>>

\* A goroutine in no other call registers a transformer.
Extend(g) ==
  /\ At(g, "idle")
  /\ \E t \in Added : Register(g, t)
  /\ UNCHANGED chain
-----------------------------------------------------------------------------
RegistryStep(g) == InRegistry(g) /\ UNCHANGED chain

Running(g) ==
  \/ RegistryStep(g) \/ OpenRaw(g) \/ OpenTranscode(g) \/ OpenPath(g)
  \/ Transform(g) \/ TransformsDone(g) \/ Encode(g)

Next == \E g \in Procs : Begin(g) \/ Running(g) \/ Extend(g) \/ Finish(g)

\* A goroutine inside a call runs on.
Spec == Init /\ [][Next]_vars /\ \A g \in Procs : WF_vars(Running(g))
-----------------------------------------------------------------------------
(* Properties *)

\* The resource is open exactly while a chain is built on it or the caller
\* holds it: an error, at whatever step, leaves nothing open, and closing
\* the returned stream closes it (resource.go:193, transform.go:103).
OpenBalanced ==
  \A g \in Procs :
    open[g] = IF pc[g] \in {"transform", "encode", "opened"} THEN 1 ELSE 0

\* The bytes are what the label says, or what the head says of a text whose
\* label says nothing more than UTF-8, in a charset a decoder exists for; a head
\* that contradicts UTF-8 is the case of DecodedFromCharset.
Honest(r) ==
  LET cs == EffectiveCharset(r) IN
  /\ r.stored \in Known \cup {UTF8}
  /\ IF cs = UTF8 /\ r.declared # "" THEN r.stored = r.declared ELSE r.stored = cs

\* A transformer is given UTF-8, whatever the resource is stored in, and a
\* charset asked for after a conversion is the one returned (README "Storage
\* charset and byte-identical reads": transformers always see UTF-8).
TransformersSeeUTF8 ==
  \A g \in Procs : res[g].media \in TextMedia /\ Honest(res[g]) =>
    /\ At(g, "transform") => enc[g] = UTF8
    /\ At(g, "opened") /\ target[g].out \in Known => enc[g] = target[g].out

\* resource.go:79: "Textual input is decoded from the resource's Charset to
\* UTF-8 before conversion", so text stored as its label says arrives intact.
DecodedFromCharset ==
  \A g \in Procs :
    At(g, "transform") /\ res[g].media \in TextMedia /\ EffectiveCharset(res[g]) = res[g].stored =>
      enc[g] = UTF8

\* Every call returns: neither lock order nor a failing step can stop it.
Returned(g) == job[g] = "none" /\ pc[g] \in {"idle", "opened", "failed"}
CallsReturn == \A g \in Procs : ~Returned(g) ~> Returned(g)
=============================================================================
