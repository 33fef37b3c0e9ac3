----------------------------- MODULE Fingerprints -----------------------------
(***************************************************************************)
(* wordShingler and the two hashers it feeds (tools/processor.go,          *)
(* minhash.go, simhash.go), as writers of the chunks Read returns          *)
(* (FingerprintReader, FingerprintProcessor, fingerprintingReadCloser).    *)
(***************************************************************************)
EXTENDS TextReaders, Integers

CONSTANTS
  K,          \* shingle size
  Encoding,   \* byte sequences of the characters that take several bytes
  Dropped,    \* format characters
  Delimiter,  \* spaces, punctuation, symbols and control characters
  Fold,       \* NFKC and case folding of a character
  Seeds, Hash(_, _),          \* a shingle's hash under each seed
  HashBits, BitSet(_, _)      \* the bits of a shingle's hash

ASSUME ShingleAssumption == K \in Nat \ {0}
ASSUME EncodingAssumption == \A e \in DOMAIN Encoding : IsList(e) /\ e # <<>>

VARIABLES
  sh,         \* the shingler's fields, and the shingles it has emitted
  minHash, simHash,   \* sig of MinHasher, vec of SimHasher
  finalized,
  hashed      \* what had been read when the fingerprint was taken

hashvars == <<sh, minHash, simHash, finalized, hashed>>

NoWord == <<>>
RuneError == "RuneError"

InitHashers ==
  /\ sh = [leftover |-> <<>>, cur |-> NoWord, recent |-> [i \in 0..K - 1 |-> NoWord], pos |-> 0,
           total |-> 0, prefix |-> <<>>, emitted |-> <<>>, flushed |-> FALSE]
  /\ minHash = [s \in Seeds |-> {}] /\ simHash = [b \in HashBits |-> 0]
  /\ finalized = FALSE /\ hashed = <<>>

-----------------------------------------------------------------------------
(* Characters.  utf8.FullRune: what is left does not begin a longer one. *)
Partial(s) == s # <<>> /\ \E e \in DOMAIN Encoding : IsStrictPrefix(s, e)
Leads == UNION {{e[i] : i \in DOMAIN e} : e \in DOMAIN Encoding}

\* utf8.DecodeRune: [rune, size] at i of the bytes s.
RuneAt(s, i) ==
  LET fits == {e \in DOMAIN Encoding : IsPrefix(e, SubSeq(s, i, Len(s)))} IN
    IF fits # {} THEN LET e == CHOOSE e \in fits : TRUE IN [rune |-> Encoding[e], size |-> Len(e)]
    ELSE [rune |-> IF s[i] \in Leads THEN RuneError ELSE s[i], size |-> 1]

\* The loop of Write: the characters of s up to a partial one, and where that
\* one starts.  It stops after at most as many rounds as there are bytes.
DecodeNext(s, d) ==
  IF d.rest > Len(s) \/ Partial(SubSeq(s, d.rest, Len(s))) THEN d
  ELSE LET r == RuneAt(s, d.rest) IN [runes |-> Append(d.runes, r.rune), rest |-> d.rest + r.size]
Decode(s) ==
  LET after[k \in 0..Len(s)] == IF k = 0 THEN [runes |-> <<>>, rest |-> 1] ELSE DecodeNext(s, after[k - 1])
  IN after[Len(s)]

-----------------------------------------------------------------------------
(* Words and shingles. *)
Emit(w, shingle) == [w EXCEPT !.emitted = Append(@, shingle)]

\* Seeded bug: the ring is read from its start instead of from its oldest word.
FlushWordRing(w) ==
  LET word == [i \in DOMAIN w.cur |-> Fold[w.cur[i]]]
      v == [w EXCEPT !.cur = NoWord, !.total = @ + 1,
                     !.prefix = IF w.total < K THEN Append(@, word) ELSE @,
                     !.recent[w.pos] = word, !.pos = (@ + 1) % K]
  IN IF w.cur = NoWord THEN w
     ELSE IF v.total >= K THEN Emit(v, [j \in 1..K |-> v.recent[j - 1]])
     ELSE v

\* flushWord: the ring holds the last K words, the oldest of them at pos.
FlushWord(w) ==
  LET word == [i \in DOMAIN w.cur |-> Fold[w.cur[i]]]
      v == [w EXCEPT !.cur = NoWord, !.total = @ + 1,
                     !.prefix = IF w.total < K THEN Append(@, word) ELSE @,
                     !.recent[w.pos] = word, !.pos = (@ + 1) % K]
  IN IF w.cur = NoWord THEN w
     ELSE IF v.total >= K THEN Emit(v, [j \in 1..K |-> v.recent[(v.pos + j - 1) % K]])
     ELSE v

Consume(w, rune) ==
  CASE rune \in Dropped -> w
    [] rune \in Delimiter \ Dropped -> FlushWord(w)
    [] OTHER -> [w EXCEPT !.cur = Append(@, rune)]

ConsumeAll(w, runes) ==
  LET after[k \in 0..Len(runes)] == IF k = 0 THEN w ELSE Consume(after[k - 1], runes[k])
  IN after[Len(runes)]

\* Write: a character cut by the end of the chunk waits for the next one.
WriteChunk(w, chunk) ==
  LET bytes == w.leftover \o chunk  d == Decode(bytes) IN
    ConsumeAll([w EXCEPT !.flushed = FALSE, !.leftover = SubSeq(bytes, d.rest, Len(bytes))], d.runes)

\* Flush: a character never completed counts as so many invalid bytes, and a
\* text of fewer than K words as one shingle.
Flush(w) ==
  LET tail == [i \in DOMAIN w.leftover |-> RuneError]
      v == FlushWord(ConsumeAll([w EXCEPT !.leftover = <<>>, !.flushed = TRUE], tail))
  IN IF w.flushed THEN w
     ELSE IF v.total > 0 /\ v.total < K THEN Emit(v, v.prefix) ELSE v

-----------------------------------------------------------------------------
(* The hashers.  A signature keeps the least hash under each seed (the empty
   set stands for the greatest possible one); a bit's counter goes up with
   every shingle whose hash has it and down with every other. *)
New == SubSeq(sh'.emitted, Len(sh.emitted) + 1, Len(sh'.emitted))

Vote(count, shingle, b) == IF BitSet(shingle, b) THEN count + 1 ELSE count - 1

\* What the shingles of a list add to the counter of a bit.
Votes(shingles, b) ==
  LET after[k \in 0..Len(shingles)] == IF k = 0 THEN 0 ELSE Vote(after[k - 1], shingles[k], b)
  IN after[Len(shingles)]

OnShingles(w) ==
  /\ sh' = w
  /\ minHash' = [s \in Seeds |->
       LET all == minHash[s] \cup {Hash(x, s) : x \in ToSet(New)} IN IF all = {} THEN {} ELSE {Min(all)}]
  /\ simHash' = [b \in HashBits |-> simHash[b] + Votes(New, b)]

\* What a Read returns is written to both hashers; finalized ones refuse it.
HashChunk ==
  LET chunk == SubSeq(got', Len(got) + 1, Len(got')) IN
    /\ OnShingles(IF finalized \/ chunk = <<>> THEN sh ELSE WriteChunk(sh, chunk))
    /\ UNCHANGED <<finalized, hashed>>

\* Result (Signature, Sum64), at any time and any number of times.
Result ==
  /\ doc.hashed /\ room = 0
  /\ OnShingles(IF finalized THEN sh ELSE Flush(sh))
  /\ finalized' = TRUE /\ hashed' = IF finalized THEN hashed ELSE got
  /\ UNCHANGED textvars
=============================================================================
