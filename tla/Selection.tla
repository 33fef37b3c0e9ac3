----------------------------- MODULE Selection -----------------------------
(***************************************************************************)
(* Filtering a list: SelectSeq with the wanted elements given as a set and *)
(* the recursion written as a function, a form the proofs can unfold.      *)
(***************************************************************************)
EXTENDS Integers, Sequences

\* The elements of s that are in P, in order.
Chosen(s, P) ==
  LET upTo[k \in 0..Len(s)] ==
        IF k = 0 THEN <<>>
        ELSE IF s[k] \in P THEN Append(upTo[k - 1], s[k]) ELSE upTo[k - 1]
  IN upTo[Len(s)]

\* The elements of s that pass T, in order.
Where(s, T(_)) == Chosen(s, {x \in {s[i] : i \in DOMAIN s} : T(x)})
=============================================================================
