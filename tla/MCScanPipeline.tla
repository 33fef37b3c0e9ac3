--------------------------- MODULE MCScanPipeline ---------------------------
(***************************************************************************)
(* Books with an ISBN in the head, in a non-linear chapter and in a        *)
(* manifest-only resource; i and I are the two forms of one ISBN.          *)
(***************************************************************************)
EXTENDS ScanPipeline

MCResources == {"c1", "c2", "notes", "extra", "image"}
MCByte      == {"a", "b", "i", "I", "j", "k", "nl"}
MCText      == [r \in MCResources |->
                 CASE r = "c1" -> <<"a", "i">> [] r = "c2" -> <<"b">>
                   [] r = "notes" -> <<"I", "j">> [] r = "extra" -> <<"k">>
                   [] r = "image" -> <<>>]
MCNewline   == <<"nl">>
MCConvertible == MCResources \ {"image"}

Lin(r) == [res |-> r, linear |-> TRUE]
Non(r) == [res |-> r, linear |-> FALSE]
MCBooks == {
  [spine |-> <<Lin("c1"), Non("notes"), Lin("c2")>>,
   all |-> <<"c1", "notes", "c2", "image", "extra">>],
  [spine |-> <<Lin("c2"), Non("c2"), Non("notes")>>, all |-> <<"notes", "c2">>],
  [spine |-> <<>>, all |-> <<"extra">>] }

MCProcessors == {"fingerprint", "short", "long", "isbn", "isbns", "custom", "summary"}
Capable(text, head, fall, finish, limit) ==
  [text |-> text, head |-> head, fall |-> fall, finish |-> finish, limit |-> limit]
MCCap == [p \in MCProcessors |->
  CASE p = "fingerprint" -> Capable(TRUE, 0, FALSE, FALSE, 0)
    [] p = "short"       -> Capable(FALSE, 1, FALSE, FALSE, 0)
    [] p = "long"        -> Capable(FALSE, 3, FALSE, FALSE, 0)
    [] p = "isbn"        -> Capable(FALSE, 2, TRUE, FALSE, 2)
    [] p = "isbns"       -> Capable(FALSE, 3, TRUE, FALSE, 0)
    [] p = "custom"      -> Capable(TRUE, 1, FALSE, TRUE, 0)
    [] p = "summary"     -> Capable(FALSE, 0, FALSE, TRUE, 0)]

\* Every list of at most two of the first six, and longer ones.
MCOnce == MCProcessors \ {"summary"}
MCLineups ==
  {<<>>} \cup {<<p>> : p \in MCOnce}
  \cup {l \in {<<p, q>> : p \in MCOnce, q \in MCOnce} : l[1] # l[2]}
  \cup { <<"fingerprint", "isbn", "short">>, <<"long", "short", "custom", "isbns">>,
         <<"summary", "isbn", "custom">>, <<"custom", "isbns", "summary">> }

MCIsbns == {"i", "I", "j", "k"}
MCKey   == [x \in MCIsbns |-> IF x = "I" THEN "i" ELSE x]
MCOrders == {ResourcesOf(LinearItems(b)) : b \in MCBooks}
=============================================================================
