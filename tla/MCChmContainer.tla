--------------------------- MODULE MCChmContainer ---------------------------
(***************************************************************************)
(* Instances of ChmContainer for TLC: seven bytes of content in turns of   *)
(* three one-byte blocks (0, 3 and the short turn 6), so that the prefixes *)
(* of one turn come in several lengths and a whole turn is too long to be  *)
(* cached; two bytes of stored data; 4-bit addresses.                      *)
(***************************************************************************)
EXTENDS ChmContainer

CONSTANTS r1, r2

E(s, o, n) == [space |-> s, start |-> o, length |-> n]

MCByte   == 0..8
MCPlain  == [i \in 0..6 |-> i]
MCStored == [i \in 0..1 |-> 7 + i]

\* Inside a turn and across turns, past the end of a stream, with a length
\* that wraps the address width, and of an unknown section.
MCEntries == {E(0, 0, 2), E(0, 1, 2), E(1, 0, 2), E(1, 2, 3),
              E(1, 6, 1), E(1, 6, 2), E(1, 3, 14), E(2, 0, 1)}

\* Two short entries, at the start and at the end of a turn.
MCDeep == {E(1, 0, 1), E(1, 2, 1)}
=============================================================================
