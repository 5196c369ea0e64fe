------------------------------ MODULE MCCombos ------------------------------
(***************************************************************************)
(* A combo of one key, two that share their keys, and one that is a key of *)
(* the longer; pressed one after the other, three are prepared, and those  *)
(* that give way are in front, behind or in the middle of the ring.        *)
(***************************************************************************)
EXTENDS Combos

MCChords == <<{"a"}, {"d", "e"}, {"d", "e", "f"}, {"f"}>>

\* Bound: once a buffer was too short, a press leaves at most three keys down.
FewAfterOverrun == overrun => Cardinality(down') <= 3 \/ down' \subseteq down
=============================================================================
