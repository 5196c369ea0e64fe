----------------------------- MODULE MCTapping ------------------------------
(* Three keys on two layers: a mod-tap, a layer-tap, and a key that is a    *)
(* letter on one layer and a modifier on the other.                         *)
EXTENDS Tapping

MCKeys == {"a", "l", "c"}

MCKeymap ==
  <<[a |-> TapHold(Code("a"), Mod("shift")),
     l |-> TapHold(Code("l"), Layer(1)),
     c |-> Plain(Code("c"))],
    [a |-> None, l |-> None, c |-> Plain(Mod("ctrl"))]>>

TwoLayers == [l \in {0, 1} |-> MCKeymap[l + 1]]
=============================================================================
