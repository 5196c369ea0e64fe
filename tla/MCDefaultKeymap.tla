-------------------------- MODULE MCDefaultKeymap --------------------------
(***************************************************************************)
(* A Ctrl key, a key of two modifiers and no code (as KC_MEH), two mouse    *)
(* buttons, of which the first is also that of the layer-tap key, and a      *)
(* wheel that is LCTL(KC_Z) one way and LALT(KC_LCTL) the other.             *)
(***************************************************************************)
EXTENDS DefaultKeymap

MCCode(k) == IF k \in {"ctl", "down"} THEN {"ctl"} ELSE {}
MCMods(k) == CASE k = "meh" -> {"ctl", "alt"}
               [] k = "up" -> {"ctl"}
               [] k = "down" -> {"alt"}
               [] OTHER -> {}
=============================================================================
