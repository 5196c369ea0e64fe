--------------------------- MODULE MCKeyOverride ----------------------------
(* Three keys, shift and ctrl, and of each table of jp_us_overrides entries  *)
(* whose replacement is the trigger of another.                              *)
EXTENDS KeyOverride

w_shift(key, replacement, m) ==
    [trigger |-> key, trigger_mods |-> {"shift"}, negative_mods |-> {},
     replacement |-> replacement, mods |-> m]

wo_shift(key, replacement, m) ==
    [trigger |-> key, trigger_mods |-> {}, negative_mods |-> {"shift"},
     replacement |-> replacement, mods |-> m]

MCTable ==
    [us |-> <<w_shift("2", "[", {}), wo_shift("[", "]", {}), w_shift("[", "]", {"shift"})>>,
     jp |-> <<w_shift("2", None, {}), wo_shift("[", "2", {"shift"}), w_shift("[", "]", {})>>]
=============================================================================
