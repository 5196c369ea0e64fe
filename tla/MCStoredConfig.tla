-------------------------- MODULE MCStoredConfig --------------------------
(***************************************************************************)
(* Three host systems.  The first device request of all of them is of 18    *)
(* bytes; the configuration request tells Windows from Linux.               *)
(***************************************************************************)
EXTENDS StoredConfig

MCOsOrder == <<"UNKNOWN", "WIN", "LINUX">>
=============================================================================
