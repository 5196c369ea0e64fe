---------------------------- MODULE StoredConfig ----------------------------
(***************************************************************************)
(* The configuration in the EEPROM: the base of eeconfig.c with the board's *)
(* own word, a copy of it for each host OS (host_os_eeconfig.c), and what   *)
(* VIA keeps (via.c, dynamic_keymap.c).                                     *)
(*                                                                          *)
(* Every operation is a sequence of EEPROM writes, todo, and the power may  *)
(* be cut between any two of them.  A write is durable when it returns      *)
(* (DurableStore).  Boot goes through via_init, magic and matrix_init_kb;   *)
(* then ("run") requests of the host, scans of the matrix and key events    *)
(* follow each other.                                                       *)
(*                                                                          *)
(* Of a region the magic and the board's keyboard_config_t are kept, and of *)
(* that os_eeconfig and override_mode; the other settings share the fate of *)
(* either.  The keymap is "raw" while any byte of it is, or of the macros,  *)
(* "custom" while any key is, "foreign" when a firmware with another layout *)
(* has left it.  The magic of VIA is the day of the build: it is not valid  *)
(* after an update to a firmware of another day, and it stays valid after an*)
(* update to one of the same day, whatever has changed between the two.     *)
(***************************************************************************)
EXTENDS Integers, Sequences

CONSTANTS
    OsOrder,      \* the values of OS_TYPE, in their order
    Modes,        \* OVERRIDE_MODE, as numbers
    DeviceLens,   \* lengths hosts ask for in a device descriptor request
    ConfigLens    \* ... and in a configuration descriptor request

OsTypes == {OsOrder[i] : i \in 1..Len(OsOrder)}

\* A host that is not told from its requests can stand for one that is.
ASSUME ConfigAssumption ==
    /\ OsOrder \in Seq({"UNKNOWN", "WIN", "MAC", "LINUX"}) /\ "UNKNOWN" \in OsTypes
    /\ 255 \in ConfigLens => "WIN" \in OsTypes
    /\ 8 \in DeviceLens => "MAC" \in OsTypes
    /\ 18 \in DeviceLens => "LINUX" \in OsTypes
    /\ 0 \in Modes /\ Modes \subseteq Nat /\ DeviceLens \cup ConfigLens \subseteq Nat

Kb     == [os_eeconfig : BOOLEAN, override_mode : Modes]
ZeroKb == [os_eeconfig |-> FALSE, override_mode |-> 0]
Region == [magic : BOOLEAN, kb : Kb]
Via    == [valid : BOOLEAN, keymap : {"raw", "init", "custom", "foreign"}]

Unset == -1

VARIABLES
    ee,             \* the EEPROM: regions "base" and each OS, and "via"
    todo,           \* the writes of the call that is under way
    pc,
    keyboard_config,           \* RAM: the board's word; set_key_override is told its mode
    current_os,     \* RAM: of host_os_eeconfig.c
    device_len, config_len,      \* RAM: first request since the address was set, or -1
    want,           \* history: the mode the user chose last on an OS, or Unset
    unsaved,        \* ... that choice is not mirrored yet
    ready,          \* ... the regions that have been written
    mine, blank     \* ... the keymap is the user's, a region never written was loaded

ram     == <<keyboard_config, current_os, device_len, config_len>>
history == <<want, unsaved, ready, mine, blank>>
vars    == <<ee, todo, pc, ram, history>>

Init ==
    /\ ee = [r \in OsTypes \cup {"base", "via"} |->
               IF r = "via" THEN [valid |-> FALSE, keymap |-> "raw"]
               ELSE [magic |-> FALSE, kb |-> ZeroKb]]
    /\ todo = <<>> /\ pc = "via_init"
    /\ keyboard_config = ZeroKb
    /\ current_os = "UNKNOWN" /\ device_len = -1 /\ config_len = -1
    /\ want = [os \in OsTypes |-> Unset] /\ ready = {}
    /\ unsaved = FALSE /\ mine = FALSE /\ blank = FALSE

-----------------------------------------------------------------------------
(* Calls, as the writes they make.                                         *)

Put(r, cell, value) == [to |-> r, cell |-> cell, value |-> value]

CopyTo(r, from) ==
    <<Put(r, "magic", from.magic), Put(r, "kb", from.kb)>>

mirror_os_eeconfig(os) == CopyTo(os, ee["base"])

load_os_eeconfig(os) == CopyTo("base", ee[os])

\* A mistake: the magic is validated before all is written.
init_via_early == <<Put("via", "valid", TRUE), Put("via", "keymap", "init")>>

\* The layout options, the keymap and the macros are one cell.
eeconfig_init_via ==
    <<Put("via", "valid", FALSE), Put("via", "keymap", "init"), Put("via", "valid", TRUE)>>

\* A mistake: the magic is left out.
host_os_init_kb == [i \in 1..Len(OsOrder) |-> Put(OsOrder[i], "kb", ee["base"].kb)]

\* The base as eeconfig_init_quantum has left it, with the board's word as it was, to
\* every region in turn.
host_os_eeconfig_init ==
    [i \in 1..(2 * Len(OsOrder)) |->
        IF i % 2 = 1 THEN Put(OsOrder[(i + 1) \div 2], "magic", TRUE)
        ELSE Put(OsOrder[i \div 2], "kb", ee["base"].kb)]

eeconfig_init_kb ==
    (IF keyboard_config.os_eeconfig THEN host_os_eeconfig_init ELSE <<>>)
        \o <<Put("base", "kb", ZeroKb)>>

eeconfig_init_quantum ==
    <<Put("base", "magic", TRUE), Put("via", "valid", FALSE)>>
        \o eeconfig_init_via \o eeconfig_init_kb

eeconfig_is_enabled == ee["base"].magic /\ ee["via"].valid

\* usb_host_os_identifier.c
get_usb_host_os_type ==
    IF config_len = 255 THEN "WIN"
    ELSE IF device_len = 8 THEN "MAC"
    ELSE IF device_len = 18 THEN "LINUX"
    ELSE "UNKNOWN"

-----------------------------------------------------------------------------
(* Boot.                                                                   *)

At(step, next) == todo = <<>> /\ pc = step /\ pc' = next

\* The next write of the call under way (eeprom_update_*: if it changes anything).
Write ==
    /\ todo # <<>> /\ todo' = Tail(todo)
    /\ ee' = [ee EXCEPT ![todo[1].to][todo[1].cell] = todo[1].value]
    /\ mine' = (mine \/ todo[1] = Put("via", "keymap", "custom"))
    /\ ready' = IF todo[1].cell = "kb" THEN ready \cup ({todo[1].to} \cap OsTypes) ELSE ready
    /\ UNCHANGED <<pc, ram, want, unsaved, blank>>

via_init ==
    /\ At("via_init", "magic")
    /\ todo' = IF ee["via"].valid THEN <<>> ELSE eeconfig_init_via
    /\ UNCHANGED <<ee, ram, history>>

magic ==
    /\ At("magic", "matrix_init")
    /\ todo' = IF eeconfig_is_enabled THEN <<>> ELSE eeconfig_init_quantum
    /\ UNCHANGED <<ee, ram, history>>

matrix_init_kb ==
    /\ At("matrix_init", "run")
    /\ keyboard_config' = ee["base"].kb
    /\ UNCHANGED <<ee, todo, current_os, device_len, config_len, history>>

\* RAM is cleared.  A choice that is not mirrored completely is lost.
Off ==
    LET cut == (IF unsaved THEN {current_os} ELSE {})
               \cup (IF todo # <<>> THEN {todo[1].to} \cap OsTypes ELSE {})
    IN  /\ todo' = <<>> /\ pc' = "via_init"
        /\ keyboard_config' = ZeroKb
        /\ current_os' = "UNKNOWN" /\ device_len' = -1 /\ config_len' = -1
        /\ want' = [os \in OsTypes |-> IF os \in cut \cup {"UNKNOWN"} THEN Unset ELSE want[os]]
        /\ unsaved' = FALSE

PowerLoss == Off /\ UNCHANGED <<ee, ready, mine, blank>>

\* Another firmware: of another day, to which what VIA has stored is of no use; or of
\* the same day, which takes it for its own, rightly or with another layout.
Update ==
    /\ Off /\ todo = <<>>
    /\ \E via \in {[valid |-> FALSE, keymap |-> "raw"],
                  ee["via"], [ee["via"] EXCEPT !.keymap = "foreign"]} :
          /\ ee' = [ee EXCEPT !["via"] = via]
          /\ mine' = (mine /\ via = ee["via"])
    /\ UNCHANGED <<ready, blank>>

-----------------------------------------------------------------------------
(* tud_task.                                                               *)

\* A mistake: 0 stands for no request.
SET_ADDRESS_0 ==
    /\ At("run", "run")
    /\ device_len' = 0 /\ config_len' = 0
    /\ UNCHANGED <<ee, todo, keyboard_config, current_os, history>>

SET_ADDRESS ==
    /\ At("run", "run")
    /\ device_len' = -1 /\ config_len' = -1
    /\ UNCHANGED <<ee, todo, keyboard_config, current_os, history>>

set_device_req_len(len) ==
    /\ At("run", "run")
    /\ device_len' = IF device_len = -1 THEN len ELSE device_len
    /\ UNCHANGED <<ee, todo, keyboard_config, current_os, config_len, history>>

set_config_req_len(len) ==
    /\ At("run", "run")
    /\ config_len' = IF config_len = -1 THEN len ELSE config_len
    /\ UNCHANGED <<ee, todo, keyboard_config, current_os, device_len, history>>

\* id_eeprom: a tool on the host turns the copies per OS on or off, behind the RAM's back.
SetOsEeconfig(on) ==
    /\ At("run", "run")
    /\ todo' = <<Put("base", "kb", [ee["base"].kb EXCEPT !.os_eeconfig = on])>>
    /\ UNCHANGED <<ee, ram, history>>

\* dynamic_keymap_set_keycode and _set_buffer.  A key set among foreign ones does not
\* make the keymap the user's.
dynamic_keymap_set ==
    /\ At("run", "run")
    /\ todo' = IF ee["via"].keymap \in {"raw", "foreign"} THEN <<>>
               ELSE <<Put("via", "keymap", "custom")>>
    /\ UNCHANGED <<ee, ram, history>>

dynamic_keymap_reset ==
    /\ At("run", "run")
    /\ todo' = <<Put("via", "keymap", "init")>>
    /\ mine' = FALSE
    /\ UNCHANGED <<ee, ram, want, unsaved, ready, blank>>

-----------------------------------------------------------------------------
(* matrix_scan_kb and process_record.                                      *)

\* host_os_eeconfig_update: the host is the same, ...
MirrorOs ==
    LET os == get_usb_host_os_type
    IN  /\ At("run", "run")
        /\ keyboard_config.os_eeconfig /\ current_os = os
        /\ todo' = mirror_os_eeconfig(os)
        /\ unsaved' = FALSE
        /\ UNCHANGED <<ee, ram, want, ready, mine, blank>>

\* A mistake: the word of the board is read before the region is loaded.
LoadOsLate ==
    LET os == get_usb_host_os_type
        kb == ee["base"].kb
    IN  /\ At("run", "run")
        /\ keyboard_config.os_eeconfig /\ current_os # os
        /\ current_os' = os
        /\ todo' = load_os_eeconfig(os)
        /\ keyboard_config' = kb
        /\ want' = IF unsaved THEN [want EXCEPT ![current_os] = Unset] ELSE want
        /\ unsaved' = FALSE
        /\ blank' = (blank \/ os \notin ready)
        /\ UNCHANGED <<ee, device_len, config_len, ready, mine>>

\* ... or it is another one.  What is loaded goes to RAM at once.
LoadOs ==
    LET os == get_usb_host_os_type
        kb == ee[os].kb
    IN  /\ At("run", "run")
        /\ keyboard_config.os_eeconfig /\ current_os # os
        /\ current_os' = os
        /\ todo' = load_os_eeconfig(os)
        /\ keyboard_config' = kb
        /\ want' = IF unsaved THEN [want EXCEPT ![current_os] = Unset] ELSE want
        /\ unsaved' = FALSE
        /\ blank' = (blank \/ os \notin ready)
        /\ UNCHANGED <<ee, device_len, config_len, ready, mine>>

\* One of the keys that choose a mode (process_record_kb).
ChooseMode(mode) ==
    LET kb == [keyboard_config EXCEPT !.override_mode = mode]
    IN  /\ At("run", "run")
        /\ keyboard_config' = kb
        /\ todo' = <<Put("base", "kb", kb)>>
        /\ want' = [want EXCEPT ![current_os] = IF kb.os_eeconfig THEN mode ELSE @]
        /\ unsaved' = kb.os_eeconfig
        /\ UNCHANGED <<ee, current_os, device_len, config_len, ready, mine, blank>>

\* EEPROM_RESET.
EEPROM_RESET ==
    /\ At("run", "run")
    /\ todo' = eeconfig_init_quantum
    /\ keyboard_config' = ZeroKb
    /\ want' = [os \in OsTypes |-> Unset]
    /\ mine' = FALSE /\ unsaved' = FALSE
    /\ UNCHANGED <<ee, current_os, device_len, config_len, ready, blank>>

-----------------------------------------------------------------------------
Usb ==
    \/ SET_ADDRESS
    \/ \E len \in DeviceLens : set_device_req_len(len)
    \/ \E len \in ConfigLens : set_config_req_len(len)
    \/ \E on \in BOOLEAN : SetOsEeconfig(on)
    \/ dynamic_keymap_set \/ dynamic_keymap_reset

Next ==
    \/ Write \/ via_init \/ magic \/ matrix_init_kb
    \/ Usb \/ MirrorOs \/ LoadOs
    \/ \E mode \in Modes : ChooseMode(mode)
    \/ EEPROM_RESET
    \/ PowerLoss \/ Update

Spec == Init /\ [][Next]_vars

-----------------------------------------------------------------------------
Writes == UNION {[to : OsTypes \cup {"base"}, cell : {"magic"}, value : BOOLEAN],
                 [to : OsTypes \cup {"base"}, cell : {"kb"}, value : Kb],
                 [to : {"via"}, cell : {"valid"}, value : BOOLEAN],
                 [to : {"via"}, cell : {"keymap"}, value : {"init", "custom"}]}

TypeOK ==
    /\ DOMAIN ee = OsTypes \cup {"base", "via"} /\ ee["via"] \in Via
    /\ \A r \in OsTypes \cup {"base"} : ee[r] \in Region
    /\ todo \in Seq(Writes)
    /\ pc \in {"via_init", "magic", "matrix_init", "run"}
    /\ keyboard_config \in Kb /\ current_os \in OsTypes
    /\ device_len \in {-1} \cup DeviceLens /\ config_len \in {-1} \cup ConfigLens
    /\ want \in [OsTypes -> Modes \cup {Unset}] /\ ready \subseteq OsTypes
    /\ {unsaved, mine, blank} \subseteq BOOLEAN

\* "If the EEPROM has the magic, the data is good" (via.c:101) whenever the power was
\* cut during an initialisation or the firmware changed to one of another day: an
\* initialisation has gone through since.  A firmware of the same day with another
\* layout is the exception: it finds its magic over foreign data.
ViaSound == ee["via"].valid => ee["via"].keymap # "raw"

Running == todo = <<>> /\ pc = "run"

\* On an OS the overrides are those the user chose when last on it, through changes of
\* the host, a host taken for another while it enumerates, and power losses, unless the
\* choice was cut off before the next scan had mirrored it.  What was chosen while no
\* system had been told, on UNKNOWN, counts only until the power goes off: the board
\* starts on UNKNOWN without loading its region.
PerOsRestored ==
    Running /\ keyboard_config.os_eeconfig /\ want[current_os] # Unset =>
        keyboard_config.override_mode = want[current_os]

\* The user's keymap stays until a reset is asked for or the firmware changes to one of
\* another day or layout, if no region is loaded that was never written: its magic would
\* make the next boot initialise everything.
KeymapKept == Running /\ mine /\ ~blank => ee["via"].keymap = "custom"
=============================================================================
