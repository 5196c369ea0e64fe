------------------------- MODULE StoredConfigProofs -------------------------
(***************************************************************************)
(* Proofs about the stored configuration, for any set of host systems, and *)
(* for power losses between any two writes of any call.                    *)
(***************************************************************************)
EXTENDS StoredConfig, SequenceTheorems, TLAPS

-----------------------------------------------------------------------------
(* Types.                                                                  *)

Regions == OsTypes \cup {"base"}

\* The regions of the host systems are neither the base nor what VIA keeps.
LEMMA RegionNames ==
    /\ OsTypes \subseteq {"UNKNOWN", "WIN", "MAC", "LINUX"}
    /\ "base" \notin OsTypes /\ "via" \notin Regions /\ "UNKNOWN" \in OsTypes
BY ConfigAssumption DEF OsTypes, Regions

\* The writes that the calls are made of.
LEMMA PutTypes ==
    /\ \A r \in Regions, b \in BOOLEAN : Put(r, "magic", b) \in Writes
    /\ \A r \in Regions, kb \in Kb : Put(r, "kb", kb) \in Writes
    /\ \A b \in BOOLEAN : Put("via", "valid", b) \in Writes
    /\ \A k \in {"init", "custom"} : Put("via", "keymap", k) \in Writes
    /\ Put("base", "magic", TRUE) \in Writes
    /\ Put("via", "valid", TRUE) \in Writes /\ Put("via", "valid", FALSE) \in Writes
<1>1. /\ \A r \in Regions, b \in BOOLEAN : Put(r, "magic", b) \in Writes
      /\ \A r \in Regions, kb \in Kb : Put(r, "kb", kb) \in Writes
      /\ \A b \in BOOLEAN : Put("via", "valid", b) \in Writes
      /\ \A k \in {"init", "custom"} : Put("via", "keymap", k) \in Writes
  BY DEF Put, Writes, Regions
<1>2. "base" \in Regions /\ TRUE \in BOOLEAN /\ FALSE \in BOOLEAN
  BY DEF Regions
<1> QED
  BY <1>1, <1>2, Zenon

\* Short tuples are sequences.
LEMMA TupleSeq ==
    ASSUME NEW S, NEW a \in S, NEW b \in S, NEW c \in S
    PROVE  <<a, b>> \in Seq(S) /\ <<a, b, c>> \in Seq(S)
OBVIOUS

\* The copy of a region is two writes.
LEMMA CopyTypes ==
    ASSUME NEW r \in Regions, NEW from \in Region
    PROVE  CopyTo(r, from) \in Seq(Writes)
<1>1. Put(r, "magic", from.magic) \in Writes /\ Put(r, "kb", from.kb) \in Writes
  BY PutTypes DEF Region
<1> QED
  BY <1>1 DEF CopyTo

\* What a board has when nothing is stored.
LEMMA ZeroIsKb == ZeroKb \in Kb
BY ConfigAssumption DEF ZeroKb, Kb

\* The copies that an initialisation writes are one pair of writes per system.
LEMMA InitCopiesTypes ==
    ASSUME TypeOK
    PROVE  host_os_eeconfig_init \in Seq(Writes)
<1> DEFINE n == Len(OsOrder)
<1>1. n \in Nat /\ 2 * n \in Nat
  BY ConfigAssumption
<1>2. ASSUME NEW i \in 1 .. (2 * n)
      PROVE  host_os_eeconfig_init[i] \in Writes
  <2>1. i % 2 = 1 => (i + 1) \div 2 \in 1 .. n
    BY <1>1
  <2>2. i % 2 # 1 => i \div 2 \in 1 .. n
    BY <1>1
  <2>3. i % 2 = 1 => OsOrder[(i + 1) \div 2] \in Regions
    BY <2>1 DEF OsTypes, Regions
  <2>4. i % 2 # 1 => OsOrder[i \div 2] \in Regions
    BY <2>2 DEF OsTypes, Regions
  <2>5. ee["base"].kb \in Kb
    BY DEF TypeOK, Region
  <2> QED
    BY <2>3, <2>4, <2>5, PutTypes DEF host_os_eeconfig_init
<1>3. host_os_eeconfig_init = [i \in 1 .. (2 * n) |-> host_os_eeconfig_init[i]]
  BY DEF host_os_eeconfig_init
<1> HIDE DEF n
<1>4. [i \in 1 .. (2 * n) |-> host_os_eeconfig_init[i]] \in [1 .. (2 * n) -> Writes]
  BY <1>2
<1>5. host_os_eeconfig_init \in [1 .. (2 * n) -> Writes]
  BY <1>3, <1>4
<1> QED
  BY <1>1, <1>5

\* The calls that initialise are sequences of writes.
LEMMA InitCallTypes ==
    ASSUME TypeOK
    PROVE  /\ eeconfig_init_via \in Seq(Writes)
           /\ eeconfig_init_kb \in Seq(Writes)
           /\ eeconfig_init_quantum \in Seq(Writes)
           /\ <<Put("base", "kb", ZeroKb)>> \in Seq(Writes)
           /\ (IF keyboard_config.os_eeconfig THEN host_os_eeconfig_init ELSE <<>>) \in Seq(Writes)
           /\ <<Put("base", "magic", TRUE), Put("via", "valid", FALSE)>> \in Seq(Writes)
<1>1. eeconfig_init_via \in Seq(Writes)
  <2>1. /\ Put("via", "valid", FALSE) \in Writes /\ Put("via", "keymap", "init") \in Writes
        /\ Put("via", "valid", TRUE) \in Writes
    BY PutTypes
  <2> QED
    BY <2>1, TupleSeq, Zenon DEF eeconfig_init_via
<1>2. <<Put("base", "kb", ZeroKb)>> \in Seq(Writes)
  BY PutTypes, ZeroIsKb DEF Regions
<1>3. (IF keyboard_config.os_eeconfig THEN host_os_eeconfig_init ELSE <<>>) \in Seq(Writes)
  BY InitCopiesTypes, EmptySeq
<1>4. eeconfig_init_kb \in Seq(Writes)
  BY <1>2, <1>3, ConcatProperties DEF eeconfig_init_kb
<1>5. <<Put("base", "magic", TRUE), Put("via", "valid", FALSE)>> \in Seq(Writes)
  <2>1. Put("base", "magic", TRUE) \in Writes /\ Put("via", "valid", FALSE) \in Writes
    BY PutTypes
  <2> QED
    BY <2>1, TupleSeq, Zenon
<1> HIDE DEF eeconfig_init_via, eeconfig_init_kb
<1>6. eeconfig_init_quantum \in Seq(Writes)
  BY <1>1, <1>4, <1>5, ConcatProperties DEF eeconfig_init_quantum
<1> QED
  BY <1>1, <1>2, <1>3, <1>4, <1>5, <1>6, Zenon

\* One write of a call changes one cell, and keeps its type.
LEMMA WriteTypes ==
    ASSUME TypeOK, NEW w \in Writes
    PROVE  LET new == [ee EXCEPT ![w.to][w.cell] = w.value]
           IN  /\ DOMAIN new = OsTypes \cup {"base", "via"} /\ new["via"] \in Via
               /\ \A r \in Regions : new[r] \in Region
<1> DEFINE new == [ee EXCEPT ![w.to][w.cell] = w.value]
<1>1. /\ DOMAIN new = OsTypes \cup {"base", "via"}
      /\ \A r \in DOMAIN new : new[r] = IF r = w.to THEN [ee[r] EXCEPT ![w.cell] = w.value]
                                        ELSE ee[r]
  BY DEF TypeOK
<1> HIDE DEF new
<1>2. CASE w.to \in Regions /\ (   (w.cell = "magic" /\ w.value \in BOOLEAN)
                                \/ (w.cell = "kb" /\ w.value \in Kb))
  <2>1. [ee[w.to] EXCEPT ![w.cell] = w.value] \in Region
    BY <1>2 DEF TypeOK, Region, Regions
  <2>2. w.to # "via"
    BY <1>2, RegionNames
  <2> QED
    BY <1>1, <2>1, <2>2, RegionNames DEF TypeOK, Regions, new
<1>3. CASE w.to = "via" /\ (   (w.cell = "valid" /\ w.value \in BOOLEAN)
                            \/ (w.cell = "keymap" /\ w.value \in {"init", "custom"}))
  <2>1. [ee["via"] EXCEPT ![w.cell] = w.value] \in Via
    BY <1>3 DEF TypeOK, Via
  <2> QED
    BY <1>1, <1>3, <2>1, RegionNames DEF TypeOK, Regions, new
<1> QED
  BY <1>2, <1>3 DEF Writes, Regions
-----------------------------------------------------------------------------
(* TypeOK.                                                                 *)

\* Nothing is stored at the start.
LEMMA InitTypes == Init => TypeOK
<1> SUFFICES ASSUME Init PROVE TypeOK
  OBVIOUS
<1>1. ZeroKb \in Kb /\ "via" \notin Regions
  BY ZeroIsKb, RegionNames
<1>2. [valid |-> FALSE, keymap |-> "raw"] \in Via /\ [magic |-> FALSE, kb |-> ZeroKb] \in Region
  BY <1>1 DEF Via, Region
<1>3. /\ DOMAIN ee = OsTypes \cup {"base", "via"} /\ ee["via"] \in Via
      /\ \A r \in OsTypes \cup {"base"} : ee[r] \in Region
  BY <1>1, <1>2 DEF Init, Regions
<1>4. todo \in Seq(Writes)
  BY EmptySeq DEF Init
<1>5. want \in [OsTypes -> Modes \cup {Unset}]
  BY DEF Init
<1> QED
  BY <1>1, <1>3, <1>4, <1>5, RegionNames DEF Init, TypeOK

\* What the decision finds is a system of the constants.
LEMMA OsIsKnown ==
    ASSUME TypeOK
    PROVE  get_usb_host_os_type \in OsTypes
<1>1. config_len = 255 => 255 \in ConfigLens
  BY DEF TypeOK
<1>2. device_len = 8 => 8 \in DeviceLens
  BY DEF TypeOK
<1>3. device_len = 18 => 18 \in DeviceLens
  BY DEF TypeOK
<1> QED
  BY <1>1, <1>2, <1>3, ConfigAssumption DEF get_usb_host_os_type

\* One write of the call under way.
LEMMA WriteStepTypes ==
    ASSUME TypeOK, Write
    PROVE  TypeOK'
<1>1. todo \in Seq(Writes) /\ todo # <<>>
  BY DEF TypeOK, Write
<1>2. todo[1] \in Writes /\ Tail(todo) \in Seq(Writes)
  BY <1>1
<1>3. /\ DOMAIN ee' = OsTypes \cup {"base", "via"} /\ ee'["via"] \in Via
      /\ \A r \in OsTypes \cup {"base"} : ee'[r] \in Region
  BY <1>2, WriteTypes DEF Write, Regions
<1>4. mine' \in BOOLEAN /\ ready' \subseteq OsTypes
  BY DEF Write, TypeOK
<1> QED
  BY <1>2, <1>3, <1>4 DEF Write, TypeOK, ram

\* The steps of the boot.
LEMMA BootTypes ==
    ASSUME TypeOK, via_init \/ magic \/ matrix_init_kb
    PROVE  TypeOK'
<1>1. <<>> \in Seq(Writes)
  BY EmptySeq
<1>2. eeconfig_init_via \in Seq(Writes) /\ eeconfig_init_quantum \in Seq(Writes)
  BY InitCallTypes
<1>3. CASE via_init
  <2>1. todo' \in Seq(Writes)
    BY <1>1, <1>2, <1>3 DEF via_init
  <2> QED
    BY <1>3, <2>1 DEF via_init, At, TypeOK, ram, history
<1>4. CASE magic
  <2>1. todo' \in Seq(Writes)
    BY <1>1, <1>2, <1>4 DEF magic
  <2> QED
    BY <1>4, <2>1 DEF magic, At, TypeOK, ram, history
<1>5. CASE matrix_init_kb
  <2>1. keyboard_config' \in Kb
    BY <1>5 DEF matrix_init_kb, TypeOK, Region
  <2> QED
    BY <1>5, <2>1 DEF matrix_init_kb, At, TypeOK, history
<1> QED
  BY <1>3, <1>4, <1>5

\* The power is lost, or the firmware is changed.
LEMMA OffTypes ==
    ASSUME TypeOK, PowerLoss \/ Update
    PROVE  TypeOK'
<1>1. Off /\ ready' = ready /\ blank' = blank /\ mine' \in BOOLEAN
  BY DEF PowerLoss, Update, TypeOK
<1>2. /\ todo' \in Seq(Writes) /\ keyboard_config' \in Kb /\ current_os' \in OsTypes
      /\ want' \in [OsTypes -> Modes \cup {Unset}]
  BY <1>1, EmptySeq, ZeroIsKb, RegionNames DEF Off, TypeOK
<1>3. /\ DOMAIN ee' = OsTypes \cup {"base", "via"} /\ ee'["via"] \in Via
      /\ \A r \in OsTypes \cup {"base"} : ee'[r] \in Region
  <2>1. CASE PowerLoss
    BY <2>1 DEF PowerLoss, TypeOK
  <2>2. CASE Update
    <3>1. PICK via \in {[valid |-> FALSE, keymap |-> "raw"],
                       ee["via"], [ee["via"] EXCEPT !.keymap = "foreign"]} :
               ee' = [ee EXCEPT !["via"] = via]
      BY <2>2 DEF Update
    <3>2. via \in Via
      <4>1. ee["via"] \in Via
        BY DEF TypeOK
      <4>2. [ee["via"] EXCEPT !.keymap = "foreign"] \in Via
        BY <4>1 DEF Via
      <4>3. [valid |-> FALSE, keymap |-> "raw"] \in Via
        BY DEF Via
      <4> QED
        BY <3>1, <4>1, <4>2, <4>3
    <3>3. DOMAIN ee' = OsTypes \cup {"base", "via"} /\ ee'["via"] = via
      BY <3>1 DEF TypeOK
    <3>4. \A r \in OsTypes \cup {"base"} : ee'[r] = ee[r]
      BY <3>1, RegionNames DEF TypeOK, Regions
    <3> QED
      BY <3>2, <3>3, <3>4 DEF TypeOK
  <2> QED
    BY <2>1, <2>2
<1> QED
  BY <1>1, <1>2, <1>3 DEF Off, TypeOK

\* Requests of the host.
LEMMA UsbTypes ==
    ASSUME TypeOK, Usb
    PROVE  TypeOK'
<1>1. CASE SET_ADDRESS
  BY <1>1 DEF SET_ADDRESS, At, TypeOK, history
<1>2. CASE \E len \in DeviceLens : set_device_req_len(len)
  BY <1>2 DEF set_device_req_len, At, TypeOK, history
<1>3. CASE \E len \in ConfigLens : set_config_req_len(len)
  BY <1>3 DEF set_config_req_len, At, TypeOK, history
<1>4. CASE \E on \in BOOLEAN : SetOsEeconfig(on)
  <2>1. PICK on \in BOOLEAN : SetOsEeconfig(on)
    BY <1>4
  <2>2. [ee["base"].kb EXCEPT !.os_eeconfig = on] \in Kb
    BY DEF TypeOK, Region, Kb
  <2>3. Put("base", "kb", [ee["base"].kb EXCEPT !.os_eeconfig = on]) \in Writes
    BY <2>2, PutTypes DEF Regions
  <2>4. todo' \in Seq(Writes)
    BY <2>1, <2>3 DEF SetOsEeconfig
  <2> QED
    BY <2>1, <2>4 DEF SetOsEeconfig, At, TypeOK, ram, history
<1>5. CASE dynamic_keymap_set \/ dynamic_keymap_reset
  <2>1. /\ <<Put("via", "keymap", "custom")>> \in Seq(Writes)
        /\ <<Put("via", "keymap", "init")>> \in Seq(Writes)
        /\ <<>> \in Seq(Writes)
    BY PutTypes, EmptySeq
  <2>2. todo' \in Seq(Writes)
    BY <1>5, <2>1 DEF dynamic_keymap_set, dynamic_keymap_reset
  <2>3. mine' \in BOOLEAN
    BY <1>5 DEF dynamic_keymap_set, dynamic_keymap_reset, TypeOK, history
  <2> QED
    BY <1>5, <2>2, <2>3 DEF dynamic_keymap_set, dynamic_keymap_reset, At, TypeOK, ram, history
<1> QED
  BY <1>1, <1>2, <1>3, <1>4, <1>5 DEF Usb

\* A scan, with the host's system the same or another.
LEMMA ScanTypes ==
    ASSUME TypeOK, MirrorOs \/ LoadOs
    PROVE  TypeOK'
<1> DEFINE os == get_usb_host_os_type
<1>1. os \in OsTypes /\ os \in Regions /\ "base" \in Regions
  BY OsIsKnown DEF Regions
<1>2. ee["base"] \in Region /\ ee[os] \in Region
  BY <1>1 DEF TypeOK
<1>3. mirror_os_eeconfig(os) \in Seq(Writes) /\ load_os_eeconfig(os) \in Seq(Writes)
  BY <1>1, <1>2, CopyTypes DEF mirror_os_eeconfig, load_os_eeconfig
<1>4. ee[os].kb \in Kb
  BY <1>2 DEF Region
<1> HIDE DEF os
<1>5. CASE MirrorOs
  <2>1. /\ todo' = mirror_os_eeconfig(os) /\ unsaved' = FALSE /\ pc' = "run"
        /\ UNCHANGED <<ee, ram, want, ready, mine, blank>>
    BY <1>5 DEF MirrorOs, At, os
  <2> QED
    BY <1>3, <2>1 DEF TypeOK, ram
<1>6. CASE LoadOs
  <2>1. /\ current_os' = os /\ todo' = load_os_eeconfig(os) /\ keyboard_config' = ee[os].kb
        /\ want' = IF unsaved THEN [want EXCEPT ![current_os] = Unset] ELSE want
        /\ unsaved' = FALSE /\ blank' = (blank \/ os \notin ready) /\ pc' = "run"
        /\ UNCHANGED <<ee, device_len, config_len, ready, mine>>
    BY <1>6 DEF LoadOs, At, os
  <2>2. want' \in [OsTypes -> Modes \cup {Unset}]
    BY <2>1 DEF TypeOK
  <2>3. blank' \in BOOLEAN /\ unsaved' \in BOOLEAN
    BY <2>1 DEF TypeOK
  <2> QED
    BY <1>1, <1>3, <1>4, <2>1, <2>2, <2>3 DEF TypeOK
<1> QED
  BY <1>5, <1>6

\* The keys of the board.
LEMMA KeyTypes ==
    ASSUME TypeOK, EEPROM_RESET \/ \E mode \in Modes : ChooseMode(mode)
    PROVE  TypeOK'
<1>1. CASE \E mode \in Modes : ChooseMode(mode)
  <2>1. PICK mode \in Modes : ChooseMode(mode)
    BY <1>1
  <2> DEFINE kb == [keyboard_config EXCEPT !.override_mode = mode]
  <2>2. kb \in Kb /\ kb.os_eeconfig \in BOOLEAN
    BY DEF TypeOK, Kb
  <2>3. Put("base", "kb", kb) \in Writes
    BY <2>2, PutTypes DEF Regions
  <2>4. /\ keyboard_config' = kb /\ todo' = <<Put("base", "kb", kb)>> /\ pc' = "run"
        /\ want' = [want EXCEPT ![current_os] = IF kb.os_eeconfig THEN mode ELSE @]
        /\ unsaved' = kb.os_eeconfig
        /\ UNCHANGED <<ee, current_os, device_len, config_len, ready, mine, blank>>
    BY <2>1 DEF ChooseMode, At
  <2> HIDE DEF kb
  <2>5. want' \in [OsTypes -> Modes \cup {Unset}] /\ todo' \in Seq(Writes)
    BY <2>3, <2>4 DEF TypeOK
  <2> QED
    BY <2>2, <2>4, <2>5 DEF TypeOK
<1>2. CASE EEPROM_RESET
  <2>1. todo' \in Seq(Writes) /\ keyboard_config' \in Kb
    BY <1>2, InitCallTypes, ZeroIsKb DEF EEPROM_RESET
  <2> QED
    BY <1>2, <2>1 DEF EEPROM_RESET, At, TypeOK
<1> QED
  BY <1>1, <1>2

\* Every step keeps the types.
LEMMA StepTypes == TypeOK /\ [Next]_vars => TypeOK'
<1> SUFFICES ASSUME TypeOK, [Next]_vars PROVE TypeOK'
  OBVIOUS
<1>1. CASE UNCHANGED vars
  BY <1>1 DEF vars, ram, history, TypeOK
<1> QED
  BY <1>1, WriteStepTypes, BootTypes, UsbTypes, ScanTypes, KeyTypes, OffTypes DEF Next

\* The EEPROM, the call under way and what is remembered keep their types, for any set
\* of host systems: every call writes only what its cell can hold.
THEOREM ConfigTypes == Spec => []TypeOK
BY InitTypes, StepTypes, PTL DEF Spec
-----------------------------------------------------------------------------
(* ViaSound: no call validates before it has written the keymap.           *)

WritesKeymap(w) == w.to = "via" /\ w.cell = "keymap"
Validates(w)    == w.to = "via" /\ w.cell = "valid" /\ w.value = TRUE

\* In a call, the keymap is written before the magic that vouches for it.
KeymapFirst(s) ==
    \A i \in DOMAIN s : Validates(s[i]) => \E j \in 1 .. (i - 1) : WritesKeymap(s[j])

ViaInv ==
    /\ ViaSound
    /\ ee["via"].keymap = "raw" => KeymapFirst(todo)

\* Two calls in a row.
LEMMA ConcatKeymapFirst ==
    ASSUME NEW s \in Seq(Writes), NEW t \in Seq(Writes), KeymapFirst(s), KeymapFirst(t)
    PROVE  KeymapFirst(s \o t)
<1> DEFINE u == s \o t
<1>1. /\ u \in Seq(Writes) /\ Len(u) = Len(s) + Len(t) /\ Len(s) \in Nat /\ Len(t) \in Nat
      /\ \A i \in 1 .. Len(u) : u[i] = IF i <= Len(s) THEN s[i] ELSE t[i - Len(s)]
  BY ConcatProperties, LenProperties
<1> HIDE DEF u
<1>2. ASSUME NEW i \in 1 .. Len(u), Validates(u[i])
      PROVE  \E j \in 1 .. (i - 1) : WritesKeymap(u[j])
  <2>1. CASE i <= Len(s)
    <3>1. Validates(s[i]) /\ i \in DOMAIN s
      BY <1>1, <1>2, <2>1
    <3>2. PICK j \in 1 .. (i - 1) : WritesKeymap(s[j])
      BY <3>1 DEF KeymapFirst
    <3>3. u[j] = s[j]
      BY <1>1, <2>1, <3>2
    <3> QED
      BY <3>2, <3>3
  <2>2. CASE i > Len(s)
    <3> DEFINE k == i - Len(s)
    <3>1. Validates(t[k]) /\ k \in DOMAIN t
      BY <1>1, <1>2, <2>2
    <3>2. PICK j \in 1 .. (k - 1) : WritesKeymap(t[j])
      BY <3>1 DEF KeymapFirst
    <3>3. u[j + Len(s)] = t[j] /\ j + Len(s) \in 1 .. (i - 1)
      BY <1>1, <2>2, <3>2
    <3> QED
      BY <3>2, <3>3
  <2> QED
    BY <1>1, <2>1, <2>2
<1>3. DOMAIN u = 1 .. Len(u)
  BY <1>1
<1> QED
  BY <1>2, <1>3 DEF KeymapFirst, u

\* A call that validates nothing.
LEMMA NothingValidated ==
    ASSUME NEW s, \A i \in DOMAIN s : ~Validates(s[i])
    PROVE  KeymapFirst(s)
BY DEF KeymapFirst

\* The calls that initialise.
LEMMA InitCallsKeymapFirst ==
    ASSUME TypeOK
    PROVE  KeymapFirst(eeconfig_init_via) /\ KeymapFirst(eeconfig_init_quantum)
<1>1. KeymapFirst(eeconfig_init_via)
  BY DEF KeymapFirst, eeconfig_init_via, Validates, WritesKeymap, Put
<1>2. KeymapFirst(<<Put("base", "kb", ZeroKb)>>) /\ KeymapFirst(<<>>)
  BY DEF KeymapFirst, Validates, Put
<1>3. KeymapFirst(host_os_eeconfig_init)
  BY NothingValidated DEF host_os_eeconfig_init, Validates, Put
<1>4. KeymapFirst(<<Put("base", "magic", TRUE), Put("via", "valid", FALSE)>>)
  BY DEF KeymapFirst, Validates, Put
<1>5. /\ <<Put("base", "kb", ZeroKb)>> \in Seq(Writes)
      /\ <<Put("base", "magic", TRUE), Put("via", "valid", FALSE)>> \in Seq(Writes)
      /\ (IF keyboard_config.os_eeconfig THEN host_os_eeconfig_init ELSE <<>>) \in Seq(Writes)
  BY InitCallTypes, Zenon
<1>6. eeconfig_init_via \in Seq(Writes) /\ eeconfig_init_kb \in Seq(Writes)
  BY InitCallTypes, Zenon
<1>7. KeymapFirst(eeconfig_init_kb)
  BY <1>2, <1>3, <1>5, ConcatKeymapFirst DEF eeconfig_init_kb
<1> HIDE DEF eeconfig_init_via
<1>8. LET s == <<Put("base", "magic", TRUE), Put("via", "valid", FALSE)>> \o eeconfig_init_via
      IN  KeymapFirst(s) /\ s \in Seq(Writes)
  BY <1>1, <1>4, <1>5, <1>6, ConcatKeymapFirst, ConcatProperties
<1> QED
  BY <1>1, <1>6, <1>7, <1>8, ConcatKeymapFirst DEF eeconfig_init_quantum

\* One write.  The keymap is never raw again; the first write of a call does not
\* validate unless the keymap is whole.
LEMMA WriteViaInv ==
    ASSUME TypeOK, ViaInv, Write
    PROVE  ViaInv'
<1> DEFINE w == todo[1]
<1>1. /\ todo \in Seq(Writes) /\ todo # <<>> /\ w \in Writes /\ todo' = Tail(todo)
      /\ Len(todo) \in Nat \ {0} /\ DOMAIN todo = 1 .. Len(todo)
      /\ DOMAIN (Tail(todo)) = 1 .. (Len(todo) - 1)
      /\ \A i \in 1 .. (Len(todo) - 1) : Tail(todo)[i] = todo[i + 1]
  BY DEF TypeOK, Write
<1>2. /\ ee["via"] \in Via /\ "via" \in DOMAIN ee
      /\ ee' = [ee EXCEPT ![w.to][w.cell] = w.value]
  BY DEF TypeOK, Write
<1>3. ee'["via"] = IF w.to = "via" THEN [ee["via"] EXCEPT ![w.cell] = w.value] ELSE ee["via"]
  BY <1>2
<1> HIDE DEF w
<1>4. WritesKeymap(w) => w.value \in {"init", "custom"}
  BY <1>1, RegionNames DEF WritesKeymap, Writes, Regions
<1>5. w.to = "via" => \/ WritesKeymap(w)
                      \/ w.cell = "valid" /\ w.value \in BOOLEAN
  BY <1>1, RegionNames DEF WritesKeymap, Writes, Regions
<1>6. CASE ee["via"].keymap # "raw" \/ WritesKeymap(w)
  <2>1. ee'["via"].keymap # "raw"
    BY <1>2, <1>3, <1>4, <1>5, <1>6 DEF WritesKeymap, Via
  <2> QED
    BY <2>1 DEF ViaInv, ViaSound
<1>7. CASE ee["via"].keymap = "raw" /\ ~WritesKeymap(w)
  <2>1. KeymapFirst(todo) /\ ~ee["via"].valid
    BY <1>7 DEF ViaInv, ViaSound
  <2>2. ~Validates(w)
    BY <1>1, <2>1 DEF KeymapFirst, w
  <2>3. ~ee'["via"].valid
    BY <1>2, <1>3, <1>5, <1>7, <2>1, <2>2 DEF Validates, Via
  <2> DEFINE s == Tail(todo)
  <2>4. ASSUME NEW i \in 1 .. (Len(todo) - 1), Validates(s[i])
        PROVE  \E j \in 1 .. (i - 1) : WritesKeymap(s[j])
    <3>1. i + 1 \in DOMAIN todo /\ Validates(todo[i + 1])
      BY <1>1, <2>4
    <3>2. PICK j \in 1 .. ((i + 1) - 1) : WritesKeymap(todo[j])
      BY <2>1, <2>4, <3>1 DEF KeymapFirst
    <3>3. j # 1
      BY <1>7, <3>2 DEF w
    <3>4. j - 1 \in 1 .. (i - 1) /\ s[j - 1] = todo[j]
      <4>1. j - 1 \in 1 .. (Len(todo) - 1) /\ (j - 1) + 1 = j /\ j - 1 \in 1 .. (i - 1)
        BY <3>2, <3>3, <1>1
      <4> QED
        BY <1>1, <4>1
    <3> QED
      BY <3>2, <3>4
  <2> HIDE DEF s
  <2>5. KeymapFirst(s)
    BY <1>1, <2>4 DEF KeymapFirst, s
  <2>6. KeymapFirst(todo')
    BY <1>1, <2>5 DEF KeymapFirst, s
  <2> QED
    BY <2>3, <2>6 DEF ViaInv, ViaSound
<1> QED
  BY <1>6, <1>7

\* Every other step leaves the EEPROM alone and begins a call or none; an update makes
\* what is stored worthless, and invalid.
LEMMA CallViaInv ==
    ASSUME TypeOK, ViaInv, Next, ~Write
    PROVE  ViaInv'
<1>1. KeymapFirst(<<>>)
  BY DEF KeymapFirst
<1>2. ASSUME NEW r \in Regions, NEW from
      PROVE  KeymapFirst(CopyTo(r, from))
  BY RegionNames DEF KeymapFirst, CopyTo, Put, Validates
<1>3. \A r, v : KeymapFirst(<<Put(r, "kb", v)>>) /\ KeymapFirst(<<Put(r, "keymap", v)>>)
  BY DEF KeymapFirst, Put, Validates
<1>4. KeymapFirst(eeconfig_init_via) /\ KeymapFirst(eeconfig_init_quantum)
  BY InitCallsKeymapFirst
<1>5. get_usb_host_os_type \in Regions /\ "base" \in Regions
  BY OsIsKnown DEF Regions
<1>6. CASE via_init \/ magic \/ matrix_init_kb
  <2>1. ee' = ee /\ KeymapFirst(todo')
    BY <1>1, <1>4, <1>6 DEF via_init, magic, matrix_init_kb, At
  <2> QED
    BY <2>1 DEF ViaInv, ViaSound
<1>7. CASE Usb
  <2>1. /\ ee' = ee
        /\ \/ todo' = <<>>
           \/ \E v : todo' = <<Put("base", "kb", v)>>
           \/ \E v : todo' = <<Put("via", "keymap", v)>>
    BY <1>7 DEF Usb, SET_ADDRESS, set_device_req_len, set_config_req_len,
                SetOsEeconfig, dynamic_keymap_set, dynamic_keymap_reset, At
  <2>2. KeymapFirst(todo')
    BY <1>1, <1>3, <2>1
  <2> QED
    BY <2>1, <2>2 DEF ViaInv, ViaSound
<1>8. CASE MirrorOs \/ LoadOs
  <2>1. ee' = ee /\ KeymapFirst(todo')
    BY <1>2, <1>5, <1>8 DEF MirrorOs, LoadOs, mirror_os_eeconfig, load_os_eeconfig
  <2> QED
    BY <2>1 DEF ViaInv, ViaSound
<1>9. CASE EEPROM_RESET \/ \E mode \in Modes : ChooseMode(mode)
  <2>1. /\ ee' = ee
        /\ \/ todo' = eeconfig_init_quantum
           \/ \E v : todo' = <<Put("base", "kb", v)>>
    BY <1>9 DEF EEPROM_RESET, ChooseMode
  <2>2. KeymapFirst(todo')
    BY <1>3, <1>4, <2>1
  <2> QED
    BY <2>1, <2>2 DEF ViaInv, ViaSound
<1>10. CASE PowerLoss
  <2>1. ee' = ee /\ KeymapFirst(todo')
    BY <1>1, <1>10 DEF PowerLoss, Off
  <2> QED
    BY <2>1 DEF ViaInv, ViaSound
<1>11. CASE Update
  <2>1. KeymapFirst(todo')
    BY <1>1, <1>11 DEF Update, Off
  <2>2. PICK via \in {[valid |-> FALSE, keymap |-> "raw"],
                     ee["via"], [ee["via"] EXCEPT !.keymap = "foreign"]} :
             ee' = [ee EXCEPT !["via"] = via]
    BY <1>11 DEF Update
  <2>3. ee'["via"] = via
    BY <2>2 DEF TypeOK
  <2>4. via.valid => via.keymap # "raw"
    <3>1. ee["via"] \in Via /\ (ee["via"].valid => ee["via"].keymap # "raw")
      BY DEF ViaInv, ViaSound, TypeOK
    <3>2. [ee["via"] EXCEPT !.keymap = "foreign"].keymap # "raw"
      BY <3>1 DEF Via
    <3>3. CASE via = [valid |-> FALSE, keymap |-> "raw"]
      BY <3>3
    <3>4. CASE via = ee["via"]
      BY <3>1, <3>4
    <3>5. CASE via = [ee["via"] EXCEPT !.keymap = "foreign"]
      BY <3>2, <3>5
    <3> QED
      BY <2>2, <3>3, <3>4, <3>5
  <2> QED
    BY <2>1, <2>3, <2>4 DEF ViaInv, ViaSound
<1> QED
  BY <1>6, <1>7, <1>8, <1>9, <1>10, <1>11 DEF Next

\* Whatever VIA's magic vouches for has gone through an initialisation, for any set of host
\* systems, wherever a power loss has cut one and after updates to firmwares of any day.  Of
\* a firmware of the same day it says no more: that one may find foreign data.
THEOREM ViaIsSound == Spec => []ViaSound
<1>1. Init => ViaInv
  BY RegionNames DEF Init, ViaInv, ViaSound, KeymapFirst, Regions
<1>2. TypeOK /\ ViaInv /\ [Next]_vars => ViaInv'
  <2> SUFFICES ASSUME TypeOK, ViaInv, [Next]_vars PROVE ViaInv'
    OBVIOUS
  <2>1. CASE UNCHANGED vars
    BY <2>1 DEF vars, ViaInv, ViaSound, KeymapFirst
  <2> QED
    BY <2>1, WriteViaInv, CallViaInv
<1>3. ViaInv => ViaSound
  BY DEF ViaInv
<1> QED
  BY <1>1, <1>2, <1>3, ConfigTypes, PTL DEF Spec
-----------------------------------------------------------------------------
(* PerOsRestored: what the user chose is in the copy of its system, or on   *)
(* its way there.                                                           *)

WritesKb(w, r)    == w.to = r /\ w.cell = "kb"
WritesMagic(w, r) == w.to = r /\ w.cell = "magic"

\* The call under way writes the region of os, and nothing else.
Pending(os) ==
    /\ todo # <<>> /\ todo[1].to = os
    /\ todo[1].cell = "kb" \/ (2 \in DOMAIN todo /\ WritesKb(todo[2], os))

EndsWith(s, mode) ==
    s # <<>> /\ WritesKb(s[Len(s)], "base") /\ s[Len(s)].value.override_mode = mode

\* Before the scans nothing is chosen; an unsaved choice is to be mirrored.
Chosen ==
    /\ pc # "run" => keyboard_config = ZeroKb /\ want[current_os] = Unset /\ ~unsaved
    /\ unsaved => keyboard_config.os_eeconfig
    /\ keyboard_config.os_eeconfig /\ want[current_os] # Unset =>
           keyboard_config.override_mode = want[current_os]

\* The base has the mode of the RAM, or the last write of the call gives it.
BaseFollows ==
    pc = "run" =>
        \/ EndsWith(todo, keyboard_config.override_mode)
        \/ /\ \A i \in DOMAIN todo : ~WritesKb(todo[i], "base")
           /\ ee["base"].kb.override_mode = keyboard_config.override_mode

\* A region has the mode that was chosen, will have it or is to be mirrored.
Mirrored ==
    \A os \in OsTypes : want[os] # Unset =>
        \/ unsaved /\ os = current_os
        \/ Pending(os)
        \/ ee[os].kb.override_mode = want[os]

\* What is written to a region is the mode that was chosen.
Faithful ==
    \A os \in OsTypes : want[os] # Unset =>
        \A i \in DOMAIN todo : WritesKb(todo[i], os) => todo[i].value.override_mode = want[os]

OsInv == Chosen /\ BaseFollows /\ Mirrored /\ Faithful

\* What Write does to the call under way.
LEMMA WriteRest ==
    ASSUME TypeOK, Write
    PROVE  /\ todo \in Seq(Writes) /\ todo # <<>> /\ todo[1] \in Writes
           /\ Len(todo) \in Nat \ {0} /\ DOMAIN todo = 1 .. Len(todo)
           /\ Len(todo') = Len(todo) - 1 /\ DOMAIN todo' = 1 .. (Len(todo) - 1)
           /\ \A i \in 1 .. (Len(todo) - 1) : todo'[i] = todo[i + 1] /\ i + 1 \in DOMAIN todo
           /\ Len(todo) = 1 => todo' = <<>>
BY DEF TypeOK, Write

\* ... and to a region.
LEMMA WriteRegion ==
    ASSUME TypeOK, Write, NEW r \in Regions
    PROVE  /\ ee'[r].kb = IF WritesKb(todo[1], r) THEN todo[1].value ELSE ee[r].kb
           /\ ee'[r].magic = IF WritesMagic(todo[1], r) THEN todo[1].value ELSE ee[r].magic
<1> DEFINE w == todo[1]
<1>1. w \in Writes
  BY WriteRest
<1>2. ee[r] \in Region /\ r \in DOMAIN ee /\ ee' = [ee EXCEPT ![w.to][w.cell] = w.value]
  BY DEF TypeOK, Write, Regions
<1> HIDE DEF w
<1>3. ee'[r] = IF r = w.to THEN [ee[r] EXCEPT ![w.cell] = w.value] ELSE ee[r]
  BY <1>2
<1>4. w.to = r => w.cell \in {"magic", "kb"}
  BY <1>1, RegionNames DEF Writes, Regions
<1> QED
  BY <1>2, <1>3, <1>4 DEF WritesKb, WritesMagic, Region, w

\* One write keeps OsInv.
LEMMA WriteOsInv ==
    ASSUME TypeOK, OsInv, Write
    PROVE  OsInv'
<1> DEFINE n == Len(todo)
<1>1. /\ todo # <<>> /\ todo[1] \in Writes /\ n \in Nat \ {0} /\ DOMAIN todo = 1 .. n
      /\ Len(todo') = n - 1 /\ DOMAIN todo' = 1 .. (n - 1)
      /\ \A i \in 1 .. (n - 1) : todo'[i] = todo[i + 1] /\ i + 1 \in DOMAIN todo
      /\ n = 1 => todo' = <<>>
  BY WriteRest
<1>2. UNCHANGED <<pc, keyboard_config, current_os, want, unsaved>>
  BY DEF Write, ram
<1> HIDE DEF n
<1>3. Chosen'
  BY <1>2 DEF OsInv, Chosen
<1>4. BaseFollows'
  <2> SUFFICES ASSUME pc = "run" PROVE BaseFollows'
    BY <1>2 DEF BaseFollows
  <2> DEFINE m == keyboard_config.override_mode
  <2>1. ee'["base"].kb = IF WritesKb(todo[1], "base") THEN todo[1].value ELSE ee["base"].kb
    BY WriteRegion DEF Regions
  <2>2. CASE EndsWith(todo, m) /\ n = 1
    <3>1. ee'["base"].kb.override_mode = m /\ DOMAIN todo' = {}
      BY <1>1, <2>1, <2>2 DEF EndsWith, n
    <3> QED
      BY <1>2, <3>1 DEF BaseFollows
  <2>3. CASE EndsWith(todo, m) /\ n # 1
    <3>1. todo'[n - 1] = todo[n] /\ todo' # <<>> /\ Len(todo') = n - 1
      BY <1>1, <2>3
    <3>2. EndsWith(todo, m)'
      BY <1>2, <2>3, <3>1 DEF EndsWith, WritesKb, n
    <3> QED
      BY <3>2 DEF BaseFollows
  <2>4. CASE /\ \A i \in DOMAIN todo : ~WritesKb(todo[i], "base")
             /\ ee["base"].kb.override_mode = m
    <3>1. ee'["base"].kb.override_mode = m
      BY <1>1, <2>1, <2>4
    <3>2. \A i \in DOMAIN todo' : ~WritesKb(todo'[i], "base")
      BY <1>1, <2>4
    <3> QED
      BY <1>2, <3>1, <3>2 DEF BaseFollows, WritesKb
  <2> QED
    BY <2>2, <2>3, <2>4 DEF OsInv, BaseFollows
<1>5. Mirrored'
  <2> SUFFICES ASSUME NEW os \in OsTypes, want[os] # Unset, ~(unsaved /\ os = current_os)
               PROVE  Pending(os)' \/ ee'[os].kb.override_mode = want[os]
    BY <1>2 DEF Mirrored
  <2>1. ee'[os].kb = IF WritesKb(todo[1], os) THEN todo[1].value ELSE ee[os].kb
    BY WriteRegion DEF Regions
  <2>2. WritesKb(todo[1], os) => todo[1].value.override_mode = want[os]
    BY <1>1 DEF OsInv, Faithful
  <2>3. CASE ee[os].kb.override_mode = want[os] \/ WritesKb(todo[1], os)
    BY <2>1, <2>2, <2>3
  <2>4. CASE Pending(os) /\ ~WritesKb(todo[1], os)
    <3>1. 2 \in DOMAIN todo /\ WritesKb(todo[2], os)
      BY <2>4 DEF Pending, WritesKb
    <3>2. 1 \in 1 .. (n - 1) /\ todo' # <<>> /\ todo'[1] = todo[2]
      BY <1>1, <3>1
    <3> QED
      BY <3>1, <3>2 DEF Pending, WritesKb
  <2> QED
    BY <2>3, <2>4 DEF OsInv, Mirrored
<1>6. Faithful'
  BY <1>1, <1>2 DEF OsInv, Faithful, WritesKb
<1> QED
  BY <1>3, <1>4, <1>5, <1>6 DEF OsInv

\* No write of the initialisation goes to a region, while no configuration is loaded.
NoOs(s) == \A i \in DOMAIN s : s[i].to \notin OsTypes

\* The elements of two calls in a row.
LEMMA ConcatElements ==
    ASSUME NEW s \in Seq(Writes), NEW t \in Seq(Writes)
    PROVE  /\ s \o t \in Seq(Writes) /\ Len(s) \in Nat /\ Len(t) \in Nat
           /\ Len(s \o t) = Len(s) + Len(t)
           /\ DOMAIN s = 1 .. Len(s) /\ DOMAIN t = 1 .. Len(t)
           /\ DOMAIN (s \o t) = 1 .. (Len(s) + Len(t))
           /\ \A i \in 1 .. Len(s) : (s \o t)[i] = s[i]
           /\ \A i \in 1 .. Len(t) : (s \o t)[i + Len(s)] = t[i]
           /\ \A i \in DOMAIN (s \o t) :
                 \/ i \in DOMAIN s /\ (s \o t)[i] = s[i]
                 \/ i - Len(s) \in DOMAIN t /\ (s \o t)[i] = t[i - Len(s)]
<1> DEFINE u == s \o t
<1>1. /\ u \in Seq(Writes) /\ Len(u) = Len(s) + Len(t)
      /\ \A i \in 1 .. Len(u) : u[i] = IF i <= Len(s) THEN s[i] ELSE t[i - Len(s)]
  BY ConcatProperties
<1>2. Len(s) \in Nat /\ Len(t) \in Nat /\ DOMAIN s = 1 .. Len(s) /\ DOMAIN t = 1 .. Len(t)
  BY LenProperties
<1> HIDE DEF u
<1>3. DOMAIN u = 1 .. (Len(s) + Len(t))
  BY <1>1
<1>4. \A i \in 1 .. Len(s) : u[i] = s[i]
  BY <1>1, <1>2
<1>5. \A i \in 1 .. Len(t) : u[i + Len(s)] = t[i]
  BY <1>1, <1>2
<1>6. ASSUME NEW i \in DOMAIN u
      PROVE  \/ i \in DOMAIN s /\ u[i] = s[i]
             \/ i - Len(s) \in DOMAIN t /\ u[i] = t[i - Len(s)]
  BY <1>1, <1>2, <1>3
<1> QED
  BY <1>1, <1>2, <1>3, <1>4, <1>5, <1>6 DEF u

\* Both properties of a call are those of its last part, or of all parts.
LEMMA ConcatOs ==
    ASSUME NEW s \in Seq(Writes), NEW t \in Seq(Writes)
    PROVE  /\ NoOs(s) /\ NoOs(t) => NoOs(s \o t)
           /\ \A mode : EndsWith(t, mode) => EndsWith(s \o t, mode)
<1> DEFINE u == s \o t
<1>1. /\ Len(s) \in Nat /\ Len(t) \in Nat /\ Len(u) = Len(s) + Len(t)
      /\ DOMAIN t = 1 .. Len(t)
      /\ \A i \in 1 .. Len(t) : u[i + Len(s)] = t[i]
      /\ \A i \in DOMAIN u : \/ i \in DOMAIN s /\ u[i] = s[i]
                             \/ i - Len(s) \in DOMAIN t /\ u[i] = t[i - Len(s)]
      /\ u \in Seq(Writes)
  BY ConcatElements
<1> HIDE DEF u
<1>2. NoOs(s) /\ NoOs(t) => NoOs(u)
  BY <1>1 DEF NoOs
<1>3. ASSUME NEW mode, EndsWith(t, mode) PROVE EndsWith(u, mode)
  <2>1. t # <<>> /\ Len(t) \in 1 .. Len(t)
    BY <1>1, <1>3 DEF EndsWith
  <2>2. u[Len(u)] = t[Len(t)]
    BY <1>1, <2>1
  <2>3. u # <<>>
    BY <1>1, <2>1
  <2> QED
    BY <1>3, <2>2, <2>3 DEF EndsWith
<1> QED
  BY <1>2, <1>3 DEF u

\* What an initialisation writes: its last write gives the base no mode, and it leaves
\* the regions alone unless the copies are on.
LEMMA InitCallOs ==
    ASSUME TypeOK
    PROVE  /\ NoOs(eeconfig_init_via)
           /\ EndsWith(eeconfig_init_quantum, ZeroKb.override_mode)
           /\ ~keyboard_config.os_eeconfig => NoOs(eeconfig_init_quantum)
<1> DEFINE head == <<Put("base", "magic", TRUE), Put("via", "valid", FALSE)>>
           copies == IF keyboard_config.os_eeconfig THEN host_os_eeconfig_init ELSE <<>>
           last == <<Put("base", "kb", ZeroKb)>>
           hv == head \o eeconfig_init_via
<1>1. /\ head \in Seq(Writes) /\ copies \in Seq(Writes) /\ last \in Seq(Writes)
      /\ eeconfig_init_via \in Seq(Writes) /\ eeconfig_init_kb \in Seq(Writes)
  BY InitCallTypes, Zenon
<1>2. NoOs(head) /\ NoOs(eeconfig_init_via) /\ NoOs(last) /\ NoOs(<<>>)
  BY RegionNames DEF NoOs, Put, eeconfig_init_via, Regions
<1>3. EndsWith(last, ZeroKb.override_mode)
  BY DEF EndsWith, WritesKb, Put
<1>4. ~keyboard_config.os_eeconfig => NoOs(copies)
  BY <1>2
<1>5. eeconfig_init_kb = copies \o last /\ eeconfig_init_quantum = hv \o eeconfig_init_kb
  BY DEF eeconfig_init_kb, eeconfig_init_quantum
<1> HIDE DEF head, copies, last
<1>6. hv \in Seq(Writes) /\ NoOs(hv)
  BY <1>1, <1>2, ConcatElements, ConcatOs
<1> HIDE DEF hv
<1>7. /\ EndsWith(eeconfig_init_kb, ZeroKb.override_mode)
      /\ ~keyboard_config.os_eeconfig => NoOs(eeconfig_init_kb)
  BY <1>1, <1>2, <1>3, <1>4, <1>5, ConcatOs
<1>8. /\ EndsWith(eeconfig_init_quantum, ZeroKb.override_mode)
      /\ ~keyboard_config.os_eeconfig => NoOs(eeconfig_init_quantum)
  BY <1>1, <1>5, <1>6, <1>7, ConcatOs
<1> QED
  BY <1>2, <1>8

\* What the copy of a region writes.
LEMMA CopyElements ==
    ASSUME NEW r, NEW from
    PROVE  LET s == CopyTo(r, from)
           IN  /\ DOMAIN s = {1, 2} /\ Len(s) = 2 /\ s # <<>>
               /\ s[1].to = r /\ s[1].cell = "magic" /\ s[1].value = from.magic
               /\ s[2].to = r /\ s[2].cell = "kb" /\ s[2].value = from.kb
BY DEF CopyTo, Put

\* Turning the power off keeps what is stored, and takes back what was not mirrored.
LEMMA OffOsInv ==
    ASSUME TypeOK, OsInv, PowerLoss \/ Update
    PROVE  OsInv'
<1>1. /\ Off /\ \A os \in OsTypes : ee'[os] = ee[os]
  BY RegionNames DEF PowerLoss, Update, TypeOK, Regions
<1>2. /\ todo' = <<>> /\ pc' = "via_init" /\ keyboard_config' = ZeroKb
      /\ current_os' = "UNKNOWN" /\ unsaved' = FALSE
  BY <1>1 DEF Off
<1>3. \A os \in OsTypes : want'[os] # Unset =>
          /\ want'[os] = want[os] /\ ~(unsaved /\ os = current_os)
          /\ ~Pending(os) /\ os # "UNKNOWN"
  BY <1>1 DEF Off, Pending
<1>4. want'["UNKNOWN"] = Unset
  BY <1>1, RegionNames DEF Off
<1>5. Chosen'
  BY <1>2, <1>4 DEF Chosen, ZeroKb
<1>6. BaseFollows'
  BY <1>2 DEF BaseFollows
<1>7. Mirrored'
  BY <1>1, <1>2, <1>3 DEF OsInv, Mirrored
<1>8. Faithful'
  BY <1>2 DEF Faithful
<1> QED
  BY <1>5, <1>6, <1>7, <1>8 DEF OsInv

\* Between calls, what is stored is what was chosen.
LEMMA StoredBetweenCalls ==
    ASSUME OsInv, todo = <<>>
    PROVE  /\ \A os \in OsTypes : want[os] # Unset /\ ~(unsaved /\ os = current_os) =>
                  ee[os].kb.override_mode = want[os]
           /\ pc = "run" => ee["base"].kb.override_mode = keyboard_config.override_mode
BY DEF OsInv, Mirrored, BaseFollows, Pending, EndsWith

\* A step that leaves the choice and the regions alone, and writes nothing to them.
LEMMA QuietOsInv ==
    ASSUME OsInv, todo = <<>>, ee' = ee, UNCHANGED <<current_os, want, unsaved>>,
           NoOs(todo'), Chosen', BaseFollows'
    PROVE  OsInv'
<1>1. Mirrored'
  BY StoredBetweenCalls DEF Mirrored
<1>2. Faithful'
  BY DEF Faithful, NoOs, WritesKb
<1> QED
  BY <1>1, <1>2 DEF OsInv

\* The boot initialises without the copies, and loads the base last.
LEMMA BootOsInv ==
    ASSUME TypeOK, OsInv, via_init \/ magic \/ matrix_init_kb
    PROVE  OsInv'
<1>1. /\ todo = <<>> /\ pc # "run" /\ ee' = ee
      /\ UNCHANGED <<current_os, want, unsaved>>
  BY DEF via_init, magic, matrix_init_kb, At, ram, history
<1>2. keyboard_config = ZeroKb /\ want[current_os] = Unset /\ ~unsaved
  BY <1>1 DEF OsInv, Chosen
<1>3. NoOs(<<>>) /\ NoOs(eeconfig_init_via) /\ NoOs(eeconfig_init_quantum)
  BY <1>2, InitCallOs DEF NoOs, ZeroKb
<1>4. CASE via_init \/ magic
  <2>1. NoOs(todo') /\ pc' # "run" /\ keyboard_config' = keyboard_config
    BY <1>3, <1>4 DEF via_init, magic, At, ram
  <2>2. Chosen' /\ BaseFollows'
    BY <1>1, <1>2, <2>1 DEF Chosen, BaseFollows, ZeroKb
  <2> QED
    BY <1>1, <2>1, <2>2, QuietOsInv
<1>5. CASE matrix_init_kb
  <2>1. todo' = <<>> /\ pc' = "run" /\ keyboard_config' = ee["base"].kb
    BY <1>1, <1>5 DEF matrix_init_kb, At
  <2>2. Chosen' /\ BaseFollows'
    BY <1>1, <1>2, <2>1 DEF Chosen, BaseFollows
  <2> QED
    BY <1>1, <1>3, <2>1, <2>2, QuietOsInv
<1> QED
  BY <1>4, <1>5

\* A request of the host changes no mode.
LEMMA UsbOsInv ==
    ASSUME TypeOK, OsInv, Usb
    PROVE  OsInv'
<1>1. /\ todo = <<>> /\ pc = "run" /\ pc' = "run" /\ ee' = ee
      /\ UNCHANGED <<current_os, want, unsaved, keyboard_config>>
  BY DEF Usb, SET_ADDRESS, set_device_req_len, set_config_req_len, SetOsEeconfig,
         dynamic_keymap_set, dynamic_keymap_reset, At, ram, history
<1>2. Chosen'
  BY <1>1 DEF OsInv, Chosen
<1>3. ee["base"].kb.override_mode = keyboard_config.override_mode
  BY <1>1, StoredBetweenCalls
<1>4. \/ todo' = <<>>
      \/ \E v : todo' = <<Put("via", "keymap", v)>>
      \/ \E on \in BOOLEAN : todo' = <<Put("base", "kb", [ee["base"].kb EXCEPT !.os_eeconfig = on])>>
  BY DEF Usb, SET_ADDRESS, set_device_req_len, set_config_req_len, SetOsEeconfig,
         dynamic_keymap_set, dynamic_keymap_reset, At
<1>5. NoOs(todo') /\ BaseFollows'
  <2>1. CASE todo' = <<>>
    BY <1>1, <1>3, <2>1 DEF NoOs, BaseFollows
  <2>2. CASE \E v : todo' = <<Put("via", "keymap", v)>>
    BY <1>1, <1>3, <2>2, RegionNames DEF NoOs, BaseFollows, Put, WritesKb, Regions
  <2>3. CASE \E on \in BOOLEAN :
                 todo' = <<Put("base", "kb", [ee["base"].kb EXCEPT !.os_eeconfig = on])>>
    <3>1. PICK kb : /\ kb.override_mode = keyboard_config.override_mode
                    /\ todo' = <<Put("base", "kb", kb)>>
      <4>1. PICK on \in BOOLEAN :
                todo' = <<Put("base", "kb", [ee["base"].kb EXCEPT !.os_eeconfig = on])>>
        BY <2>3
      <4>2. [ee["base"].kb EXCEPT !.os_eeconfig = on].override_mode = ee["base"].kb.override_mode
        BY DEF TypeOK, Region, Kb
      <4> QED
        BY <1>3, <4>1, <4>2
    <3>2. NoOs(todo')
      BY <3>1, RegionNames DEF NoOs, Put
    <3>3. EndsWith(todo, keyboard_config.override_mode)'
      BY <1>1, <3>1 DEF EndsWith, Put, WritesKb
    <3> QED
      BY <3>2, <3>3 DEF BaseFollows
  <2> QED
    BY <1>4, <2>1, <2>2, <2>3
<1> QED
  BY <1>1, <1>2, <1>5, QuietOsInv

\* The host is the same: its region gets what the base has, which is what was chosen.
LEMMA MirrorOsInv ==
    ASSUME TypeOK, OsInv, MirrorOs
    PROVE  OsInv'
<1> DEFINE os == get_usb_host_os_type
           copy == CopyTo(os, ee["base"])
<1>1. /\ todo = <<>> /\ pc = "run" /\ pc' = "run" /\ ee' = ee /\ todo' = copy
      /\ keyboard_config.os_eeconfig /\ current_os = os /\ unsaved' = FALSE
      /\ UNCHANGED <<current_os, want, keyboard_config>>
  BY DEF MirrorOs, At, mirror_os_eeconfig, ram
<1>2. os \in OsTypes
  BY OsIsKnown
<1> HIDE DEF os
<1>3. /\ DOMAIN copy = {1, 2} /\ Len(copy) = 2 /\ copy # <<>>
      /\ copy[1].to = os /\ copy[1].cell = "magic"
      /\ copy[2].to = os /\ copy[2].cell = "kb" /\ copy[2].value = ee["base"].kb
  BY CopyElements
<1> HIDE DEF copy
<1>4. Chosen'
  BY <1>1 DEF OsInv, Chosen
<1>5. ee["base"].kb.override_mode = keyboard_config.override_mode
  BY <1>1, StoredBetweenCalls
<1>6. BaseFollows'
  BY <1>1, <1>2, <1>3, <1>5, RegionNames DEF BaseFollows, WritesKb
<1>7. Mirrored'
  <2> SUFFICES ASSUME NEW o \in OsTypes, want[o] # Unset
               PROVE  Pending(o)' \/ ee[o].kb.override_mode = want[o]
    BY <1>1 DEF Mirrored
  <2>1. CASE o = os
    BY <1>1, <1>3, <2>1 DEF Pending, WritesKb
  <2>2. CASE o # os
    BY <1>1, <2>2, StoredBetweenCalls
  <2> QED
    BY <2>1, <2>2
<1>8. want[os] # Unset => ee["base"].kb.override_mode = want[os]
  BY <1>1, <1>5 DEF OsInv, Chosen
<1>9. Faithful'
  BY <1>1, <1>3, <1>8 DEF Faithful, WritesKb
<1> QED
  BY <1>4, <1>6, <1>7, <1>9 DEF OsInv

\* The host is another one: what its region has is what was chosen on it, and goes to
\* RAM at once and to the base.
LEMMA LoadOsInv ==
    ASSUME TypeOK, OsInv, LoadOs
    PROVE  OsInv'
<1> DEFINE os == get_usb_host_os_type
           copy == CopyTo("base", ee[os])
<1>1. /\ todo = <<>> /\ pc' = "run" /\ ee' = ee /\ todo' = copy
      /\ current_os # os /\ current_os' = os /\ keyboard_config' = ee[os].kb
      /\ want' = IF unsaved THEN [want EXCEPT ![current_os] = Unset] ELSE want
      /\ unsaved' = FALSE
  BY DEF LoadOs, At, load_os_eeconfig
<1>2. os \in OsTypes /\ current_os \in OsTypes
  BY OsIsKnown DEF TypeOK
<1> HIDE DEF os
<1>3. /\ DOMAIN copy = {1, 2} /\ Len(copy) = 2 /\ copy # <<>>
      /\ copy[1].to = "base" /\ copy[1].cell = "magic"
      /\ copy[2].to = "base" /\ copy[2].cell = "kb" /\ copy[2].value = ee[os].kb
  BY CopyElements
<1> HIDE DEF copy
<1>4. \A o \in OsTypes : want'[o] # Unset =>
          /\ want'[o] = want[o] /\ ~(unsaved /\ o = current_os)
  BY <1>1, <1>2 DEF TypeOK
<1>5. \A o \in OsTypes : want'[o] # Unset => ee[o].kb.override_mode = want'[o]
  BY <1>1, <1>4, StoredBetweenCalls
<1>6. Chosen'
  BY <1>1, <1>2, <1>5 DEF Chosen
<1>7. BaseFollows'
  BY <1>1, <1>3 DEF BaseFollows, EndsWith, WritesKb
<1>8. Mirrored'
  BY <1>1, <1>5 DEF Mirrored
<1>9. Faithful'
  BY <1>1, <1>3, RegionNames DEF Faithful, WritesKb
<1> QED
  BY <1>6, <1>7, <1>8, <1>9 DEF OsInv

\* A mode is chosen: on the present system it is what is wanted and not yet saved.
LEMMA ChooseOsInv ==
    ASSUME TypeOK, OsInv, NEW mode \in Modes, ChooseMode(mode)
    PROVE  OsInv'
<1> DEFINE kb == [keyboard_config EXCEPT !.override_mode = mode]
<1>1. /\ todo = <<>> /\ pc' = "run" /\ ee' = ee /\ todo' = <<Put("base", "kb", kb)>>
      /\ keyboard_config' = kb /\ current_os' = current_os
      /\ want' = [want EXCEPT ![current_os] = IF kb.os_eeconfig THEN mode ELSE @]
      /\ unsaved' = kb.os_eeconfig
  BY DEF ChooseMode, At
<1>2. kb \in Kb /\ kb.override_mode = mode /\ kb.os_eeconfig = keyboard_config.os_eeconfig
  BY DEF TypeOK, Kb
<1>3. current_os \in OsTypes /\ want \in [OsTypes -> Modes \cup {Unset}]
  BY DEF TypeOK
<1> HIDE DEF kb
<1>4. Chosen'
  BY <1>1, <1>2, <1>3 DEF Chosen
<1>5. EndsWith(todo, keyboard_config.override_mode)'
  BY <1>1 DEF EndsWith, Put, WritesKb
<1>6. BaseFollows'
  BY <1>5 DEF BaseFollows
<1>7. ASSUME NEW o \in OsTypes, want'[o] # Unset, ~(kb.os_eeconfig /\ o = current_os)
      PROVE  ee[o].kb.override_mode = want'[o]
  <2>1. want'[o] = want[o]
    BY <1>1, <1>3, <1>7
  <2>2. ~(unsaved /\ o = current_os)
    BY <1>2, <1>7 DEF OsInv, Chosen
  <2> QED
    BY <1>1, <1>7, <2>1, <2>2, StoredBetweenCalls
<1>8. Mirrored'
  BY <1>1, <1>7 DEF Mirrored
<1>9. Faithful'
  BY <1>1, RegionNames DEF Faithful, WritesKb, Put
<1> QED
  BY <1>4, <1>6, <1>8, <1>9 DEF OsInv

\* A reset forgets what was chosen.
LEMMA ResetOsInv ==
    ASSUME TypeOK, OsInv, EEPROM_RESET
    PROVE  OsInv'
<1>1. /\ pc' = "run" /\ todo' = eeconfig_init_quantum /\ keyboard_config' = ZeroKb
      /\ want' = [os \in OsTypes |-> Unset] /\ unsaved' = FALSE
      /\ current_os' \in OsTypes
  BY DEF EEPROM_RESET, At, TypeOK
<1>2. EndsWith(todo, keyboard_config.override_mode)'
  BY <1>1, InitCallOs
<1> QED
  BY <1>1, <1>2 DEF OsInv, Chosen, BaseFollows, Mirrored, Faithful

\* On every host system the mode is the one that was chosen on it, for any set of
\* systems, any requests that tell them apart, and power losses at any write.
THEOREM PerOsIsRestored == Spec => []PerOsRestored
<1>1. Init => OsInv
  <2> SUFFICES ASSUME Init PROVE OsInv
    OBVIOUS
  <2>1. /\ todo = <<>> /\ pc = "via_init" /\ keyboard_config = ZeroKb /\ ~unsaved
        /\ \A os \in OsTypes : want[os] = Unset
        /\ current_os \in OsTypes
    BY RegionNames DEF Init
  <2> QED
    BY <2>1 DEF OsInv, Chosen, BaseFollows, Mirrored, Faithful, ZeroKb
<1>2. TypeOK /\ OsInv /\ [Next]_vars => OsInv'
  <2> SUFFICES ASSUME TypeOK, OsInv, [Next]_vars PROVE OsInv'
    OBVIOUS
  <2>1. CASE UNCHANGED vars
    BY <2>1 DEF vars, ram, history, OsInv, Chosen, BaseFollows, Mirrored, Faithful,
                EndsWith, Pending
  <2> QED
    BY <2>1, WriteOsInv, BootOsInv, UsbOsInv, MirrorOsInv, LoadOsInv, ChooseOsInv,
       ResetOsInv, OffOsInv DEF Next
<1>3. OsInv => PerOsRestored
  BY DEF OsInv, Chosen, PerOsRestored, Running
<1> QED
  BY <1>1, <1>2, <1>3, ConfigTypes, PTL DEF Spec
-----------------------------------------------------------------------------
(* KeymapKept: no boot finds a reason to initialise.                        *)

Invalidates(w) == w.to = "via" /\ w.cell = "valid" /\ w.value = FALSE
Resets(w)      == w.to = "via" /\ w.cell = "keymap" /\ w.value = "init"
Customizes(w)  == w.to = "via" /\ w.cell = "keymap" /\ w.value = "custom"

\* Properties of a call.
EndsValid(s) ==
    \E i \in DOMAIN s : Validates(s[i]) /\ \A j \in (i + 1) .. Len(s) : ~Invalidates(s[j])

NoVia(s)    == \A i \in DOMAIN s : s[i].to # "via"
NoCustom(s) == \A i \in DOMAIN s : ~Customizes(s[i])
MagicTrue(s) == \A i \in DOMAIN s : s[i].cell = "magic" => s[i].value = TRUE

MagicFirst(s) ==
    \A os \in OsTypes, i \in DOMAIN s :
        WritesKb(s[i], os) => \E j \in 1 .. (i - 1) : WritesMagic(s[j], os)

\* After via_init, what VIA keeps is valid when the call under way has ended.
Validated ==
    pc # "via_init" =>
        \/ ee["via"].valid /\ \A i \in DOMAIN todo : ~Invalidates(todo[i])
        \/ EndsValid(todo)

CustomAlone ==
    \A i \in DOMAIN todo :
        Customizes(todo[i]) => Len(todo) = 1 /\ ee["via"].valid /\ pc = "run"

\* After the check of the magic, the base has it or gets it first.
BaseMagic ==
    pc \in {"matrix_init", "run"} =>
        ee["base"].magic \/ (todo # <<>> /\ WritesMagic(todo[1], "base"))

\* A region that has been written, and one that is about to be, has the magic.
ReadyMagic == \A os \in ready : ee[os].magic

Labelled ==
    \A os \in OsTypes, i \in DOMAIN todo :
        WritesKb(todo[i], os) => \/ ee[os].magic
                                 \/ \E j \in 1 .. (i - 1) : WritesMagic(todo[j], os)

MineKept ==
    mine => /\ ee["base"].magic /\ ee["via"].valid /\ ee["via"].keymap = "custom"
            /\ \A i \in DOMAIN todo : ~Invalidates(todo[i]) /\ ~Resets(todo[i])

KeepInv ==
    /\ Validated /\ CustomAlone
    /\ ~blank => BaseMagic /\ MagicTrue(todo) /\ ReadyMagic /\ Labelled /\ MineKept

\* What Write does to what VIA keeps.
LEMMA WriteVia ==
    ASSUME TypeOK, Write
    PROVE  LET w == todo[1]
           IN  /\ ee'["via"].valid = IF w.to = "via" /\ w.cell = "valid" THEN w.value
                                     ELSE ee["via"].valid
               /\ ee'["via"].keymap = IF w.to = "via" /\ w.cell = "keymap" THEN w.value
                                      ELSE ee["via"].keymap
               /\ w.to = "via" /\ w.cell = "valid" => w.value \in BOOLEAN
               /\ w.to = "via" /\ w.cell = "keymap" => w.value \in {"init", "custom"}
<1> DEFINE w == todo[1]
<1>1. w \in Writes
  BY WriteRest
<1>2. ee["via"] \in Via /\ "via" \in DOMAIN ee /\ ee' = [ee EXCEPT ![w.to][w.cell] = w.value]
  BY DEF TypeOK, Write
<1> HIDE DEF w
<1>3. ee'["via"] = IF w.to = "via" THEN [ee["via"] EXCEPT ![w.cell] = w.value] ELSE ee["via"]
  BY <1>2
<1>4. w.to = "via" => \/ w.cell = "valid" /\ w.value \in BOOLEAN
                      \/ w.cell = "keymap" /\ w.value \in {"init", "custom"}
  BY <1>1, RegionNames DEF Writes, Regions
<1> QED
  BY <1>2, <1>3, <1>4 DEF Via, w

\* One write: a call that ends valid does so when its first write is done.
LEMMA WriteValidated ==
    ASSUME TypeOK, Write, Validated, CustomAlone
    PROVE  Validated' /\ CustomAlone'
<1> DEFINE n == Len(todo)
<1>1. /\ todo # <<>> /\ n \in Nat \ {0} /\ DOMAIN todo = 1 .. n
      /\ Len(todo') = n - 1 /\ DOMAIN todo' = 1 .. (n - 1)
      /\ \A i \in 1 .. (n - 1) : todo'[i] = todo[i + 1] /\ i + 1 \in DOMAIN todo
  BY WriteRest
<1>2. pc' = pc
  BY DEF Write
<1>3. CustomAlone'
  <2> SUFFICES ASSUME NEW i \in 1 .. (n - 1) PROVE ~Customizes(todo'[i])
    BY <1>1 DEF CustomAlone
  <2>1. Customizes(todo[i + 1]) => n = 1
    BY <1>1 DEF CustomAlone
  <2> QED
    BY <1>1, <2>1
<1> HIDE DEF n
<1>4. Validated'
  <2> SUFFICES ASSUME pc # "via_init" PROVE Validated'
    BY <1>2 DEF Validated
  <2>1. CASE ee["via"].valid /\ \A i \in DOMAIN todo : ~Invalidates(todo[i])
    <3>1. ee'["via"].valid
      <4>1. ~Invalidates(todo[1]) /\ ee["via"].valid
        BY <1>1, <2>1
      <4>2. CASE todo[1].to = "via" /\ todo[1].cell = "valid"
        <5>1. todo[1].value \in BOOLEAN /\ ee'["via"].valid = todo[1].value
          BY <4>2, WriteVia
        <5>2. todo[1].value = TRUE
          BY <4>1, <4>2, <5>1, Zenon DEF Invalidates
        <5> QED
          BY <5>1, <5>2, Zenon
      <4>3. CASE ~(todo[1].to = "via" /\ todo[1].cell = "valid")
        <5>1. ee'["via"].valid = ee["via"].valid
          BY <4>3, WriteVia
        <5> QED
          BY <4>1, <5>1, Zenon
      <4> QED
        BY <4>2, <4>3
    <3>2. \A i \in DOMAIN todo' : ~Invalidates(todo'[i])
      BY <1>1, <2>1
    <3> QED
      BY <3>1, <3>2 DEF Validated, Invalidates
  <2>2. CASE EndsValid(todo)
    <3>1. PICK i \in 1 .. n : /\ Validates(todo[i])
                              /\ \A j \in (i + 1) .. n : ~Invalidates(todo[j])
      BY <1>1, <2>2 DEF EndsValid, n
    <3>2. CASE i = 1
      <4>1. ee'["via"].valid
        BY <3>1, <3>2, WriteVia DEF Validates
      <4>2. \A j \in DOMAIN todo' : ~Invalidates(todo'[j])
        BY <1>1, <3>1, <3>2
      <4> QED
        BY <4>1, <4>2 DEF Validated, Invalidates
    <3>3. CASE i # 1
      <4>1. i - 1 \in 1 .. (n - 1) /\ (i - 1) + 1 = i
        BY <1>1, <3>3
      <4>2. Validates(todo'[i - 1])
        BY <1>1, <3>1, <4>1
      <4>3. \A j \in ((i - 1) + 1) .. (n - 1) : ~Invalidates(todo'[j])
        BY <1>1, <3>1, <4>1
      <4>4. EndsValid(todo)'
        BY <1>1, <4>1, <4>2, <4>3 DEF EndsValid, Validates, Invalidates
      <4> QED
        BY <4>4 DEF Validated
    <3> QED
      BY <3>2, <3>3
  <2> QED
    BY <2>1, <2>2 DEF Validated
<1> QED
  BY <1>3, <1>4

\* One write keeps what a boot relies on.
LEMMA WriteKeepInv ==
    ASSUME TypeOK, KeepInv, Write
    PROVE  KeepInv'
<1> DEFINE n == Len(todo)
           w == todo[1]
<1>1. /\ todo # <<>> /\ n \in Nat \ {0} /\ DOMAIN todo = 1 .. n /\ w \in Writes
      /\ Len(todo') = n - 1 /\ DOMAIN todo' = 1 .. (n - 1)
      /\ \A i \in 1 .. (n - 1) : todo'[i] = todo[i + 1] /\ i + 1 \in DOMAIN todo
      /\ n = 1 => todo' = <<>>
  BY WriteRest
<1>2. pc' = pc /\ blank' = blank
  BY DEF Write
<1>3. Validated' /\ CustomAlone'
  BY WriteValidated DEF KeepInv
<1> SUFFICES ASSUME ~blank
             PROVE  (BaseMagic /\ MagicTrue(todo) /\ ReadyMagic /\ Labelled /\ MineKept)'
  BY <1>2, <1>3 DEF KeepInv
<1>4. BaseMagic /\ MagicTrue(todo) /\ ReadyMagic /\ Labelled /\ MineKept
  BY DEF KeepInv
<1> HIDE DEF n, w
<1>5. w.cell = "magic" => w.value = TRUE
  BY <1>1, <1>4 DEF MagicTrue, w
<1>6. ASSUME NEW r \in Regions
      PROVE  ee'[r].magic <=> ee[r].magic \/ WritesMagic(w, r)
  BY <1>5, <1>6, WriteRegion DEF WritesMagic, w
<1>7. BaseMagic'
  <2>1. pc \in {"matrix_init", "run"} => ee'["base"].magic
    BY <1>4, <1>6 DEF BaseMagic, Regions, w
  <2> QED
    BY <1>2, <2>1 DEF BaseMagic
<1>8. MagicTrue(todo)'
  BY <1>1, <1>4 DEF MagicTrue
<1>9. ReadyMagic'
  <2> SUFFICES ASSUME NEW os \in ready' PROVE ee'[os].magic
    BY DEF ReadyMagic
  <2>1. os \in ready \/ (WritesKb(w, os) /\ os \in OsTypes)
    BY DEF Write, WritesKb, w
  <2>2. os \in Regions
    BY <2>1 DEF TypeOK, Regions
  <2>3. ASSUME WritesKb(w, os), os \in OsTypes PROVE ee[os].magic
    BY <1>1, <1>4, <2>3 DEF Labelled, w
  <2> QED
    BY <1>4, <1>6, <2>1, <2>2, <2>3 DEF ReadyMagic
<1>10. Labelled'
  <2> SUFFICES ASSUME NEW os \in OsTypes, NEW i \in 1 .. (n - 1), WritesKb(todo[i + 1], os)
               PROVE  ee'[os].magic \/ \E j \in 1 .. (i - 1) : WritesMagic(todo'[j], os)
    BY <1>1 DEF Labelled, WritesKb, WritesMagic
  <2>1. CASE ee[os].magic
    BY <1>6, <2>1 DEF Regions
  <2>2. CASE ~ee[os].magic
    <3>1. PICK j \in 1 .. ((i + 1) - 1) : WritesMagic(todo[j], os)
      BY <1>1, <1>4, <2>2 DEF Labelled
    <3>2. CASE j = 1
      BY <1>6, <3>1, <3>2 DEF Regions, w
    <3>3. CASE j # 1
      <4>1. j - 1 \in 1 .. (i - 1) /\ j - 1 \in 1 .. (n - 1) /\ (j - 1) + 1 = j
        BY <1>1, <3>1, <3>3
      <4> QED
        BY <1>1, <3>1, <4>1
    <3> QED
      BY <3>2, <3>3
  <2> QED
    BY <2>1, <2>2
<1>11. MineKept'
  <2> SUFFICES ASSUME mine'
               PROVE  /\ ee'["base"].magic /\ ee'["via"].valid /\ ee'["via"].keymap = "custom"
                      /\ \A i \in 1 .. (n - 1) : ~Invalidates(todo'[i]) /\ ~Resets(todo'[i])
    BY <1>1 DEF MineKept, Invalidates, Resets
  <2>1. mine \/ Customizes(w)
    <3>1. w = Put("via", "keymap", "custom") => Customizes(w)
      BY DEF Put, Customizes
    <3>2. mine' = (mine \/ w = Put("via", "keymap", "custom"))
      BY DEF Write, w
    <3> QED
      BY <3>1, <3>2, Zenon
  <2>2. CASE mine
    <3>1. /\ ee["base"].magic /\ ee["via"].valid /\ ee["via"].keymap = "custom"
          /\ \A i \in DOMAIN todo : ~Invalidates(todo[i]) /\ ~Resets(todo[i])
      BY <1>4, <2>2 DEF MineKept
    <3>2. ~Invalidates(w) /\ ~Resets(w)
      BY <1>1, <3>1 DEF w
    <3>3. ee'["base"].magic /\ ee'["via"].valid /\ ee'["via"].keymap = "custom"
      BY <1>6, <3>1, <3>2, WriteVia DEF Invalidates, Resets, Regions, w
    <3> QED
      BY <1>1, <3>1, <3>3
  <2>3. CASE Customizes(w)
    <3>1. n = 1 /\ ee["via"].valid /\ pc = "run"
      BY <1>1, <2>3 DEF KeepInv, CustomAlone, n, w
    <3>2. ee["base"].magic
      BY <1>4, <2>3, <3>1 DEF BaseMagic, WritesMagic, Customizes, w
    <3>3. ee'["base"].magic /\ ee'["via"].valid /\ ee'["via"].keymap = "custom"
      BY <1>6, <2>3, <3>1, <3>2, WriteVia DEF Customizes, Regions, w
    <3> QED
      BY <3>1, <3>3
  <2> QED
    BY <2>1, <2>2, <2>3
<1> QED
  BY <1>7, <1>8, <1>9, <1>10, <1>11

\* What a call must be for KeepInv.
Keeps(s) == NoCustom(s) /\ MagicTrue(s) /\ MagicFirst(s)

\* Two calls in a row.
LEMMA ConcatKeeps ==
    ASSUME NEW s \in Seq(Writes), NEW t \in Seq(Writes)
    PROVE  /\ Keeps(s) /\ Keeps(t) => Keeps(s \o t)
           /\ NoVia(s) /\ NoVia(t) => NoVia(s \o t)
           /\ EndsValid(t) => EndsValid(s \o t)
           /\ EndsValid(s) /\ NoVia(t) => EndsValid(s \o t)
           /\ s # <<>> => s \o t # <<>> /\ (s \o t)[1] = s[1]
<1> DEFINE u == s \o t
           m == Len(s)
<1>1. /\ m \in Nat /\ Len(t) \in Nat /\ Len(u) = m + Len(t)
      /\ DOMAIN s = 1 .. m /\ DOMAIN t = 1 .. Len(t) /\ DOMAIN u = 1 .. (m + Len(t))
      /\ \A i \in 1 .. m : u[i] = s[i]
      /\ \A i \in 1 .. Len(t) : u[i + m] = t[i]
      /\ \A i \in DOMAIN u : \/ i \in DOMAIN s /\ u[i] = s[i]
                             \/ i - m \in DOMAIN t /\ u[i] = t[i - m]
  BY ConcatElements
<1>2. s # <<>> => m # 0
  BY EmptySeq
<1> HIDE DEF u, m
<1>3. ASSUME Keeps(s), Keeps(t) PROVE Keeps(u)
  <2>1. NoCustom(u)
    BY <1>1, <1>3 DEF Keeps, NoCustom
  <2>2. MagicTrue(u)
    BY <1>1, <1>3 DEF Keeps, MagicTrue
  <2>3. ASSUME NEW os \in OsTypes, NEW i \in DOMAIN u, WritesKb(u[i], os)
        PROVE  \E j \in 1 .. (i - 1) : WritesMagic(u[j], os)
    <3>1. CASE i \in DOMAIN s /\ u[i] = s[i]
      <4>1. PICK j \in 1 .. (i - 1) : WritesMagic(s[j], os)
        BY <1>3, <2>3, <3>1 DEF Keeps, MagicFirst
      <4>2. u[j] = s[j]
        BY <1>1, <3>1, <4>1
      <4> QED
        BY <4>1, <4>2
    <3>2. CASE i - m \in DOMAIN t /\ u[i] = t[i - m]
      <4>1. PICK j \in 1 .. ((i - m) - 1) : WritesMagic(t[j], os)
        BY <1>3, <2>3, <3>2 DEF Keeps, MagicFirst
      <4>2. u[j + m] = t[j] /\ j + m \in 1 .. (i - 1)
        BY <1>1, <3>2, <4>1
      <4> QED
        BY <4>1, <4>2
    <3> QED
      BY <1>1, <3>1, <3>2
  <2> QED
    BY <2>1, <2>2, <2>3 DEF Keeps, MagicFirst
<1>4. NoVia(s) /\ NoVia(t) => NoVia(u)
  BY <1>1 DEF NoVia
<1>5. ASSUME EndsValid(t) PROVE EndsValid(u)
  <2>1. PICK i \in 1 .. Len(t) : /\ Validates(t[i])
                                 /\ \A j \in (i + 1) .. Len(t) : ~Invalidates(t[j])
    BY <1>1, <1>5 DEF EndsValid
  <2>2. i + m \in DOMAIN u /\ u[i + m] = t[i]
    BY <1>1
  <2>3. ASSUME NEW j \in ((i + m) + 1) .. Len(u) PROVE ~Invalidates(u[j])
    <3>1. j - m \in (i + 1) .. Len(t) /\ j - m \in 1 .. Len(t) /\ (j - m) + m = j
      BY <1>1
    <3> QED
      BY <1>1, <2>1, <3>1
  <2> QED
    BY <2>1, <2>2, <2>3 DEF EndsValid
<1>6. ASSUME EndsValid(s), NoVia(t) PROVE EndsValid(u)
  <2>1. PICK i \in 1 .. m : /\ Validates(s[i])
                            /\ \A j \in (i + 1) .. m : ~Invalidates(s[j])
    BY <1>1, <1>6 DEF EndsValid, m
  <2>2. i \in DOMAIN u /\ u[i] = s[i]
    BY <1>1
  <2>3. ASSUME NEW j \in (i + 1) .. Len(u) PROVE ~Invalidates(u[j])
    <3>1. CASE j \in DOMAIN s /\ u[j] = s[j]
      BY <1>1, <2>1, <3>1
    <3>2. CASE j - m \in DOMAIN t /\ u[j] = t[j - m]
      BY <1>6, <3>2 DEF NoVia, Invalidates
    <3> QED
      BY <1>1, <3>1, <3>2
  <2> QED
    BY <2>1, <2>2, <2>3 DEF EndsValid
<1>7. s # <<>> => u # <<>> /\ u[1] = s[1]
  <2> SUFFICES ASSUME s # <<>> PROVE u # <<>> /\ u[1] = s[1]
    OBVIOUS
  <2>1. 1 \in 1 .. m /\ 1 \in DOMAIN u
    BY <1>1, <1>2
  <2> QED
    BY <1>1, <2>1
<1> QED
  BY <1>3, <1>4, <1>5, <1>6, <1>7 DEF u

\* A write has the parts it is made of.
LEMMA PutParts ==
    ASSUME NEW r, NEW cell, NEW value
    PROVE  /\ Put(r, cell, value).to = r
           /\ Put(r, cell, value).cell = cell
           /\ Put(r, cell, value).value = value
BY DEF Put

\* ... and so has one of a magic.
LEMMA MagicParts ==
    ASSUME NEW r
    PROVE  /\ Put(r, "magic", TRUE).to = r
           /\ Put(r, "magic", TRUE).cell = "magic"
           /\ Put(r, "magic", TRUE).value = TRUE
<1>1. Put(r, "magic", TRUE).value = TRUE
  BY Zenon DEF Put
<1> QED
  BY <1>1 DEF Put

\* The copies of an initialisation: each region gets its magic first.
LEMMA InitCopiesKeep ==
    ASSUME TypeOK
    PROVE  Keeps(host_os_eeconfig_init) /\ NoVia(host_os_eeconfig_init)
<1> DEFINE n == Len(OsOrder)
           s == host_os_eeconfig_init
<1>1. n \in Nat /\ DOMAIN s = 1 .. (2 * n)
  BY ConfigAssumption DEF host_os_eeconfig_init
<1>2. ASSUME NEW i \in 1 .. (2 * n), i % 2 = 1
      PROVE  s[i].to = OsOrder[(i + 1) \div 2] /\ s[i].cell = "magic" /\ s[i].value = TRUE
  <2>1. s[i] = Put(OsOrder[(i + 1) \div 2], "magic", TRUE)
    BY <1>2 DEF host_os_eeconfig_init
  <2>2. /\ Put(OsOrder[(i + 1) \div 2], "magic", TRUE).to = OsOrder[(i + 1) \div 2]
        /\ Put(OsOrder[(i + 1) \div 2], "magic", TRUE).cell = "magic"
        /\ Put(OsOrder[(i + 1) \div 2], "magic", TRUE).value = TRUE
    BY MagicParts
  <2> QED
    BY <2>1, <2>2, Zenon
<1>3. ASSUME NEW i \in 1 .. (2 * n), i % 2 # 1
      PROVE  s[i].to = OsOrder[i \div 2] /\ s[i].cell = "kb"
  <2>1. s[i] = Put(OsOrder[i \div 2], "kb", ee["base"].kb)
    BY <1>3 DEF host_os_eeconfig_init
  <2> QED
    BY <2>1, PutParts DEF s
<1>4. NoVia(s)
  <2>1. s \in Seq(Writes) /\ \A i \in DOMAIN s : s[i] \in Writes
    BY InitCopiesTypes
  <2>2. \A w \in Writes : w.cell \in {"magic", "kb"} => w.to # "via"
    BY RegionNames DEF Writes, Regions
  <2> HIDE DEF s, n
  <2>3. \A i \in 1 .. (2 * n) : s[i].cell \in {"magic", "kb"}
    BY <1>2, <1>3
  <2> QED
    BY <1>1, <2>1, <2>2, <2>3 DEF NoVia
<1> HIDE DEF n, s
<1>5. NoCustom(s)
  BY <1>4 DEF NoVia, NoCustom, Customizes
<1>6. MagicTrue(s)
  <2>1. \A i \in 1 .. (2 * n) : s[i].cell = "magic" => i % 2 = 1
    BY <1>3
  <2> QED
    BY <1>1, <1>2, <2>1 DEF MagicTrue
<1>7. ASSUME NEW os \in OsTypes, NEW i \in 1 .. (2 * n), WritesKb(s[i], os)
      PROVE  \E j \in 1 .. (i - 1) : WritesMagic(s[j], os)
  <2>1. i % 2 # 1
    BY <1>2, <1>7 DEF WritesKb
  <2>2. OsOrder[i \div 2] = os
    BY <1>3, <1>7, <2>1 DEF WritesKb
  <2>3. /\ i - 1 \in 1 .. (i - 1) /\ i - 1 \in 1 .. (2 * n)
        /\ (i - 1) % 2 = 1 /\ ((i - 1) + 1) \div 2 = i \div 2
    BY <1>1, <2>1
  <2>4. s[i - 1].to = OsOrder[((i - 1) + 1) \div 2] /\ s[i - 1].cell = "magic"
    BY <1>2, <2>3
  <2>5. WritesMagic(s[i - 1], os)
    BY <2>2, <2>3, <2>4 DEF WritesMagic
  <2> QED
    BY <2>3, <2>5
<1> QED
  BY <1>1, <1>4, <1>5, <1>6, <1>7 DEF Keeps, MagicFirst, s

\* The calls that initialise end valid, and begin with the magic of the base.
LEMMA InitCallsKeep ==
    ASSUME TypeOK
    PROVE  /\ Keeps(eeconfig_init_via) /\ EndsValid(eeconfig_init_via)
           /\ Keeps(eeconfig_init_quantum) /\ EndsValid(eeconfig_init_quantum)
           /\ eeconfig_init_quantum # <<>> /\ WritesMagic(eeconfig_init_quantum[1], "base")
<1> DEFINE head == <<Put("base", "magic", TRUE), Put("via", "valid", FALSE)>>
           copies == IF keyboard_config.os_eeconfig THEN host_os_eeconfig_init ELSE <<>>
           last == <<Put("base", "kb", ZeroKb)>>
           hv == head \o eeconfig_init_via
<1>1. /\ head \in Seq(Writes) /\ copies \in Seq(Writes) /\ last \in Seq(Writes)
      /\ eeconfig_init_via \in Seq(Writes) /\ eeconfig_init_kb \in Seq(Writes)
  BY InitCallTypes, Zenon
<1>2. Keeps(head) /\ head # <<>> /\ WritesMagic(head[1], "base")
  BY RegionNames DEF Keeps, NoCustom, MagicTrue, MagicFirst, Put, Customizes, WritesKb,
                     WritesMagic, Regions
<1>3. Keeps(eeconfig_init_via) /\ EndsValid(eeconfig_init_via)
  <2>1. Keeps(eeconfig_init_via)
    BY RegionNames DEF Keeps, NoCustom, MagicTrue, MagicFirst, Put, Customizes, WritesKb,
                       eeconfig_init_via, Regions
  <2>2. /\ DOMAIN eeconfig_init_via = 1 .. 3 /\ Len(eeconfig_init_via) = 3
        /\ Validates(eeconfig_init_via[3])
    BY DEF Validates, eeconfig_init_via, Put
  <2> QED
    BY <2>1, <2>2 DEF EndsValid
<1>4. Keeps(last) /\ NoVia(last)
  BY RegionNames DEF Keeps, NoCustom, MagicTrue, MagicFirst, NoVia, Put, Customizes,
                     WritesKb, Regions
<1>5. Keeps(<<>>) /\ NoVia(<<>>)
  BY DEF Keeps, NoCustom, MagicTrue, MagicFirst, NoVia
<1>6. Keeps(copies) /\ NoVia(copies)
  BY <1>5, InitCopiesKeep
<1>7. eeconfig_init_kb = copies \o last /\ eeconfig_init_quantum = hv \o eeconfig_init_kb
  BY DEF eeconfig_init_kb, eeconfig_init_quantum
<1> HIDE DEF head, copies, last
<1>8. /\ hv \in Seq(Writes) /\ Keeps(hv) /\ EndsValid(hv)
      /\ hv # <<>> /\ WritesMagic(hv[1], "base")
  BY <1>1, <1>2, <1>3, ConcatElements, ConcatKeeps
<1> HIDE DEF hv
<1>9. Keeps(eeconfig_init_kb) /\ NoVia(eeconfig_init_kb)
  BY <1>1, <1>4, <1>6, <1>7, ConcatKeeps
<1>10. /\ Keeps(eeconfig_init_quantum) /\ EndsValid(eeconfig_init_quantum)
       /\ eeconfig_init_quantum # <<>> /\ WritesMagic(eeconfig_init_quantum[1], "base")
  BY <1>1, <1>7, <1>8, <1>9, ConcatKeeps
<1> QED
  BY <1>3, <1>10

\* A call begins: what it writes is what counts.
LEMMA CallKeeps ==
    ASSUME KeepInv, todo = <<>>, ee' = ee, ready' = ready, blank => blank',
           Validated', CustomAlone', ~blank' => (BaseMagic' /\ MagicTrue(todo') /\ MagicFirst(todo')),
           ~blank' /\ mine' => mine /\ \A i \in DOMAIN todo' : ~Invalidates(todo'[i]) /\ ~Resets(todo'[i])
    PROVE  KeepInv'
<1> SUFFICES ASSUME ~blank', ~blank
             PROVE  (BaseMagic /\ MagicTrue(todo) /\ ReadyMagic /\ Labelled /\ MineKept)'
  BY DEF KeepInv
<1>1. ReadyMagic /\ MineKept
  BY DEF KeepInv
<1>2. (BaseMagic /\ MagicTrue(todo))'
  BY DEF MagicTrue
<1>3. ReadyMagic'
  BY <1>1 DEF ReadyMagic
<1>4. Labelled'
  BY DEF Labelled, MagicFirst, WritesKb, WritesMagic
<1>5. MineKept'
  BY <1>1 DEF MineKept, Invalidates, Resets
<1> QED
  BY <1>2, <1>3, <1>4, <1>5

\* Between two calls that followed via_init, what VIA keeps is valid.
LEMMA ValidBetweenCalls ==
    ASSUME KeepInv, todo = <<>>
    PROVE  /\ pc # "via_init" => ee["via"].valid
           /\ ~blank /\ pc \in {"matrix_init", "run"} => ee["base"].magic
           /\ ~blank /\ mine => ee["base"].magic /\ ee["via"].valid
BY DEF KeepInv, Validated, EndsValid, BaseMagic, MineKept

\* The steps of the boot.
LEMMA BootKeepInv ==
    ASSUME TypeOK, KeepInv, via_init \/ magic \/ matrix_init_kb
    PROVE  KeepInv'
<1>1. /\ todo = <<>> /\ ee' = ee /\ ready' = ready /\ blank' = blank /\ mine' = mine
  BY DEF via_init, magic, matrix_init_kb, At, history
<1>2. /\ NoCustom(<<>>) /\ MagicTrue(<<>>) /\ MagicFirst(<<>>)
      /\ \A i \in DOMAIN <<>> : FALSE
  BY DEF NoCustom, MagicTrue, MagicFirst
<1>3. CASE via_init
  <2>1. pc' = "magic" /\ todo' = IF ee["via"].valid THEN <<>> ELSE eeconfig_init_via
    BY <1>3 DEF via_init, At
  <2>2. CASE ee["via"].valid
    <3>1. todo' = <<>>
      BY <2>1, <2>2
    <3>2. Validated' /\ CustomAlone' /\ BaseMagic'
      BY <1>1, <2>1, <2>2, <3>1 DEF Validated, CustomAlone, BaseMagic
    <3> QED
      BY <1>1, <1>2, <3>1, <3>2, CallKeeps
  <2>3. CASE ~ee["via"].valid
    <3>1. todo' = eeconfig_init_via
      BY <2>1, <2>3
    <3>2. Keeps(todo') /\ EndsValid(todo')
      BY <3>1, InitCallsKeep
    <3>3. Validated' /\ CustomAlone' /\ BaseMagic'
      BY <2>1, <3>2 DEF Validated, CustomAlone, BaseMagic, EndsValid, Validates, Invalidates,
                        Keeps, NoCustom, Customizes
    <3>4. ~(~blank /\ mine)
      BY <1>1, <2>3, ValidBetweenCalls
    <3> QED
      BY <1>1, <3>2, <3>3, <3>4, CallKeeps DEF Keeps
  <2> QED
    BY <2>2, <2>3
<1>4. CASE magic
  <2>1. /\ pc = "magic" /\ pc' = "matrix_init"
        /\ todo' = IF eeconfig_is_enabled THEN <<>> ELSE eeconfig_init_quantum
    BY <1>4 DEF magic, At
  <2>2. CASE eeconfig_is_enabled
    <3>1. todo' = <<>> /\ ee["base"].magic /\ ee["via"].valid
      BY <2>1, <2>2 DEF eeconfig_is_enabled
    <3>2. Validated' /\ CustomAlone' /\ BaseMagic'
      BY <1>1, <3>1 DEF Validated, CustomAlone, BaseMagic
    <3> QED
      BY <1>1, <1>2, <3>1, <3>2, CallKeeps
  <2>3. CASE ~eeconfig_is_enabled
    <3>1. todo' = eeconfig_init_quantum
      BY <2>1, <2>3
    <3>2. /\ Keeps(todo') /\ EndsValid(todo') /\ todo' # <<>>
          /\ WritesMagic(todo'[1], "base")
      BY <3>1, InitCallsKeep
    <3>3. Validated' /\ CustomAlone' /\ BaseMagic'
      BY <3>2 DEF Validated, CustomAlone, BaseMagic, EndsValid, Validates, Invalidates,
                  Keeps, NoCustom, Customizes, WritesMagic
    <3>4. ~(~blank /\ mine)
      BY <1>1, <2>3, ValidBetweenCalls DEF eeconfig_is_enabled
    <3> QED
      BY <1>1, <3>2, <3>3, <3>4, CallKeeps DEF Keeps
  <2> QED
    BY <2>2, <2>3
<1>5. CASE matrix_init_kb
  <2>1. pc = "matrix_init" /\ pc' = "run" /\ todo' = <<>>
    BY <1>1, <1>5 DEF matrix_init_kb, At
  <2>2. Validated' /\ CustomAlone'
    BY <1>1, <2>1, ValidBetweenCalls DEF Validated, CustomAlone
  <2>3. ~blank' => BaseMagic'
    BY <1>1, <2>1, ValidBetweenCalls DEF BaseMagic
  <2> QED
    BY <1>1, <1>2, <2>1, <2>2, <2>3, CallKeeps
<1> QED
  BY <1>3, <1>4, <1>5

\* A call after the boot that leaves what VIA keeps alone.
LEMMA PlainCallKeeps ==
    ASSUME KeepInv, todo = <<>>, pc = "run", pc' = "run", ee' = ee, ready' = ready,
           mine' = mine, blank => blank', NoVia(todo'),
           ~blank' => MagicTrue(todo') /\ MagicFirst(todo')
    PROVE  KeepInv'
<1>1. \A i \in DOMAIN todo' : /\ ~Invalidates(todo'[i]) /\ ~Resets(todo'[i])
                              /\ ~Customizes(todo'[i])
  BY DEF NoVia, Invalidates, Resets, Customizes
<1>2. Validated' /\ CustomAlone'
  BY <1>1, ValidBetweenCalls DEF Validated, CustomAlone, Invalidates, Customizes
<1>3. ~blank' => BaseMagic'
  BY ValidBetweenCalls DEF BaseMagic
<1> QED
  BY <1>1, <1>2, <1>3, CallKeeps

\* A write of the board's word alone.
LEMMA BaseCall ==
    ASSUME NEW kb
    PROVE  LET s == <<Put("base", "kb", kb)>>
           IN  NoVia(s) /\ MagicTrue(s) /\ MagicFirst(s)
BY RegionNames DEF NoVia, MagicTrue, MagicFirst, Put, WritesKb, Regions

\* Requests of the host: the keys that it sets are written when VIA's data is valid.
LEMMA UsbKeepInv ==
    ASSUME TypeOK, KeepInv, Usb
    PROVE  KeepInv'
<1>1. /\ todo = <<>> /\ pc = "run" /\ pc' = "run" /\ ee' = ee /\ ready' = ready /\ blank' = blank
  BY DEF Usb, SET_ADDRESS, set_device_req_len, set_config_req_len, SetOsEeconfig,
         dynamic_keymap_set, dynamic_keymap_reset, At, history
<1>2. NoVia(<<>>) /\ MagicTrue(<<>>) /\ MagicFirst(<<>>)
  BY DEF NoVia, MagicTrue, MagicFirst
<1>3. CASE todo' = <<>> /\ mine' = mine
  BY <1>1, <1>2, <1>3, PlainCallKeeps
<1>4. CASE \E on \in BOOLEAN : SetOsEeconfig(on)
  BY <1>1, <1>4, BaseCall, PlainCallKeeps DEF SetOsEeconfig, history
<1>5. CASE todo' = <<Put("via", "keymap", "custom")>> /\ mine' = mine
  <2>1. Len(todo') = 1 /\ DOMAIN todo' = {1} /\ todo'[1] = Put("via", "keymap", "custom")
    BY <1>5
  <2>2. ~Invalidates(todo'[1]) /\ ~Resets(todo'[1])
    BY <2>1 DEF Invalidates, Resets, Put
  <2>3. MagicTrue(todo') /\ MagicFirst(todo')
    BY <2>1 DEF MagicTrue, MagicFirst, Put, WritesKb
  <2>4. Validated' /\ CustomAlone'
    BY <1>1, <2>1, <2>2, ValidBetweenCalls DEF Validated, CustomAlone, Invalidates
  <2>5. ~blank' => BaseMagic'
    BY <1>1, ValidBetweenCalls DEF BaseMagic
  <2> QED
    BY <1>1, <1>5, <2>1, <2>2, <2>3, <2>4, <2>5, CallKeeps
<1>6. CASE dynamic_keymap_reset
  <2>1. /\ Len(todo') = 1 /\ DOMAIN todo' = {1} /\ todo'[1] = Put("via", "keymap", "init")
        /\ ~mine'
    BY <1>6 DEF dynamic_keymap_reset
  <2>2. ~Invalidates(todo'[1]) /\ ~Customizes(todo'[1])
    BY <2>1 DEF Invalidates, Customizes, Put
  <2>3. MagicTrue(todo') /\ MagicFirst(todo')
    BY <2>1 DEF MagicTrue, MagicFirst, Put, WritesKb
  <2>4. Validated' /\ CustomAlone'
    BY <1>1, <2>1, <2>2, ValidBetweenCalls DEF Validated, CustomAlone, Invalidates, Customizes
  <2>5. ~blank' => BaseMagic'
    BY <1>1, ValidBetweenCalls DEF BaseMagic
  <2> QED
    BY <1>1, <2>1, <2>3, <2>4, <2>5, CallKeeps
<1> QED
  BY <1>1, <1>3, <1>4, <1>5, <1>6 DEF Usb, SET_ADDRESS, set_device_req_len, set_config_req_len,
     dynamic_keymap_set, history

\* The copy of a region whose magic is set.
LEMMA CopyCall ==
    ASSUME NEW r \in Regions, NEW from
    PROVE  LET s == CopyTo(r, from)
           IN  /\ NoVia(s) /\ MagicFirst(s)
               /\ from.magic = TRUE => MagicTrue(s)
<1> DEFINE s == CopyTo(r, from)
<1>1. /\ DOMAIN s = {1, 2}
      /\ s[1].to = r /\ s[1].cell = "magic" /\ s[1].value = from.magic
      /\ s[2].to = r /\ s[2].cell = "kb"
  BY CopyElements
<1> HIDE DEF s
<1>2. NoVia(s)
  BY <1>1, RegionNames DEF NoVia
<1>3. MagicFirst(s)
  <2> SUFFICES ASSUME NEW os \in OsTypes, NEW i \in {1, 2}, WritesKb(s[i], os)
               PROVE  \E j \in 1 .. (i - 1) : WritesMagic(s[j], os)
    BY <1>1 DEF MagicFirst
  <2>1. i = 2 /\ WritesMagic(s[1], os)
    BY <1>1 DEF WritesKb, WritesMagic
  <2> QED
    BY <2>1
<1>4. from.magic = TRUE => MagicTrue(s)
  BY <1>1 DEF MagicTrue
<1> QED
  BY <1>2, <1>3, <1>4 DEF s

\* A scan: the region that is copied has the magic, unless it was never written.
LEMMA ScanKeepInv ==
    ASSUME TypeOK, KeepInv, MirrorOs \/ LoadOs
    PROVE  KeepInv'
<1> DEFINE os == get_usb_host_os_type
<1>1. os \in OsTypes /\ os \in Regions /\ "base" \in Regions
  BY OsIsKnown DEF Regions
<1>2. /\ todo = <<>> /\ pc = "run" /\ pc' = "run" /\ ee' = ee /\ ready' = ready /\ mine' = mine
      /\ ee["base"] \in Region /\ ee[os] \in Region
  BY <1>1 DEF MirrorOs, LoadOs, At, TypeOK
<1> HIDE DEF os
<1>3. CASE MirrorOs
  <2>1. todo' = CopyTo(os, ee["base"]) /\ blank' = blank
    BY <1>3 DEF MirrorOs, mirror_os_eeconfig, os
  <2>2. ~blank => ee["base"].magic = TRUE
    BY <1>2, ValidBetweenCalls DEF Region
  <2> QED
    BY <1>1, <1>2, <2>1, <2>2, CopyCall, PlainCallKeeps
<1>4. CASE LoadOs
  <2>1. todo' = CopyTo("base", ee[os]) /\ blank' = (blank \/ os \notin ready)
    BY <1>4 DEF LoadOs, load_os_eeconfig, os
  <2>2. blank => blank'
    BY <2>1
  <2>3. ~blank' => ee[os].magic = TRUE
    BY <1>2, <2>1 DEF KeepInv, ReadyMagic, Region
  <2> QED
    BY <1>1, <1>2, <2>1, <2>2, <2>3, CopyCall, PlainCallKeeps
<1> QED
  BY <1>3, <1>4

\* The keys of the board.
LEMMA KeyKeepInv ==
    ASSUME TypeOK, KeepInv, EEPROM_RESET \/ \E mode \in Modes : ChooseMode(mode)
    PROVE  KeepInv'
<1>1. CASE \E mode \in Modes : ChooseMode(mode)
  <2>1. PICK kb : /\ todo' = <<Put("base", "kb", kb)>> /\ todo = <<>> /\ pc = "run" /\ pc' = "run"
                  /\ UNCHANGED <<ee, ready, mine, blank>>
    BY <1>1 DEF ChooseMode, At
  <2> QED
    BY <2>1, BaseCall, PlainCallKeeps
<1>2. CASE EEPROM_RESET
  <2>1. /\ todo = <<>> /\ pc' = "run" /\ ~mine' /\ UNCHANGED <<ee, ready, blank>>
        /\ Keeps(todo') /\ EndsValid(todo') /\ todo' # <<>> /\ WritesMagic(todo'[1], "base")
    BY <1>2, InitCallsKeep DEF EEPROM_RESET, At
  <2>2. Validated' /\ CustomAlone' /\ BaseMagic'
    BY <2>1 DEF Validated, CustomAlone, BaseMagic, EndsValid, Validates, Invalidates,
                Keeps, NoCustom, Customizes, WritesMagic
  <2> QED
    BY <2>1, <2>2, CallKeeps DEF Keeps
<1> QED
  BY <1>1, <1>2

\* The power is lost, in a call or between two, or the firmware is changed.
LEMMA OffKeepInv ==
    ASSUME TypeOK, KeepInv, PowerLoss \/ Update
    PROVE  KeepInv'
<1>1. /\ todo' = <<>> /\ pc' = "via_init" /\ ready' = ready /\ blank' = blank
      /\ \A r \in Regions : ee'[r] = ee[r]
  BY RegionNames DEF PowerLoss, Update, Off, TypeOK, Regions
<1>2. Validated' /\ CustomAlone' /\ BaseMagic' /\ MagicTrue(todo)' /\ Labelled'
  BY <1>1 DEF Validated, CustomAlone, BaseMagic, MagicTrue, Labelled
<1>3. ~blank => ReadyMagic'
  BY <1>1 DEF KeepInv, ReadyMagic, TypeOK, Regions
<1>4. ~blank => MineKept'
  <2>1. CASE PowerLoss
    BY <1>1, <2>1 DEF PowerLoss, KeepInv, MineKept
  <2>2. CASE Update
    <3>1. PICK via : ee' = [ee EXCEPT !["via"] = via] /\ mine' = (mine /\ via = ee["via"])
      BY <2>2 DEF Update
    <3>2. ee'["via"] = via /\ "base" \in Regions
      BY <3>1 DEF TypeOK, Regions
    <3>3. mine' => mine /\ ee'["via"] = ee["via"] /\ ee'["base"] = ee["base"]
      BY <1>1, <3>1, <3>2
    <3>4. todo' = <<>>
      BY <1>1
    <3> QED
      BY <3>3, <3>4 DEF KeepInv, MineKept
  <2> QED
    BY <2>1, <2>2
<1> QED
  BY <1>1, <1>2, <1>3, <1>4 DEF KeepInv

\* A keymap that the user made is there after any power losses and changes of the host,
\* until it is reset or the firmware changes to one of another day or layout, unless a
\* region never written was loaded: no boot finds a magic missing in the middle of a call.
THEOREM KeymapIsKept == Spec => []KeymapKept
<1>1. Init => KeepInv
  BY DEF Init, KeepInv, Validated, CustomAlone, BaseMagic, MagicTrue, ReadyMagic, Labelled, MineKept
<1>2. TypeOK /\ KeepInv /\ [Next]_vars => KeepInv'
  <2> SUFFICES ASSUME TypeOK, KeepInv, [Next]_vars PROVE KeepInv'
    OBVIOUS
  <2>1. CASE UNCHANGED vars
    BY <2>1 DEF vars, ram, history, KeepInv, Validated, CustomAlone, BaseMagic, MagicTrue,
       ReadyMagic, Labelled, MineKept, EndsValid, Validates, Invalidates, Resets, Customizes,
       WritesKb, WritesMagic
  <2> QED
    BY <2>1, WriteKeepInv, BootKeepInv, UsbKeepInv, ScanKeepInv, KeyKeepInv, OffKeepInv DEF Next
<1>3. KeepInv => KeymapKept
  BY DEF KeepInv, MineKept, KeymapKept, Running
<1> QED
  BY <1>1, <1>2, <1>3, ConfigTypes, PTL DEF Spec
=============================================================================
