---------------------------- MODULE KeyboardLeds ----------------------------
(***************************************************************************)
(* The LED indicators of the connected keyboard (matrix.c of the mini      *)
(* board).  Core 0 compares what the host wants with what it sent last and *)
(* sends an output report when they differ; core 1, in the callbacks of    *)
(* the USB host stack, keeps the address of the keyboard up to date.       *)
(*                                                                         *)
(* kbd_addr and kbd_instance are one variable here (0: no keyboard).  A    *)
(* set of LEDs is a value, 0 when all are dark.  The request points at     *)
(* keyboard_led, which core 0 sets to the new value before it asks and sets*)
(* back when it is refused: the two assignments are steps of their own, and*)
(* a transfer under way may read the variable before, between or after.    *)
(***************************************************************************)
EXTENDS Integers

CONSTANTS
  Keyboard,     \* the keyboard
  Others,       \* other HID devices
  Removable,    \* the devices that may be unplugged
  Leds          \* what the host may want to show, 0 included

HidDevices == Others \cup {Keyboard}

ASSUME LedAssumption ==
  /\ Keyboard \notin Others /\ 0 \notin HidDevices
  /\ 0 \in Leds

VARIABLES
  port,          \* "out", "attached": tuh_mount_cb to come, "live", "gone": umount to come
  shown,         \* the LEDs the keyboard lights
  transfer,      \* the stage a control transfer has to go through next, or "none"
  kbd_addr,
  host_leds,     \* host_keyboard_leds()
  keyboard_led, led_backup,
  led_step,      \* core 0: "scan", "check", "send" or "restore"
  reported,      \* history: a keyboard has been sent LEDs
  disturbed,     \* history: an address was lost, or a keyboard came after LEDs were sent
  taken_back     \* history: the keyboard was sent, in the transfer before, a value that
                 \* core 0 then took back, and nothing since

led_vars == <<port, shown, transfer, kbd_addr, host_leds, keyboard_led, led_backup, led_step,
          reported, disturbed, taken_back>>

LedTypeOK ==
  /\ port \in [HidDevices -> {"out", "attached", "live", "gone"}]
  /\ {shown, host_leds, keyboard_led, led_backup} \subseteq Leds
  /\ transfer \in {"none", "data", "status"} /\ kbd_addr \in {0, Keyboard}
  /\ led_step \in {"scan", "check", "send", "restore"}
  /\ {reported, disturbed, taken_back} \subseteq BOOLEAN

LedInit ==
  /\ port = [d \in HidDevices |-> "out"] /\ shown = 0 /\ transfer = "none" /\ kbd_addr = 0
  /\ host_leds = 0 /\ keyboard_led = 0 /\ led_backup = 0 /\ led_step = "scan"
  /\ reported = FALSE /\ disturbed = FALSE /\ taken_back = FALSE

-----------------------------------------------------------------------------
(* The devices and the host.                                                *)

\* A keyboard that has just got power shows nothing.
Attach(d) ==
  /\ port[d] = "out"
  /\ port' = [port EXCEPT ![d] = "attached"]
  /\ shown' = IF d = Keyboard THEN 0 ELSE shown
  /\ UNCHANGED <<transfer, kbd_addr, host_leds, keyboard_led, led_backup, led_step,
                 reported, disturbed, taken_back>>

Detach(d) ==
  /\ d \in Removable /\ port[d] = "live"
  /\ port' = [port EXCEPT ![d] = "gone"]
  /\ shown' = IF d = Keyboard THEN 0 ELSE shown
  /\ transfer' = IF d = Keyboard THEN "none" ELSE transfer
  /\ UNCHANGED <<kbd_addr, host_leds, keyboard_led, led_backup, led_step,
                 reported, disturbed, taken_back>>

\* The data stage sends what keyboard_led holds by then.
DataStage ==
  /\ transfer = "data"
  /\ shown' = keyboard_led
  /\ transfer' = "status"
  /\ UNCHANGED <<port, kbd_addr, host_leds, keyboard_led, led_backup, led_step,
                 reported, disturbed, taken_back>>

StatusStage ==
  /\ transfer = "status"
  /\ transfer' = "none"
  /\ UNCHANGED <<port, shown, kbd_addr, host_leds, keyboard_led, led_backup, led_step,
                 reported, disturbed, taken_back>>

\* The host sets its LEDs while core 0 serves the USB device stack.
SetHostLeds(v) ==
  /\ led_step = "scan" /\ v # host_leds
  /\ host_leds' = v
  /\ UNCHANGED <<port, shown, transfer, kbd_addr, keyboard_led, led_backup, led_step,
                 reported, disturbed, taken_back>>

-----------------------------------------------------------------------------
(* Core 1.                                                                  *)

\* A plausible mistake: the protocol of the interface is not looked at.
tuh_mount_any(d) ==
  /\ port[d] = "attached"
  /\ port' = [port EXCEPT ![d] = "live"]
  /\ kbd_addr' = d
  /\ disturbed' = (disturbed \/ (d = Keyboard /\ reported))
  /\ UNCHANGED <<shown, transfer, host_leds, keyboard_led, led_backup, led_step,
                 reported, taken_back>>

tuh_mount_cb(d) ==
  /\ port[d] = "attached"
  /\ port' = [port EXCEPT ![d] = "live"]
  /\ kbd_addr' = IF d = Keyboard THEN d ELSE kbd_addr
  /\ disturbed' = (disturbed \/ (d = Keyboard /\ reported))
  /\ UNCHANGED <<shown, transfer, host_leds, keyboard_led, led_backup, led_step,
                 reported, taken_back>>

\* Of tuh_hid_umount_cb what it does to the address.
tuh_hid_umount_addr(d) ==
  /\ port[d] = "gone"
  /\ port' = [port EXCEPT ![d] = "out"]
  /\ kbd_addr' = 0
  /\ disturbed' = (disturbed \/ (d # Keyboard /\ port[Keyboard] # "out"))
  /\ UNCHANGED <<shown, transfer, host_leds, keyboard_led, led_backup, led_step,
                 reported, taken_back>>

-----------------------------------------------------------------------------
(* Core 0: the head of matrix_scan_custom, and send_led_report, which looks *)
(* at kbd_addr twice.                                                       *)

CompareLeds ==
  /\ led_step = "scan" /\ keyboard_led # host_leds
  /\ led_backup' = keyboard_led
  /\ keyboard_led' = host_leds
  /\ led_step' = "check"
  /\ UNCHANGED <<port, shown, transfer, kbd_addr, host_leds, reported, disturbed, taken_back>>

CheckAddress ==
  /\ led_step = "check"
  /\ led_step' = IF kbd_addr # 0 THEN "send" ELSE "restore"
  /\ UNCHANGED <<port, shown, transfer, keyboard_led, kbd_addr, host_leds, led_backup,
                 reported, disturbed, taken_back>>

\* tuh_hid_set_report takes the request unless a transfer is under way or the
\* device is not there.
Accepts == kbd_addr # 0 /\ port[kbd_addr] = "live" /\ transfer = "none"

\* A plausible mistake: a refused report counts as sent.
SendNoRetry ==
  /\ led_step = "send"
  /\ transfer' = IF Accepts THEN "data" ELSE transfer
  /\ led_step' = "scan"
  /\ reported' = (reported \/ Accepts)
  /\ taken_back' = (taken_back /\ ~Accepts)
  /\ UNCHANGED <<port, shown, keyboard_led, kbd_addr, host_leds, led_backup, disturbed>>

SendReport ==
  /\ led_step = "send"
  /\ IF Accepts THEN transfer' = "data" /\ led_step' = "scan"
                ELSE led_step' = "restore" /\ UNCHANGED transfer
  /\ reported' = (reported \/ Accepts)
  /\ taken_back' = (taken_back /\ ~Accepts)
  /\ UNCHANGED <<port, shown, keyboard_led, kbd_addr, host_leds, led_backup, disturbed>>

\* A keyboard that was sent the new value meanwhile goes on showing it.
Restore ==
  /\ led_step = "restore"
  /\ keyboard_led' = led_backup
  /\ led_step' = "scan"
  /\ taken_back' = \/ taken_back
                   \/ port[Keyboard] = "live" /\ transfer # "data" /\ shown = keyboard_led
  /\ UNCHANGED <<port, shown, transfer, kbd_addr, host_leds, led_backup, reported, disturbed>>

LedTask == CompareLeds \/ CheckAddress \/ SendReport \/ Restore
HostStack == \E d \in HidDevices : tuh_mount_cb(d) \/ tuh_hid_umount_addr(d)

LedNext ==
  \/ \E d \in HidDevices : Attach(d) \/ Detach(d)
  \/ \E v \in Leds : SetHostLeds(v)
  \/ DataStage \/ StatusStage \/ LedTask \/ HostStack

\* Both cores keep running and a transfer that was taken is carried out.
\* Nothing makes the user plug or the host change its LEDs.
LedSpec == /\ LedInit /\ [][LedNext]_led_vars
           /\ WF_led_vars(LedTask) /\ WF_led_vars(HostStack)
           /\ WF_led_vars(DataStage) /\ WF_led_vars(StatusStage)

-----------------------------------------------------------------------------
(* Properties.                                                              *)

Settled(v) == port[Keyboard] = "live" /\ host_leds = v

\* A keyboard that stays connected comes to show what the host wants once the
\* host stays with it, refused reports and changes of mind on the way included.
\* Excepted are a keyboard that was plugged in after LEDs had been sent, another
\* device that left, and a value that a transfer under way picked up while its own
\* request was being refused (matrix.c:96-98), if the host goes back to the value
\* core 0 restores: nothing is sent then.  If the host stays with it, the retry is
\* taken and taken_back is over.
LedsFollow == \A v \in Leds : <>[](Settled(v) /\ ~disturbed /\ ~taken_back) => <>[](shown = v)
=============================================================================
