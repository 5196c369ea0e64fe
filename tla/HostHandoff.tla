---------------------------- MODULE HostHandoff ----------------------------
(***************************************************************************)
(* The two cores of the board (keyboards/keyboard_quantizer/mini).         *)
(*                                                                         *)
(* Core 1 runs the USB host stack: it mounts and unmounts HID interfaces   *)
(* and hands every input report over to core 0 through one shared buffer,  *)
(* whose length doubles as the "report pending" flag.  Core 0 runs QMK: it *)
(* scans the virtual matrix, parses the pending report into it, runs the   *)
(* keyboard tasks and, anywhere in its actions, may program the flash, for *)
(* which it first brings core 1 to a stop.                                 *)
(*                                                                         *)
(* A report is a snapshot of what the device holds down (0: nothing).  The *)
(* matrix is reduced to the rows keyboards write and the mouse button row. *)
(* One tuh_task() call handles at most one event.                          *)
(***************************************************************************)
EXTENDS Integers

CONSTANTS
    Keyboards, Mice,    \* HID interfaces, by what their reports are
    Values              \* what a device may hold down, 0 included

Devices == Keyboards \cup Mice

ASSUME DevicesAssumption == Keyboards \cap Mice = {} /\ Devices # {} /\ 0 \in Values

VARIABLES
    \* the devices and the host stack
    link,       \* "out", "live", or "gone": unplugged, tuh_hid_umount_cb still to come
    held,       \* what the device holds down
    fresh,      \* held has not been reported since it changed
    armed,      \* tuh_hid_receive_report is waiting for a report
    \* core 1
    c1, report, core1_task_active,
    \* shared
    hid_instance, hid_report_buffer, hid_report_size, hid_disconnect_flag,
    core1_stop_trigger, core1_start_trigger,
    \* core 0
    c0, instance, resume, current_matrix,
    \* history
    unparsed,   \* the report in the buffer has not been parsed
    orderly     \* no wait timed out, no device left with its report pending

device  == <<link, held, fresh, armed>>
buffer  == <<hid_instance, hid_report_buffer, hid_report_size>>
trigger == <<core1_stop_trigger, core1_start_trigger>>
core1   == <<c1, report, core1_task_active>>
core0   == <<c0, instance, resume>>
vars    == <<device, core1, buffer, hid_disconnect_flag, trigger, core0,
             current_matrix, unparsed, orderly>>

Report == [from : Devices, val : Values]
Rows   == {"keys", "buttons"}

Init ==
    /\ link  = [d \in Devices |-> "out"] /\ held  = [d \in Devices |-> 0]
    /\ fresh = [d \in Devices |-> FALSE] /\ armed = [d \in Devices |-> FALSE]
    /\ c1 = "task" /\ core1_task_active = TRUE
    /\ report \in [from : Devices, val : {0}]
    /\ hid_report_buffer = report /\ hid_instance = report.from
    /\ hid_report_size = 0 /\ hid_disconnect_flag = FALSE
    /\ core1_stop_trigger = FALSE /\ core1_start_trigger = FALSE
    /\ c0 = "scan" /\ instance = report.from /\ resume = "tasks"
    /\ current_matrix = [r \in Rows |-> 0]
    /\ unparsed = FALSE /\ orderly = TRUE

-----------------------------------------------------------------------------
(* The devices.  A plugged-in device is modelled from its mount on.        *)
Hold(d, v) ==
    /\ link[d] = "live" /\ v # held[d]
    /\ held' = [held EXCEPT ![d] = v] /\ fresh' = [fresh EXCEPT ![d] = TRUE]
    /\ UNCHANGED <<link, armed, core1, buffer, hid_disconnect_flag, trigger,
                   core0, current_matrix, unparsed, orderly>>

Unplug(d) ==
    /\ link[d] = "live"
    /\ link' = [link EXCEPT ![d] = "gone"]
    /\ held' = [held EXCEPT ![d] = 0] /\ fresh' = [fresh EXCEPT ![d] = FALSE]
    /\ UNCHANGED <<armed, core1, buffer, hid_disconnect_flag, trigger,
                   core0, current_matrix, unparsed, orderly>>

-----------------------------------------------------------------------------
(* Core 1: core1_main and the callbacks of tuh_task.                       *)
HostTask == c1 = "task" /\ core1_task_active

\* tuh_task has nothing to do, or is not called at all.
NoEvent ==
    /\ c1 = "task" /\ c1' = "check"
    /\ UNCHANGED <<device, report, core1_task_active, buffer, hid_disconnect_flag,
                   trigger, core0, current_matrix, unparsed, orderly>>

tuh_hid_mount_cb(d) ==
    /\ HostTask /\ link[d] = "out"
    /\ link' = [link EXCEPT ![d] = "live"] /\ armed' = [armed EXCEPT ![d] = TRUE]
    /\ c1' = "check"
    /\ UNCHANGED <<held, fresh, report, core1_task_active, buffer, hid_disconnect_flag,
                   trigger, core0, current_matrix, unparsed, orderly>>

\* Core 0 has passed the pending report to report_parser and will consume it
\* before it looks at the disconnect flag again.
Consuming ==
    \/ c0 \in {"parse", "hook", "consume"}
    \/ c0 \in {"stopping", "flash", "starting"} /\ resume = "hook"

\* A mistake: core 0 is not told.
UmountUnnoticed(d) ==
    /\ HostTask /\ link[d] = "gone"
    /\ link' = [link EXCEPT ![d] = "out"] /\ armed' = [armed EXCEPT ![d] = FALSE]
    /\ c1' = "check"
    /\ UNCHANGED <<held, fresh, report, core1_task_active, buffer, hid_disconnect_flag,
                   trigger, core0, current_matrix, unparsed, orderly>>

tuh_hid_umount_cb(d) ==
    /\ HostTask /\ link[d] = "gone"
    /\ link' = [link EXCEPT ![d] = "out"] /\ armed' = [armed EXCEPT ![d] = FALSE]
    /\ hid_disconnect_flag' = TRUE
    /\ orderly' = (orderly /\ ~(hid_report_size > 0 /\ hid_instance = d /\ ~Consuming))
    /\ c1' = "check"
    /\ UNCHANGED <<held, fresh, report, core1_task_active, buffer,
                   trigger, core0, current_matrix, unparsed>>

\* tuh_hid_report_received_cb is called.
tuh_hid_report_received_cb(d) ==
    /\ HostTask /\ link[d] = "live" /\ armed[d] /\ fresh[d]
    /\ report' = [from |-> d, val |-> held[d]]
    /\ fresh' = [fresh EXCEPT ![d] = FALSE] /\ armed' = [armed EXCEPT ![d] = FALSE]
    /\ c1' = "wait"
    /\ UNCHANGED <<link, held, core1_task_active, buffer, hid_disconnect_flag,
                   trigger, core0, current_matrix, unparsed, orderly>>

\* The wait loop ends because core 0 has consumed the previous report.
BufferFree ==
    /\ c1 = "wait" /\ hid_report_size = 0
    /\ c1' = "instance"
    /\ UNCHANGED <<device, report, core1_task_active, buffer, hid_disconnect_flag,
                   trigger, core0, current_matrix, unparsed, orderly>>

\* Core 0 is where actions run: the tasks of the main loop, or the wheel of a
\* mouse report, whose actions are executed while it is parsed.
InAction == c0 = "tasks" \/ (c0 = "hook" /\ instance \in Mice)

\* It may stay there for more than 50 000 us (the host does not poll its USB
\* endpoint), and it waits for core 1 before it programs the flash.
MayStall == InAction \/ c0 = "stopping"

\* A mistake: a wait loop without a bound.
WaitForever == c1 = "wait" /\ hid_report_size > 0 /\ UNCHANGED vars

\* The wait loop gives up.
WaitTimesOut ==
    /\ c1 = "wait" /\ hid_report_size > 0 /\ MayStall
    /\ c1' = "instance" /\ orderly' = FALSE
    /\ UNCHANGED <<device, report, core1_task_active, buffer, hid_disconnect_flag,
                   trigger, core0, current_matrix, unparsed>>

StoreInstance ==
    /\ c1 = "instance" /\ c1' = "copy"
    /\ hid_instance' = report.from
    /\ UNCHANGED <<device, report, core1_task_active, hid_report_buffer, hid_report_size,
                   hid_disconnect_flag, trigger, core0, current_matrix, unparsed, orderly>>

CopyReport ==
    /\ c1 = "copy" /\ c1' = "publish"
    /\ hid_report_buffer' = report
    /\ UNCHANGED <<device, report, core1_task_active, hid_instance, hid_report_size,
                   hid_disconnect_flag, trigger, core0, current_matrix, unparsed, orderly>>

\* Mistakes: the length is added to what is pending; the endpoint is not armed.
PublishMore ==
    /\ c1 = "publish" /\ c1' = "check"
    /\ hid_report_size' = hid_report_size + 1 /\ unparsed' = TRUE
    /\ armed' = [armed EXCEPT ![report.from] = (link[report.from] = "live")]
    /\ UNCHANGED <<link, held, fresh, report, core1_task_active, hid_instance,
                   hid_report_buffer, hid_disconnect_flag, trigger, core0,
                   current_matrix, orderly>>

PublishUnarmed ==
    /\ c1 = "publish" /\ c1' = "check"
    /\ hid_report_size' = 1 /\ unparsed' = TRUE
    /\ UNCHANGED <<device, report, core1_task_active, hid_instance,
                   hid_report_buffer, hid_disconnect_flag, trigger, core0,
                   current_matrix, orderly>>

\* The length is stored last, then the endpoint is armed again.
PublishReport ==
    /\ c1 = "publish" /\ c1' = "check"
    /\ hid_report_size' = 1 /\ unparsed' = TRUE
    /\ armed' = [armed EXCEPT ![report.from] = (link[report.from] = "live")]
    /\ UNCHANGED <<link, held, fresh, report, core1_task_active, hid_instance,
                   hid_report_buffer, hid_disconnect_flag, trigger, core0,
                   current_matrix, orderly>>

\* The requests of core 0, the one to stop first.
ServeRequests ==
    \/ /\ core1_stop_trigger
       /\ core1_task_active' = FALSE /\ core1_stop_trigger' = FALSE
       /\ UNCHANGED core1_start_trigger
    \/ /\ ~core1_stop_trigger /\ core1_start_trigger
       /\ core1_task_active' = TRUE /\ core1_start_trigger' = FALSE
       /\ UNCHANGED core1_stop_trigger
    \/ ~core1_stop_trigger /\ ~core1_start_trigger /\ UNCHANGED <<core1_task_active, trigger>>

\* A mistake: requests are served in the wait loop too.
CheckTriggersInWait ==
    /\ c1 \in {"check", "wait"}
    /\ c1' = IF c1 = "check" THEN "task" ELSE c1
    /\ ServeRequests
    /\ UNCHANGED <<device, report, buffer, hid_disconnect_flag, core0,
                   current_matrix, unparsed, orderly>>

\* The rest of the loop body of core1_main.
CheckTriggers ==
    /\ c1 = "check" /\ c1' = "task"
    /\ ServeRequests
    /\ UNCHANGED <<device, report, buffer, hid_disconnect_flag, core0,
                   current_matrix, unparsed, orderly>>

-----------------------------------------------------------------------------
(* Core 0: matrix_scan_custom, the tasks of the main loop, flash writes.   *)

\* The disconnect branch comes first: clear every row, then the flag.
ClearMatrix ==
    /\ c0 = "scan" /\ hid_disconnect_flag
    /\ current_matrix' = [r \in Rows |-> 0]
    /\ c0' = "cleared"
    /\ UNCHANGED <<device, core1, buffer, hid_disconnect_flag, trigger,
                   instance, resume, unparsed, orderly>>

EndDisconnect ==
    /\ c0 = "cleared" /\ c0' = "tasks"
    /\ hid_disconnect_flag' = FALSE
    /\ UNCHANGED <<device, core1, buffer, trigger, instance, resume,
                   current_matrix, unparsed, orderly>>

\* A mistake: the flag is cleared before the report is parsed.
TakeReportEarly ==
    /\ c0 = "scan" /\ ~hid_disconnect_flag /\ hid_report_size > 0
    /\ instance' = hid_instance /\ c0' = "parse" /\ hid_report_size' = 0
    /\ UNCHANGED <<device, core1, hid_instance, hid_report_buffer, hid_disconnect_flag,
                   trigger, resume, current_matrix, unparsed, orderly>>

\* A report is pending: the arguments of report_parser are read.
TakeReport ==
    /\ c0 = "scan" /\ ~hid_disconnect_flag /\ hid_report_size > 0
    /\ instance' = hid_instance /\ c0' = "parse"
    /\ UNCHANGED <<device, core1, buffer, hid_disconnect_flag, trigger, resume,
                   current_matrix, unparsed, orderly>>

NothingToScan ==
    /\ c0 = "scan" /\ ~hid_disconnect_flag /\ hid_report_size = 0
    /\ c0' = "tasks"
    /\ UNCHANGED <<device, core1, buffer, hid_disconnect_flag, trigger,
                   instance, resume, current_matrix, unparsed, orderly>>

\* keyboard_report_hook writes the rows 0 .. MATRIX_ROWS_DEFAULT - 2, the mouse
\* button row included, for which a keyboard has nothing to report.
keyboard_report_hook(v) == current_matrix' = [keys |-> v, buttons |-> 0]

mouse_report_hook(v) == current_matrix' = [current_matrix EXCEPT !["buttons"] = v]

\* parse_report: the interface number selects the descriptor the buffer is read
\* with; the bytes of another interface decode to anything.
parse_report ==
    /\ c0 = "parse" /\ c0' = "hook"
    /\ \E v \in IF hid_report_buffer.from = instance
                THEN {hid_report_buffer.val} ELSE Values :
          \/ instance \in Keyboards /\ keyboard_report_hook(v)
          \/ instance \in Mice /\ mouse_report_hook(v)
    /\ unparsed' = FALSE
    /\ UNCHANGED <<device, core1, buffer, hid_disconnect_flag, trigger,
                   instance, resume, orderly>>

\* The hook returns, the actions it executed included.
EndHook ==
    /\ c0 = "hook" /\ c0' = "consume"
    /\ UNCHANGED <<device, core1, buffer, hid_disconnect_flag, trigger,
                   instance, resume, current_matrix, unparsed, orderly>>

ConsumeReport ==
    /\ c0 = "consume" /\ c0' = "tasks"
    /\ hid_report_size' = 0
    /\ UNCHANGED <<device, core1, hid_instance, hid_report_buffer, hid_disconnect_flag,
                   trigger, instance, resume, current_matrix, unparsed, orderly>>

\* The rest of the main loop.
EndTasks ==
    /\ c0 = "tasks" /\ c0' = "scan"
    /\ UNCHANGED <<device, core1, buffer, hid_disconnect_flag, trigger,
                   instance, resume, current_matrix, unparsed, orderly>>

\* FLASH_Unlock, called by an action: ask core 1 to stop and wait for it.
pico_before_flash_operation ==
    /\ InAction
    /\ resume' = c0 /\ c0' = "stopping" /\ core1_stop_trigger' = TRUE
    /\ UNCHANGED <<device, core1, buffer, hid_disconnect_flag, core1_start_trigger,
                   instance, current_matrix, unparsed, orderly>>

Stopped ==
    /\ c0 = "stopping" /\ ~core1_stop_trigger
    /\ c0' = "flash"
    /\ UNCHANGED <<device, core1, buffer, hid_disconnect_flag, trigger,
                   instance, resume, current_matrix, unparsed, orderly>>

\* FLASH_Lock, when the flash is no longer busy.
pico_after_flash_operation ==
    /\ c0 = "flash" /\ c0' = "starting" /\ core1_start_trigger' = TRUE
    /\ UNCHANGED <<device, core1, buffer, hid_disconnect_flag, core1_stop_trigger,
                   instance, resume, current_matrix, unparsed, orderly>>

Started ==
    /\ c0 = "starting" /\ ~core1_start_trigger
    /\ c0' = resume
    /\ UNCHANGED <<device, core1, buffer, hid_disconnect_flag, trigger,
                   instance, resume, current_matrix, unparsed, orderly>>

-----------------------------------------------------------------------------
World == \E d \in Devices : Unplug(d) \/ \E v \in Values : Hold(d, v)

Event == \E d \in Devices :
    tuh_hid_mount_cb(d) \/ tuh_hid_umount_cb(d) \/ tuh_hid_report_received_cb(d)

Core1 ==
    \/ NoEvent \/ BufferFree \/ WaitTimesOut
    \/ StoreInstance \/ CopyReport \/ PublishReport \/ CheckTriggers

Core0 ==
    \/ ClearMatrix \/ EndDisconnect \/ TakeReport \/ NothingToScan
    \/ parse_report \/ EndHook \/ ConsumeReport \/ EndTasks
    \/ Stopped \/ pico_after_flash_operation \/ Started

Next == World \/ Event \/ Core1 \/ Core0 \/ pico_before_flash_operation

Spec == Init /\ [][Next]_vars

\* Both cores run; a report a device has ready is fetched and an unplugged
\* device is noticed in the end.  Flash writes need not happen, and the actions
\* of a pass through the main loop write the flash finitely often.
FairSpec ==
    /\ Spec
    /\ WF_vars(Core1)
    /\ WF_vars(Core0) /\ SF_vars(EndHook) /\ SF_vars(EndTasks)
    /\ \A d \in Devices : SF_vars(tuh_hid_report_received_cb(d)) /\ SF_vars(tuh_hid_umount_cb(d))

-----------------------------------------------------------------------------
TypeOK ==
    /\ link \in [Devices -> {"out", "live", "gone"}] /\ held \in [Devices -> Values]
    /\ fresh \in [Devices -> BOOLEAN] /\ armed \in [Devices -> BOOLEAN]
    /\ c1 \in {"task", "check", "wait", "instance", "copy", "publish"}
    /\ report \in Report /\ core1_task_active \in BOOLEAN
    /\ hid_instance \in Devices /\ hid_report_buffer \in Report /\ hid_report_size \in {0, 1}
    /\ hid_disconnect_flag \in BOOLEAN
    /\ core1_stop_trigger \in BOOLEAN /\ core1_start_trigger \in BOOLEAN
    /\ c0 \in {"scan", "cleared", "parse", "hook", "consume", "tasks",
               "stopping", "flash", "starting"}
    /\ instance \in Devices /\ resume \in {"hook", "tasks"}
    /\ current_matrix \in [Rows -> Values]
    /\ unparsed \in BOOLEAN /\ orderly \in BOOLEAN

\* While core 0 programs the flash, core 1 executes nothing but its idle loop.
FlashExclusive == c0 = "flash" => c1 \in {"task", "check"} /\ ~core1_task_active

\* Core 1 never writes the shared buffer while core 0 reads it or while a
\* report nobody has parsed is in it, unless its wait timed out.
BufferExclusive ==
    orderly /\ c1 \in {"instance", "copy", "publish"} =>
        hid_report_size = 0 /\ ~unparsed /\ ~Consuming

\* What a device of d's kind shows in the matrix.
RowOf(d) == IF d \in Keyboards THEN "keys" ELSE "buttons"

\* Nothing about d is on its way to the matrix.
Quiet(d) ==
    /\ link[d] = "live" /\ ~fresh[d]
    /\ c1 \in {"wait", "instance", "copy", "publish"} => report.from # d
    /\ hid_report_size > 0 /\ unparsed => hid_report_buffer.from # d
    /\ ~hid_disconnect_flag

\* No stuck keys: once everything about a device has arrived, the matrix shows
\* either what it holds down or (another device disconnected, or the keyboard
\* reported after the mouse) nothing at all.
NothingStuck ==
    orderly => \A d \in Devices : Quiet(d) => current_matrix[RowOf(d)] \in {held[d], 0}

\* A flash write gets core 1 stopped and lets it run again: neither core waits
\* for the other forever.
FlashCompletes == c0 = "stopping" ~> (c0 \in {"hook", "tasks"} /\ core1_task_active)

\* Nobody else writes the row of these devices.
Undisturbed == IF Keyboards = {} THEN Mice ELSE Keyboards

\* What such a device holds down long enough shows up in the matrix, unless a
\* report was lost or a device went away meanwhile.
HeldReachesMatrix ==
    \A d \in Undisturbed, v \in Values :
        link[d] = "live" /\ held[d] = v
            ~> \/ current_matrix[RowOf(d)] = v \/ held[d] # v \/ link[d] # "live"
               \/ hid_disconnect_flag \/ ~orderly
=============================================================================
