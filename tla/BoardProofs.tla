---------------------------- MODULE BoardProofs ----------------------------
(***************************************************************************)
(* Proofs about what the mini board does by itself, in matrix.c and main.c *)
(* of its directory: the report path between the two cores (HostHandoff),  *)
(* the LEDs of the keyboard (KeyboardLeds) and the analog stick (Joystick),*)
(* for any devices, values, readings and settings.  The three keep their   *)
(* own variables, and nothing is assumed of how their steps interleave.    *)
(*                                                                         *)
(* FlashInv is the handshake around a flash write; BufferInv is who owns   *)
(* the report buffer as long as no wait has timed out; LedInv is where the *)
(* LEDs core 0 sent last are; JInv relates the two time stamps of the stick*)
(* to the time that really passed: still_ms has not wrapped, and since it  *)
(* was started the stick stayed where it was.  All are inductive.          *)
(***************************************************************************)
EXTENDS HostHandoff, KeyboardLeds, Joystick, TLAPS

InFlash == {"stopping", "flash", "starting"}
Writing == c1 \in {"instance", "copy", "publish"}

-----------------------------------------------------------------------------
(* Types.                                                                  *)

\* The first reports, devices and descriptors have their types.
LEMMA InitTypes == Init => TypeOK
BY DevicesAssumption DEF Init, TypeOK, Report, Rows

\* Every step keeps the types.
LEMMA StepTypes == TypeOK /\ [Next]_vars => TypeOK'
<1> SUFFICES ASSUME TypeOK, [Next]_vars PROVE TypeOK'
  OBVIOUS
<1> USE DEF TypeOK, device, core1, buffer, trigger, core0
<1>1. CASE World
  <2>1. ASSUME NEW d \in Devices, Unplug(d) PROVE TypeOK'
    BY <2>1, DevicesAssumption DEF Unplug
  <2>2. ASSUME NEW d \in Devices, NEW v \in Values, Hold(d, v) PROVE TypeOK'
    BY <2>2 DEF Hold
  <2> QED
    BY <1>1, <2>1, <2>2 DEF World
<1>2. CASE Event
  <2>1. ASSUME NEW d \in Devices, tuh_hid_mount_cb(d) PROVE TypeOK'
    BY <2>1 DEF tuh_hid_mount_cb
  <2>2. ASSUME NEW d \in Devices, tuh_hid_umount_cb(d) PROVE TypeOK'
    BY <2>2 DEF tuh_hid_umount_cb
  <2>3. ASSUME NEW d \in Devices, tuh_hid_report_received_cb(d) PROVE TypeOK'
    BY <2>3 DEF tuh_hid_report_received_cb, Report
  <2> QED
    BY <1>2, <2>1, <2>2, <2>3 DEF Event
<1>3. CASE Core1
  <2>1. CASE NoEvent
    BY <2>1 DEF NoEvent
  <2>2. CASE BufferFree
    BY <2>2 DEF BufferFree
  <2>3. CASE WaitTimesOut
    BY <2>3 DEF WaitTimesOut
  <2>4. CASE StoreInstance
    BY <2>4 DEF StoreInstance, Report
  <2>5. CASE CopyReport
    BY <2>5 DEF CopyReport
  <2>6. CASE PublishReport
    BY <2>6 DEF PublishReport, Report
  <2>7. CASE CheckTriggers
    <3>1. core1_task_active' \in BOOLEAN /\ core1_stop_trigger' \in BOOLEAN
          /\ core1_start_trigger' \in BOOLEAN
      BY <2>7 DEF CheckTriggers, ServeRequests
    <3> QED
      BY <2>7, <3>1 DEF CheckTriggers
  <2> QED
    BY <1>3, <2>1, <2>2, <2>3, <2>4, <2>5, <2>6, <2>7 DEF Core1
<1>4. CASE Core0 \/ pico_before_flash_operation
  <2>1. CASE parse_report
    <3>1. PICK v \in Values : current_matrix' = [keys |-> v, buttons |-> 0]
                              \/ current_matrix' = [current_matrix EXCEPT !["buttons"] = v]
      BY <2>1 DEF parse_report, keyboard_report_hook, mouse_report_hook, Report
    <3>2. current_matrix' \in [Rows -> Values]
      BY <3>1, DevicesAssumption DEF Rows
    <3> QED
      BY <2>1, <3>2 DEF parse_report
  <2>2. CASE ClearMatrix
    BY <2>2, DevicesAssumption DEF ClearMatrix
  <2>3. CASE EndDisconnect
    BY <2>3 DEF EndDisconnect
  <2>4. CASE TakeReport
    BY <2>4 DEF TakeReport
  <2>5. CASE NothingToScan
    BY <2>5 DEF NothingToScan
  <2>6. CASE EndHook
    BY <2>6 DEF EndHook
  <2>7. CASE ConsumeReport
    BY <2>7 DEF ConsumeReport
  <2>8. CASE EndTasks
    BY <2>8 DEF EndTasks
  <2>9. CASE pico_before_flash_operation
    BY <2>9 DEF pico_before_flash_operation, InAction
  <2>10. CASE Stopped
    BY <2>10 DEF Stopped
  <2>11. CASE pico_after_flash_operation
    BY <2>11 DEF pico_after_flash_operation
  <2>12. CASE Started
    BY <2>12 DEF Started
  <2> QED
    BY <1>4, <2>1, <2>2, <2>3, <2>4, <2>5, <2>6, <2>7, <2>8, <2>9, <2>10, <2>11, <2>12 DEF Core0
<1>5. CASE UNCHANGED vars
  BY <1>5 DEF vars
<1> QED
  BY <1>1, <1>2, <1>3, <1>4, <1>5 DEF Next

\* TypeOK in every reachable state; hid_report_size counts at most one report.
THEOREM HandoffTypes == Spec => []TypeOK
BY InitTypes, StepTypes, PTL DEF Spec

-----------------------------------------------------------------------------
(* Flash writes.                                                           *)

\* A request is pending only while core 0 waits for it; once core 1 has answered
\* the request to stop it executes nothing but its idle loop.
FlashInv ==
    /\ core1_stop_trigger => c0 = "stopping"
    /\ core1_start_trigger => c0 = "starting"
    /\ c0 = "flash" \/ (c0 = "stopping" /\ ~core1_stop_trigger)
         => c1 \in {"task", "check"} /\ ~core1_task_active

\* Every step keeps the handshake.
LEMMA StepFlash == TypeOK /\ FlashInv /\ [Next]_vars => FlashInv'
<1> SUFFICES ASSUME TypeOK, FlashInv, [Next]_vars PROVE FlashInv'
  OBVIOUS
<1> USE DEF FlashInv, device, core1, buffer, trigger, core0
<1>1. CASE World
  BY <1>1 DEF World, Unplug, Hold
<1>2. CASE Event
  BY <1>2 DEF Event, tuh_hid_mount_cb, tuh_hid_umount_cb, tuh_hid_report_received_cb, HostTask
<1>3. CASE Core1
  <2>1. CASE CheckTriggers
    BY <2>1 DEF CheckTriggers, ServeRequests
  <2>2. CASE ~CheckTriggers
    BY <1>3, <2>2 DEF Core1, NoEvent, BufferFree, WaitTimesOut, StoreInstance, CopyReport, PublishReport
  <2> QED
    BY <2>1, <2>2
<1>4. CASE Core0 \/ pico_before_flash_operation
  <2>1. CASE ClearMatrix \/ EndDisconnect \/ TakeReport \/ NothingToScan
    BY <2>1 DEF ClearMatrix, EndDisconnect, TakeReport, NothingToScan
  <2>2. CASE parse_report \/ EndHook \/ ConsumeReport \/ EndTasks
    BY <2>2 DEF parse_report, EndHook, ConsumeReport, EndTasks
  <2>3. CASE pico_before_flash_operation \/ Stopped \/ pico_after_flash_operation \/ Started
    BY <2>3 DEF pico_before_flash_operation, Stopped, pico_after_flash_operation, Started,
                InAction, TypeOK
  <2> QED
    BY <1>4, <2>1, <2>2, <2>3 DEF Core0
<1>5. CASE UNCHANGED vars
  BY <1>5 DEF vars
<1> QED
  BY <1>1, <1>2, <1>3, <1>4, <1>5 DEF Next

\* While core 0 programs the flash, core 1 runs nothing but its idle loop.
THEOREM FlashExclusion == Spec => []FlashExclusive
<1>1. Init => FlashInv
  BY DEF Init, FlashInv
<1>2. FlashInv => FlashExclusive
  BY DEF FlashInv, FlashExclusive
<1> QED
  BY <1>1, <1>2, InitTypes, StepTypes, StepFlash, PTL DEF Spec

-----------------------------------------------------------------------------
(* The report buffer.                                                      *)

\* Core 0 has parsed the report and has not consumed it yet.
Parsed == c0 \in {"hook", "consume"} \/ (c0 \in InFlash /\ resume = "hook")

\* The buffer is empty while core 1 writes it; a report stays until core 0, which
\* took it, has parsed and consumed it.
BufferInv ==
    orderly =>
        /\ Writing => hid_report_size = 0 /\ ~Consuming
        /\ Consuming \/ unparsed => hid_report_size = 1
        /\ Parsed => ~unparsed

\* Every step keeps the ownership of the buffer.
LEMMA StepBuffer == TypeOK /\ BufferInv /\ [Next]_vars => BufferInv'
<1> SUFFICES ASSUME TypeOK, BufferInv, orderly', [Next]_vars PROVE BufferInv'
  BY DEF BufferInv
<1> USE DEF device, core1, buffer, trigger, core0
<1>1. CASE World
  BY <1>1 DEF World, Unplug, Hold, BufferInv, Writing, Consuming, Parsed, InFlash
<1>2. CASE Event
  BY <1>2 DEF Event, tuh_hid_mount_cb, tuh_hid_umount_cb, tuh_hid_report_received_cb, HostTask,
              BufferInv, Writing, Consuming, Parsed, InFlash
<1>3. CASE Core1
  <2>1. CASE BufferFree
    BY <2>1 DEF BufferFree, BufferInv, Writing, Consuming, Parsed, InFlash
  <2>2. CASE StoreInstance \/ CopyReport
    BY <2>2 DEF StoreInstance, CopyReport, BufferInv, Writing, Consuming, Parsed, InFlash
  <2>3. CASE PublishReport
    BY <2>3 DEF PublishReport, BufferInv, Writing, Consuming, Parsed, InFlash
  <2>4. CASE NoEvent \/ WaitTimesOut \/ CheckTriggers
    BY <2>4 DEF NoEvent, WaitTimesOut, CheckTriggers, BufferInv, Writing, Consuming, Parsed, InFlash
  <2> QED
    BY <1>3, <2>1, <2>2, <2>3, <2>4 DEF Core1
<1>4. CASE Core0 \/ pico_before_flash_operation
  <2>1. CASE ClearMatrix \/ EndDisconnect \/ NothingToScan \/ EndTasks
    BY <2>1 DEF ClearMatrix, EndDisconnect, NothingToScan, EndTasks,
                BufferInv, Writing, Consuming, Parsed, InFlash
  <2>2. CASE TakeReport
    BY <2>2 DEF TakeReport, TypeOK, BufferInv, Writing, Consuming, Parsed, InFlash
  <2>3. CASE parse_report \/ EndHook
    BY <2>3 DEF parse_report, EndHook, BufferInv, Writing, Consuming, Parsed, InFlash
  <2>4. CASE ConsumeReport
    BY <2>4 DEF ConsumeReport, BufferInv, Writing, Consuming, Parsed, InFlash
  <2>5. CASE pico_before_flash_operation \/ Stopped
    BY <2>5 DEF pico_before_flash_operation, Stopped, InAction,
                BufferInv, Writing, Consuming, Parsed, InFlash
  <2>6. CASE pico_after_flash_operation \/ Started
    BY <2>6 DEF pico_after_flash_operation, Started, TypeOK,
                BufferInv, Writing, Consuming, Parsed, InFlash
  <2> QED
    BY <1>4, <2>1, <2>2, <2>3, <2>4, <2>5, <2>6 DEF Core0
<1>5. CASE UNCHANGED vars
  BY <1>5 DEF vars, BufferInv, Writing, Consuming, Parsed, InFlash
<1> QED
  BY <1>1, <1>2, <1>3, <1>4, <1>5 DEF Next

\* As long as no wait has timed out, core 1 writes the buffer only when core 0 is done
\* with it, and no report is overwritten unparsed.
THEOREM BufferExclusion == Spec => []BufferExclusive
<1>1. Init => BufferInv
  BY DEF Init, BufferInv, Writing, Consuming, Parsed, InFlash
<1>2. BufferInv => BufferExclusive
  BY DEF BufferInv, BufferExclusive, Writing
<1> QED
  BY <1>1, <1>2, InitTypes, StepTypes, StepBuffer, PTL DEF Spec

-----------------------------------------------------------------------------
(* Stuck keys.                                                             *)

\* A row of the matrix belongs to one device.
OneOfEach == \A d, e \in Devices : RowOf(d) = RowOf(e) => d = e

\* A report of d's is in core 1's hands, or in the buffer for core 0 to parse.
InFlight(d) == c1 \in {"wait", "instance", "copy", "publish"} /\ report.from = d
Pending(d)  == hid_report_size > 0 /\ unparsed /\ hid_report_buffer.from = d

\* What core 0 is parsing will be cleared by the disconnect branch.
Doomed == c0 = "parse" /\ hid_disconnect_flag

\* d has reported everything it holds down.
Reported(d) == link[d] = "live" /\ ~fresh[d]

\* Where the buffer's descriptors agree with what is in it.
BufferTags ==
    /\ c1 \in {"copy", "publish"} => hid_instance = report.from
    /\ c1 = "publish" => hid_report_buffer = report
    /\ hid_report_size > 0 => hid_instance = hid_report_buffer.from /\ (unparsed \/ Parsed)
    /\ c0 = "parse" => instance = hid_instance

\* What d holds down is in the newest of d's reports wherever that report is, and in
\* the matrix when none is left; a device that is gone leaves nothing in the matrix
\* that is not about to be cleared.
Traced(d) ==
    /\ InFlight(d) => link[d] # "out" /\ (Reported(d) => report.val = held[d])
    /\ Pending(d) => \/ Doomed
                     \/ /\ link[d] # "out"
                        /\ Reported(d) /\ ~InFlight(d) => hid_report_buffer.val = held[d]
    /\ Reported(d) /\ ~InFlight(d) /\ ~Pending(d)
         => hid_disconnect_flag \/ current_matrix[RowOf(d)] \in {held[d], 0}
    /\ link[d] = "out" => hid_disconnect_flag \/ current_matrix[RowOf(d)] = 0

StuckInv ==
    /\ \A d \in Devices : link[d] # "live" => held[d] = 0 /\ ~fresh[d]
    /\ orderly => /\ c0 = "cleared" => \A r \in Rows : current_matrix[r] = 0
                  /\ BufferTags
                  /\ \A d \in Devices : Traced(d)

\* What a step does to the devices nobody reports about, and to the tags of the buffer.
LEMMA StepIdle ==
    ASSUME TypeOK, StuckInv, [Next]_vars
    PROVE  \A d \in Devices : link'[d] # "live" => held'[d] = 0 /\ ~fresh'[d]
<1> USE DEF device, core1, buffer, trigger, core0, TypeOK
<1>1. CASE World
  <2>1. ASSUME NEW e \in Devices, Unplug(e)
        PROVE  \A d \in Devices : link'[d] # "live" => held'[d] = 0 /\ ~fresh'[d]
    BY <2>1 DEF Unplug, StuckInv
  <2>2. ASSUME NEW e \in Devices, NEW v \in Values, Hold(e, v)
        PROVE  \A d \in Devices : link'[d] # "live" => held'[d] = 0 /\ ~fresh'[d]
    BY <2>2 DEF Hold, StuckInv
  <2> QED
    BY <1>1, <2>1, <2>2 DEF World
<1>2. CASE Event
  BY <1>2 DEF Event, tuh_hid_mount_cb, tuh_hid_umount_cb, tuh_hid_report_received_cb, StuckInv
<1>3. CASE UNCHANGED <<link, held, fresh>>
  BY <1>3 DEF StuckInv
<1>4. CASE Core1 \/ Core0 \/ pico_before_flash_operation \/ UNCHANGED vars
  BY <1>3, <1>4 DEF Core1, NoEvent, BufferFree, WaitTimesOut, StoreInstance, CopyReport, PublishReport,
       CheckTriggers, Core0, ClearMatrix, EndDisconnect, TakeReport, NothingToScan, parse_report,
       EndHook, ConsumeReport, EndTasks, Stopped, pico_after_flash_operation, Started,
       pico_before_flash_operation, vars
<1> QED
  BY <1>1, <1>2, <1>4 DEF Next

\* What the devices and the host stack do keeps every report traced.
LEMMA DeviceTraced ==
    ASSUME TypeOK, BufferInv, StuckInv, orderly', World \/ Event
    PROVE  /\ c0' = "cleared" => \A r \in Rows : current_matrix'[r] = 0
           /\ BufferTags'
           /\ \A d \in Devices : Traced(d)'
<1> USE DEF device, core1, buffer, trigger, core0
<1>1. UNCHANGED <<buffer, c0, instance, resume, current_matrix, unparsed>>
  BY DEF World, Event, Unplug, Hold, tuh_hid_mount_cb, tuh_hid_umount_cb, tuh_hid_report_received_cb
<1>2. orderly /\ (hid_disconnect_flag => hid_disconnect_flag')
  BY DEF World, Event, Unplug, Hold, tuh_hid_mount_cb, tuh_hid_umount_cb, tuh_hid_report_received_cb,
         TypeOK
<1>3. c0' = "cleared" => \A r \in Rows : current_matrix'[r] = 0
  BY <1>1, <1>2 DEF StuckInv
<1>4. BufferTags'
  <2>1. c1' \notin {"copy", "publish"} \/ UNCHANGED <<c1, report>>
    BY DEF World, Event, Unplug, Hold, tuh_hid_mount_cb, tuh_hid_umount_cb, tuh_hid_report_received_cb
  <2> QED
    BY <1>1, <1>2, <2>1 DEF StuckInv, BufferTags, Parsed, InFlash
<1>5. ASSUME NEW d \in Devices PROVE Traced(d)'
  <2>1. Traced(d) /\ BufferTags
    BY <1>2 DEF StuckInv
  <2>2. ASSUME NEW e \in Devices, Unplug(e) PROVE Traced(d)'
    BY <2>1, <2>2 DEF Unplug, Traced, InFlight, Pending, Doomed, Reported, TypeOK
  <2>3. ASSUME NEW e \in Devices, NEW v \in Values, Hold(e, v) PROVE Traced(d)'
    BY <2>1, <2>3 DEF Hold, Traced, InFlight, Pending, Doomed, Reported, TypeOK
  <2>4. ASSUME NEW e \in Devices, tuh_hid_mount_cb(e) PROVE Traced(d)'
    <3>1. link[d] = "out" => held[d] = 0
      BY DEF StuckInv
    <3> QED
      BY <2>1, <2>4, <3>1 DEF tuh_hid_mount_cb, HostTask, Traced, InFlight, Pending, Doomed, Reported, TypeOK
  <2>5. ASSUME NEW e \in Devices, tuh_hid_umount_cb(e) PROVE Traced(d)'
    <3>1. Pending(e) => c0 = "parse"
      BY <1>2, <2>1, <2>5 DEF tuh_hid_umount_cb, Pending, BufferTags, BufferInv, Consuming, Parsed, InFlash
    <3> QED
      BY <2>1, <2>5, <3>1 DEF tuh_hid_umount_cb, HostTask, Traced, InFlight, Pending, Doomed, Reported, TypeOK
  <2>6. ASSUME NEW e \in Devices, tuh_hid_report_received_cb(e) PROVE Traced(d)'
    BY <2>1, <2>6 DEF tuh_hid_report_received_cb, HostTask, Traced, InFlight, Pending, Doomed, Reported, TypeOK
  <2> QED
    BY <2>2, <2>3, <2>4, <2>5, <2>6 DEF World, Event
<1> QED
  BY <1>3, <1>4, <1>5

\* A step that only moves a core on keeps a report traced.
LEMMA TracedKept ==
    ASSUME NEW d, Traced(d), InFlight(d)' <=> InFlight(d), Doomed => Doomed',
           UNCHANGED <<link, held, fresh, report, buffer, hid_disconnect_flag, current_matrix, unparsed>>
    PROVE  Traced(d)'
BY DEF buffer, Traced, Pending, Reported

\* Handing a report over on core 1 keeps it traced.
LEMMA Core1Traced ==
    ASSUME TypeOK, BufferInv, StuckInv, orderly', Core1
    PROVE  /\ c0' = "cleared" => \A r \in Rows : current_matrix'[r] = 0
           /\ BufferTags'
           /\ \A d \in Devices : Traced(d)'
<1> USE DEF device, core1, buffer, trigger, core0
<1>1. UNCHANGED <<link, held, fresh, c0, instance, resume, current_matrix, hid_disconnect_flag>>
  BY DEF Core1, NoEvent, BufferFree, WaitTimesOut, StoreInstance, CopyReport, PublishReport, CheckTriggers
<1>2. orderly /\ BufferTags /\ (Writing => hid_report_size = 0 /\ ~Consuming)
  BY DEF Core1, NoEvent, BufferFree, WaitTimesOut, StoreInstance, CopyReport, PublishReport, CheckTriggers,
         StuckInv, BufferInv
<1>3. c0' = "cleared" => \A r \in Rows : current_matrix'[r] = 0
  BY <1>1, <1>2 DEF StuckInv
<1>4. BufferTags'
  <2>1. CASE NoEvent \/ CheckTriggers \/ BufferFree
    BY <1>2, <2>1 DEF NoEvent, CheckTriggers, BufferFree, BufferTags, Parsed, InFlash
  <2>2. CASE StoreInstance
    BY <1>2, <2>2 DEF StoreInstance, BufferTags, Parsed, InFlash, Writing, Consuming
  <2>3. CASE CopyReport
    BY <1>2, <2>3 DEF CopyReport, BufferTags, Parsed, InFlash, Writing, Consuming
  <2>4. CASE PublishReport
    BY <1>2, <2>4 DEF PublishReport, BufferTags, Parsed, InFlash, Writing, Consuming
  <2> QED
    BY <2>1, <2>2, <2>3, <2>4 DEF Core1, WaitTimesOut
<1>5. ASSUME NEW d \in Devices PROVE Traced(d)'
  <2>1. Traced(d)
    BY <1>2 DEF StuckInv
  <2>2. CASE NoEvent \/ CheckTriggers \/ BufferFree
    <3>1. /\ InFlight(d)' <=> InFlight(d)
          /\ Doomed => Doomed'
          /\ UNCHANGED <<link, held, fresh, report, buffer, hid_disconnect_flag, current_matrix, unparsed>>
      BY <1>1, <2>2 DEF NoEvent, CheckTriggers, BufferFree, InFlight, Doomed
    <3> QED
      BY <2>1, <3>1, TracedKept
  <2>3. CASE StoreInstance \/ CopyReport
    BY <1>2, <2>1, <2>3, SMT
       DEF StoreInstance, CopyReport, Traced, InFlight, Pending, Doomed, Reported, Writing, TypeOK
  <2>4. CASE PublishReport
    BY <1>2, <2>1, <2>4
       DEF PublishReport, BufferTags, Traced, InFlight, Pending, Doomed, Reported, Writing, Consuming, TypeOK
  <2> QED
    BY <2>2, <2>3, <2>4 DEF Core1, WaitTimesOut
<1> QED
  BY <1>3, <1>4, <1>5

\* Parsing moves the newest report into its row, which no other device shows in.
LEMMA ParseTraced ==
    ASSUME TypeOK, BufferInv, StuckInv, OneOfEach, orderly', parse_report
    PROVE  \A d \in Devices : Traced(d)'
<1> USE DEF device, core1, buffer, trigger, core0
<1>1. /\ c0 = "parse" /\ c0' = "hook" /\ unparsed' = FALSE /\ orderly
      /\ UNCHANGED <<link, held, fresh, c1, report, buffer, hid_disconnect_flag>>
  BY DEF parse_report
<1>2. BufferTags /\ hid_report_size = 1
  BY <1>1 DEF StuckInv, BufferInv, Consuming
<1>3. /\ instance = hid_report_buffer.from /\ unparsed /\ instance \in Devices
      /\ hid_report_buffer.val \in Values
  BY <1>1, <1>2 DEF BufferTags, Parsed, InFlash, TypeOK, Report
<1>4. \/ instance \in Keyboards /\ current_matrix' = [keys |-> hid_report_buffer.val, buttons |-> 0]
      \/ /\ instance \in Mice /\ instance \notin Keyboards
         /\ current_matrix' = [current_matrix EXCEPT !["buttons"] = hid_report_buffer.val]
  BY <1>3, DevicesAssumption DEF parse_report, keyboard_report_hook, mouse_report_hook, Devices
<1>5. current_matrix'[RowOf(instance)] = hid_report_buffer.val
  BY <1>4 DEF RowOf, TypeOK, Rows
<1>6. ASSUME NEW d \in Devices, d # instance
      PROVE  current_matrix'[RowOf(d)] \in {current_matrix[RowOf(d)], 0}
  <2>1. RowOf(d) # RowOf(instance)
    BY <1>3, <1>6 DEF OneOfEach
  <2> QED
    BY <1>4, <2>1 DEF RowOf, TypeOK, Rows
<1>7. ASSUME NEW d \in Devices PROVE Traced(d)'
  <2>1. Traced(d)
    BY <1>1 DEF StuckInv
  <2>2. CASE d = instance
    BY <1>1, <1>2, <1>3, <1>5, <2>1, <2>2 DEF Traced, InFlight, Pending, Doomed, Reported
  <2>3. CASE d # instance
    <3>1. ~Pending(d)
      BY <1>3, <2>3 DEF Pending
    <3> QED
      BY <1>1, <1>6, <2>1, <2>3, <3>1 DEF Traced, InFlight, Pending, Doomed, Reported
  <2> QED
    BY <2>2, <2>3
<1> QED
  BY <1>7

\* The rest of core 0: the disconnect branch clears what belongs to nobody any more.
LEMMA Core0Traced ==
    ASSUME TypeOK, BufferInv, StuckInv, OneOfEach, orderly', Core0 \/ pico_before_flash_operation
    PROVE  /\ c0' = "cleared" => \A r \in Rows : current_matrix'[r] = 0
           /\ BufferTags'
           /\ \A d \in Devices : Traced(d)'
<1> USE DEF device, core1, buffer, trigger, core0
<1>1. orderly /\ BufferTags /\ (c0 = "cleared" => \A r \in Rows : current_matrix[r] = 0)
  BY DEF Core0, ClearMatrix, EndDisconnect, TakeReport, NothingToScan, parse_report, EndHook,
         ConsumeReport, EndTasks, Stopped, pico_after_flash_operation, Started,
         pico_before_flash_operation, StuckInv
<1>2. c0' = "cleared" => \A r \in Rows : current_matrix'[r] = 0
  BY <1>1 DEF Core0, ClearMatrix, EndDisconnect, TakeReport, NothingToScan, parse_report, EndHook,
         ConsumeReport, EndTasks, Stopped, pico_after_flash_operation, Started,
         pico_before_flash_operation, TypeOK
<1>3. BufferTags'
  <2>1. CASE ClearMatrix \/ EndDisconnect \/ NothingToScan \/ EndTasks
    BY <1>1, <2>1 DEF ClearMatrix, EndDisconnect, NothingToScan, EndTasks, BufferTags, Parsed, InFlash
  <2>2. CASE TakeReport
    BY <1>1, <2>2 DEF TakeReport, BufferTags, Parsed, InFlash
  <2>3. CASE parse_report
    BY <1>1, <2>3 DEF parse_report, BufferTags, Parsed, InFlash
  <2>4. CASE EndHook
    BY <1>1, <2>4 DEF EndHook, BufferTags, Parsed, InFlash
  <2>5. CASE ConsumeReport
    BY <1>1, <2>5 DEF ConsumeReport, BufferTags, Parsed, InFlash
  <2>6. CASE pico_before_flash_operation
    BY <1>1, <2>6 DEF pico_before_flash_operation, InAction, BufferTags, Parsed, InFlash
  <2>7. CASE Stopped \/ pico_after_flash_operation
    BY <1>1, <2>7 DEF Stopped, pico_after_flash_operation, BufferTags, Parsed, InFlash
  <2>8. CASE Started
    BY <1>1, <2>8 DEF Started, BufferTags, Parsed, InFlash, TypeOK
  <2> QED
    BY <2>1, <2>2, <2>3, <2>4, <2>5, <2>6, <2>7, <2>8 DEF Core0
<1>4. ASSUME NEW d \in Devices PROVE Traced(d)'
  <2>1. Traced(d) /\ RowOf(d) \in Rows
    BY <1>1 DEF StuckInv, RowOf, Rows
  <2>2. CASE ClearMatrix
    BY <2>1, <2>2 DEF ClearMatrix, Traced, InFlight, Pending, Doomed, Reported
  <2>3. CASE EndDisconnect
    BY <1>1, <2>1, <2>3 DEF EndDisconnect, Traced, InFlight, Pending, Doomed, Reported
  <2>4. CASE TakeReport \/ NothingToScan \/ EndTasks \/ EndHook
    BY <2>1, <2>4, TracedKept DEF TakeReport, NothingToScan, EndTasks, EndHook, InFlight, Doomed
  <2>5. CASE parse_report
    BY <2>5, ParseTraced
  <2>6. CASE ConsumeReport
    <3>1. ~unparsed
      BY <1>1, <2>6 DEF ConsumeReport, BufferInv, Parsed
    <3> QED
      BY <2>1, <2>6, <3>1 DEF ConsumeReport, Traced, InFlight, Pending, Doomed, Reported
  <2>7. CASE pico_before_flash_operation \/ Stopped \/ pico_after_flash_operation
    BY <2>1, <2>7, TracedKept
       DEF pico_before_flash_operation, InAction, Stopped, pico_after_flash_operation, InFlight, Doomed
  <2>8. CASE Started
    BY <2>1, <2>8, TracedKept DEF Started, InFlight, Doomed
  <2> QED
    BY <2>2, <2>3, <2>4, <2>5, <2>6, <2>7, <2>8 DEF Core0
<1> QED
  BY <1>2, <1>3, <1>4

\* Every step keeps the reports traced.
LEMMA StepStuck == OneOfEach /\ TypeOK /\ BufferInv /\ StuckInv /\ [Next]_vars => StuckInv'
<1> SUFFICES ASSUME OneOfEach, TypeOK, BufferInv, StuckInv, [Next]_vars PROVE StuckInv'
  OBVIOUS
<1>1. \A d \in Devices : link'[d] # "live" => held'[d] = 0 /\ ~fresh'[d]
  BY StepIdle
<1>2. ASSUME orderly'
      PROVE  /\ c0' = "cleared" => \A r \in Rows : current_matrix'[r] = 0
             /\ BufferTags'
             /\ \A d \in Devices : Traced(d)'
  <2>1. CASE World \/ Event
    BY <1>2, <2>1, DeviceTraced
  <2>2. CASE Core1
    BY <1>2, <2>2, Core1Traced
  <2>3. CASE Core0 \/ pico_before_flash_operation
    BY <1>2, <2>3, Core0Traced
  <2>4. CASE UNCHANGED vars
    BY <1>2, <2>4 DEF vars, device, core1, buffer, trigger, core0, StuckInv, BufferTags, Parsed, InFlash,
                      Traced, InFlight, Pending, Doomed, Reported
  <2> QED
    BY <2>1, <2>2, <2>3, <2>4 DEF Next
<1> QED
  BY <1>1, <1>2 DEF StuckInv

\* No stuck keys: with one device per row, once everything about a device has arrived
\* the matrix shows what it holds down or nothing, for any values and any interleaving
\* of reports, disconnects and flash writes without a timed-out wait.
THEOREM NoStuckKeys == OneOfEach => (Spec => []NothingStuck)
<1> SUFFICES ASSUME OneOfEach PROVE Spec => []NothingStuck
  OBVIOUS
<1>1. Init => BufferInv
  BY DEF Init, BufferInv, Writing, Consuming, Parsed, InFlash
<1>2. Init => StuckInv
  <2> SUFFICES ASSUME Init PROVE StuckInv
    OBVIOUS
  <2>1. BufferTags
    BY DEF Init, BufferTags, Parsed, InFlash
  <2>2. ASSUME NEW d \in Devices PROVE Traced(d)
    BY DEF Init, Traced, InFlight, Pending, Doomed, Reported, RowOf, Rows
  <2> QED
    BY <2>1, <2>2 DEF Init, StuckInv
<1>3. TypeOK /\ StuckInv => NothingStuck
  BY DEF TypeOK, StuckInv, NothingStuck, Quiet, Traced, InFlight, Pending, Reported
<1>4. TypeOK /\ BufferInv /\ StuckInv /\ [Next]_vars => StuckInv'
  BY StepStuck
<1> QED
  BY <1>1, <1>2, <1>3, <1>4, InitTypes, StepTypes, StepBuffer, PTL DEF Spec

-----------------------------------------------------------------------------
(* The LEDs.                                                               *)

\* The LEDs core 0 takes for sent: while a comparison is under way, the backup.
SentLeds == IF led_step = "scan" THEN keyboard_led ELSE led_backup

\* Core 0 has the keyboard's address for as long as the keyboard is mounted.
Addressed == ~disturbed => (kbd_addr = Keyboard <=> port[Keyboard] \in {"live", "gone"})

\* Nothing is sent to a keyboard that is not there, and nothing counts as sent before
\* a keyboard was sent something.
Sending == /\ transfer # "none" => port[Keyboard] = "live"
           /\ ~reported => SentLeds = 0 /\ transfer = "none"

\* Once the data stage is over a keyboard lights what counts as sent, or what that stage
\* found keyboard_led changed to in the meantime, which core 0 is about to send or, taken_back,
\* has restored.
Lit == /\ port[Keyboard] # "live" => shown = 0
       /\ ~disturbed /\ ~taken_back /\ port[Keyboard] = "live" /\ transfer # "data"
            => shown \in {SentLeds, keyboard_led}

LedInv == LedTypeOK /\ Addressed /\ Sending /\ Lit

\* Between two comparisons, with no data stage to come, a keyboard lights the LEDs that
\* core 0 compares the host's with, unless one of the two hazards has struck or the last
\* data stage picked up a value that core 0 then restored.
LedsInStep == ~disturbed /\ ~taken_back /\ port[Keyboard] = "live" /\ led_step = "scan" /\ transfer # "data"
                => shown = keyboard_led

\* Nothing is connected at first and all is dark.
LEMMA InitLeds == LedInit => LedInv
BY LedAssumption DEF LedInit, LedInv, LedTypeOK, Addressed, Sending, Lit, SentLeds, HidDevices

\* Every step keeps the types.
LEMMA LedTypeStep == LedTypeOK /\ [LedNext]_led_vars => LedTypeOK'
<1> SUFFICES ASSUME LedTypeOK, [LedNext]_led_vars PROVE LedTypeOK'
  OBVIOUS
<1> USE DEF LedTypeOK
<1>1. ASSUME NEW d \in HidDevices, Attach(d) \/ Detach(d) PROVE LedTypeOK'
  BY <1>1, LedAssumption DEF Attach, Detach
<1>2. ASSUME NEW v \in Leds, SetHostLeds(v) PROVE LedTypeOK'
  BY <1>2 DEF SetHostLeds
<1>3. CASE DataStage \/ StatusStage
  BY <1>3 DEF DataStage, StatusStage
<1>4. CASE LedTask
  BY <1>4 DEF LedTask, CompareLeds, CheckAddress, SendReport, Restore, Accepts
<1>5. ASSUME NEW d \in HidDevices, tuh_mount_cb(d) \/ tuh_hid_umount_addr(d) PROVE LedTypeOK'
  BY <1>5 DEF tuh_mount_cb, tuh_hid_umount_addr
<1>6. CASE UNCHANGED led_vars
  BY <1>6 DEF led_vars
<1> QED
  BY <1>1, <1>2, <1>3, <1>4, <1>5, <1>6 DEF LedNext, HostStack

\* Every step keeps what core 0 takes for sent in step with the keyboard.
LEMMA LedStep == LedInv /\ [LedNext]_led_vars => LedInv'
<1> SUFFICES ASSUME LedInv, [LedNext]_led_vars PROVE (Addressed /\ Sending /\ Lit)'
  BY LedTypeStep DEF LedInv
<1>0. Keyboard \in HidDevices /\ Keyboard # 0
  BY LedAssumption DEF HidDevices
<1> USE DEF LedInv, LedTypeOK, Addressed, Sending, Lit, SentLeds
<1>1. ASSUME NEW d \in HidDevices, Attach(d) \/ Detach(d) PROVE (Addressed /\ Sending /\ Lit)'
  BY <1>0, <1>1 DEF Attach, Detach
<1>2. ASSUME NEW v \in Leds, SetHostLeds(v) PROVE (Addressed /\ Sending /\ Lit)'
  BY <1>2 DEF SetHostLeds
<1>3. CASE DataStage \/ StatusStage
  BY <1>3 DEF DataStage, StatusStage
<1>4. CASE LedTask
  <2>1. CASE CompareLeds
    BY <2>1 DEF CompareLeds
  <2>2. CASE CheckAddress
    BY <1>0, <2>2 DEF CheckAddress
  <2>3. CASE SendReport
    BY <1>0, <2>3 DEF SendReport, Accepts
  <2>4. CASE Restore
    BY <2>4 DEF Restore
  <2> QED
    BY <1>4, <2>1, <2>2, <2>3, <2>4 DEF LedTask
<1>5. ASSUME NEW d \in HidDevices, tuh_mount_cb(d) PROVE (Addressed /\ Sending /\ Lit)'
  <2>1. CASE d = Keyboard
    BY <1>0, <1>5, <2>1 DEF tuh_mount_cb
  <2>2. CASE d # Keyboard
    BY <1>0, <1>5, <2>2 DEF tuh_mount_cb
  <2> QED
    BY <2>1, <2>2
<1>6. ASSUME NEW d \in HidDevices, tuh_hid_umount_addr(d) PROVE (Addressed /\ Sending /\ Lit)'
  <2>1. CASE d = Keyboard
    BY <1>0, <1>6, <2>1 DEF tuh_hid_umount_addr
  <2>2. CASE d # Keyboard
    BY <1>0, <1>6, <2>2 DEF tuh_hid_umount_addr
  <2> QED
    BY <2>1, <2>2
<1>7. CASE UNCHANGED led_vars
  BY <1>7 DEF led_vars
<1> QED
  BY <1>1, <1>2, <1>3, <1>4, <1>5, <1>6, <1>7 DEF LedNext, HostStack

\* The types hold in every reachable state: what goes to the keyboard, and what the
\* keyboard lights, is always something the host asked for.
THEOREM LedTypes == LedSpec => []LedTypeOK
<1>1. LedInit => LedTypeOK
  BY InitLeds DEF LedInv
<1> QED
  BY <1>1, LedTypeStep, PTL DEF LedSpec

\* What core 0 takes for sent is what the keyboard lights, whatever was refused, retried
\* or overtaken by a change of mind on the way, wherever a transfer reads keyboard_led between
\* core 0's two assignments to it; the one exception of those interleavings is taken_back.
THEOREM LedsStayInStep == LedSpec => []LedsInStep
<1>1. LedInv => LedsInStep
  <2> SUFFICES ASSUME LedInv, ~disturbed, ~taken_back, port[Keyboard] = "live",
                      led_step = "scan", transfer # "data"
               PROVE  shown = keyboard_led
    BY DEF LedsInStep
  <2>1. SentLeds = keyboard_led
    BY DEF SentLeds
  <2>2. shown \in {SentLeds, keyboard_led}
    BY DEF LedInv, Lit
  <2> QED
    BY <2>1, <2>2
<1> QED
  BY <1>1, InitLeds, LedStep, PTL DEF LedSpec

-----------------------------------------------------------------------------
(* The analog stick.                                                       *)

\* While a rest is timed the stick is near the reference, and has been near its own
\* last reading for at least as long.
Resting ==
  /\ still_ms < RecenterMs
  /\ still_tracking =>
       /\ still_ms <= steady_ms
       /\ \A a \in Axes : Abs(Raw(stick, a) - still_ref[a]) <= Tolerance

\* The time stamp of the hold says how long it lasts, until it wraps.
Timed == holding /\ hold_total < TimerMod => held_ms = hold_total

JInv == StickTypeOK /\ Resting /\ Timed

-----------------------------------------------------------------------------
\* A time that fits the timer is not changed by its width, and no other exceeds it.
LEMMA ElapsedFits ==
  ASSUME NEW n \in Nat, NEW dt \in Nat
  PROVE  /\ Elapsed(n, dt) \in 0..(TimerMod - 1)
         /\ n + dt < TimerMod => Elapsed(n, dt) = n + dt
<1>1. TimerMod \in Nat \ {0}
  BY JoystickAssumption
<1> QED
  BY <1>1 DEF Elapsed

\* The facts about the constants that the proofs use.
LEMMA Sizes ==
  /\ Readings \subseteq Int /\ Tolerance \in Nat
  /\ RecenterMs \in Nat /\ RampMs \in Nat /\ TimerMod \in Nat
  /\ 0 < RecenterMs /\ RecenterMs < TimerMod
  /\ \A dt \in ScanMs : dt \in Nat /\ dt <= TimerMod - RecenterMs
BY JoystickAssumption

\* A reading off by nothing is a reading.
LEMMA NoOffset == ASSUME NEW n \in Readings PROVE n + 0 = n /\ n + 0 \in Readings
<1>1. n \in Int
  BY Sizes
<1>2. n + 0 = n
  BY <1>1
<1> QED
  BY <1>2

\* The power-on position is the centre and nothing is timed.
LEMMA InitInv == StickInit => JInv
<1> SUFFICES ASSUME StickInit PROVE JInv
  OBVIOUS
<1>1. StickTypeOK
  <2>1. \A a \in Axes : joystick_center[a] \in Readings /\ still_ref[a] = 0
    BY DEF StickInit
  <2>2. \A a \in Axes : joystick_center[a] + still_ref[a] \in Readings
    BY <2>1, NoOffset
  <2>3. still_ref \in [Axes -> Int] /\ stick \in [Axes -> Readings] /\ joystick_center \in [Axes -> Readings]
    BY DEF StickInit
  <2>4. still_ms = 0 /\ held_ms = 0 /\ steady_ms \in 0..RecenterMs /\ hold_total \in 0..TimerMod
        /\ 0 \in 0..(TimerMod - 1)
    BY Sizes DEF StickInit
  <2>5. {still_tracking, holding, moving} \subseteq BOOLEAN
    BY DEF StickInit
  <2> QED
    BY <2>2, <2>3, <2>4, <2>5 DEF StickTypeOK
<1>2. Resting /\ Timed
  BY Sizes DEF StickInit, Resting, Timed
<1> QED
  BY <1>1, <1>2 DEF JInv

\* A rest that is timed ends, restarts, or goes on for the time that passed.
LEMMA RestStep ==
  ASSUME JInv, NEW r \in [Axes -> Readings], NEW dt \in ScanMs, analog_joystick_task(r, dt)
  PROVE  /\ Resting'
         /\ joystick_center' # joystick_center => steady_ms' >= RecenterMs
<1> DEFINE raw == [a \in Axes |-> Raw(r, a)]
<1>1. /\ stick' = r /\ Recenter(raw, dt)
      /\ steady_ms' = IF \A a \in Axes : Abs(r[a] - stick[a]) <= 2 * Tolerance
                      THEN Cap(steady_ms + dt, RecenterMs) ELSE 0
  BY DEF analog_joystick_task
<1>2. /\ stick \in [Axes -> Readings] /\ joystick_center \in [Axes -> Readings]
      /\ still_ref \in [Axes -> Int] /\ steady_ms \in 0..RecenterMs /\ still_ms \in Nat
      /\ still_ms < RecenterMs /\ still_tracking \in BOOLEAN
  BY Sizes DEF JInv, StickTypeOK, Resting
<1>3. \A a \in Axes : /\ r[a] \in Int /\ stick[a] \in Int /\ joystick_center[a] \in Int
                      /\ still_ref[a] \in Int /\ raw[a] = r[a] - joystick_center[a]
  BY <1>2, Sizes DEF Raw
<1> HIDE DEF raw
<1>4. still_ms + dt < TimerMod /\ Elapsed(still_ms, dt) = still_ms + dt /\ dt \in Nat
  <2>1. still_ms + dt < TimerMod /\ dt \in Nat
    BY <1>2, Sizes
  <2> QED
    BY <1>2, <2>1, ElapsedFits
<1>5. steady_ms' \in 0..RecenterMs
  BY <1>1, <1>2, <1>4, Sizes DEF Cap
<1>6. CASE ~Steady(raw)
  <2>1. still_ms' = 0 /\ still_ref' = raw /\ joystick_center' = joystick_center
    BY <1>1, <1>6 DEF Recenter
  <2>2. \A a \in Axes : Raw(stick, a)' - still_ref'[a] = 0
    BY <1>1, <1>3, <2>1 DEF Raw
  <2>3. Abs(0) <= Tolerance
    BY Sizes DEF Abs
  <2>4. \A a \in Axes : (Abs(Raw(stick, a) - still_ref[a]) <= Tolerance)'
    BY <2>2, <2>3
  <2> QED
    BY <1>5, <2>1, <2>4, Sizes DEF Resting
<1>7. CASE Steady(raw)
  <2>1. still_tracking /\ still_ms <= steady_ms
    BY <1>7 DEF Steady, JInv, Resting
  <2>2. \A a \in Axes : Abs(r[a] - stick[a]) <= 2 * Tolerance
    <3> SUFFICES ASSUME NEW a \in Axes PROVE Abs(r[a] - stick[a]) <= 2 * Tolerance
      OBVIOUS
    <3>1. Abs(raw[a] - still_ref[a]) <= Tolerance
      BY <1>7 DEF Steady
    <3>2. Abs(Raw(stick, a) - still_ref[a]) <= Tolerance
      BY <2>1 DEF JInv, Resting
    <3> QED
      BY <1>3, <3>1, <3>2, Sizes DEF Abs, Raw
  <2>3. steady_ms' = Cap(steady_ms + dt, RecenterMs)
    BY <1>1, <2>2
  <2>4. CASE Elapsed(still_ms, dt) >= RecenterMs
    <3>1. still_ms' = 0 /\ ~still_tracking'
      BY <1>1, <1>7, <2>4 DEF Recenter
    <3>2. steady_ms' >= RecenterMs
      BY <1>2, <1>4, <2>1, <2>3, <2>4, Sizes DEF Cap
    <3> QED
      BY <3>1, <3>2, Sizes DEF Resting
  <2>5. CASE ~(Elapsed(still_ms, dt) >= RecenterMs)
    <3>1. /\ still_ms' = still_ms + dt
          /\ UNCHANGED <<joystick_center, still_ref, still_tracking>>
      BY <1>1, <1>4, <1>7, <2>5 DEF Recenter
    <3>2. still_ms' <= steady_ms' /\ still_ms' < RecenterMs
      BY <1>2, <1>4, <2>1, <2>3, <2>5, <3>1, Sizes DEF Cap
    <3>3. \A a \in Axes : Raw(stick, a)' - still_ref'[a] = raw[a] - still_ref[a]
      BY <1>1, <1>3, <3>1 DEF Raw
    <3>4. \A a \in Axes : (Abs(Raw(stick, a) - still_ref[a]) <= Tolerance)'
      BY <1>7, <3>3 DEF Steady
    <3> QED
      BY <3>1, <3>2, <3>4 DEF Resting
  <2> QED
    BY <2>4, <2>5
<1> QED
  BY <1>6, <1>7

\* The hold is timed from the scan that finds the stick off the centre; the speed
\* does not fall as long as the time fits.
LEMMA HoldStep ==
  ASSUME JInv, NEW r \in [Axes -> Readings], NEW dt \in ScanMs, analog_joystick_task(r, dt)
  PROVE  /\ Timed'
         /\ holding /\ holding' /\ hold_total' < TimerMod => Speed' >= Speed
<1> DEFINE raw == [a \in Axes |-> Raw(r, a)]
<1> DEFINE active == Active(raw, dt)
<1>1. TimeHold(active, dt)
  BY DEF analog_joystick_task
<1> HIDE DEF raw, active
<1>2. /\ held_ms \in Nat /\ hold_total \in 0..TimerMod /\ dt \in Nat
      /\ TimerMod \in Nat /\ RampMs \in Nat /\ 0 < TimerMod
  BY Sizes DEF JInv, StickTypeOK
<1>3. Timed' /\ (holding /\ holding' /\ hold_total' < TimerMod
                    => held_ms' = held_ms + dt)
  <2>1. CASE holding' /\ holding
    <3>1. held_ms' = Elapsed(held_ms, dt) /\ hold_total' = Cap(hold_total + dt, TimerMod)
      BY <1>1, <2>1 DEF TimeHold
    <3>2. hold_total' < TimerMod => hold_total' = hold_total + dt /\ hold_total + dt < TimerMod
                                    /\ hold_total < TimerMod
      BY <1>2, <3>1 DEF Cap
    <3>3. hold_total < TimerMod => held_ms = hold_total
      BY <2>1 DEF JInv, Timed
    <3>4. held_ms + dt < TimerMod => held_ms' = held_ms + dt
      BY <1>2, <3>1, ElapsedFits
    <3> QED
      BY <3>2, <3>3, <3>4 DEF Timed
  <2>2. CASE holding' /\ ~holding
    BY <1>1, <2>2 DEF TimeHold, Timed
  <2>3. CASE ~holding'
    BY <2>3 DEF Timed
  <2> QED
    BY <2>1, <2>2, <2>3
<1>4. holding /\ holding' /\ hold_total' < TimerMod => Speed' >= Speed
  BY <1>2, <1>3 DEF Speed, Cap
<1> QED
  BY <1>3, <1>4

\* A scan keeps the types: the centre moves to where the stick is.
LEMMA TypeStep ==
  ASSUME JInv, NEW r \in [Axes -> Readings], NEW dt \in ScanMs, analog_joystick_task(r, dt)
  PROVE  StickTypeOK'
<1> DEFINE raw == [a \in Axes |-> Raw(r, a)]
<1>1. /\ stick' = r /\ Recenter(raw, dt) /\ TimeHold(Active(raw, dt), dt) /\ moving' = Active(raw, dt)
      /\ steady_ms' = IF \A a \in Axes : Abs(r[a] - stick[a]) <= 2 * Tolerance
                      THEN Cap(steady_ms + dt, RecenterMs) ELSE 0
  BY DEF analog_joystick_task
<1>2. /\ joystick_center \in [Axes -> Readings] /\ still_ref \in [Axes -> Int]
      /\ \A a \in Axes : joystick_center[a] + still_ref[a] \in Readings
      /\ still_ms \in Nat /\ held_ms \in Nat /\ dt \in Nat
      /\ steady_ms \in 0..RecenterMs /\ hold_total \in 0..TimerMod
      /\ {still_ms, held_ms} \subseteq 0..(TimerMod - 1)
      /\ {still_tracking, holding, moving} \subseteq BOOLEAN
  BY Sizes DEF JInv, StickTypeOK
<1>3. raw \in [Axes -> Int] /\ \A a \in Axes : joystick_center[a] + raw[a] = r[a]
  <2>1. \A a \in Axes : r[a] \in Int /\ joystick_center[a] \in Int
    BY <1>2, Sizes
  <2> QED
    BY <2>1 DEF Raw
<1> HIDE DEF raw
<1>4. /\ joystick_center' \in [Axes -> Readings] /\ still_ref' \in [Axes -> Int]
      /\ \A a \in Axes : joystick_center'[a] + still_ref'[a] \in Readings
      /\ still_tracking' \in BOOLEAN /\ still_ms' \in 0..(TimerMod - 1)
  <2>1. CASE ~Steady(raw)
    <3>1. still_tracking' = TRUE /\ still_ref' = raw /\ still_ms' = 0 /\ joystick_center' = joystick_center
      BY <1>1, <2>1 DEF Recenter
    <3> QED
      BY <1>2, <1>3, <3>1, Sizes
  <2>2. CASE Steady(raw) /\ Elapsed(still_ms, dt) >= RecenterMs
    <3>1. /\ joystick_center' = [a \in Axes |-> joystick_center[a] + raw[a]]
          /\ still_ref' = [a \in Axes |-> 0] /\ still_tracking' = FALSE /\ still_ms' = 0
      BY <1>1, <2>2 DEF Recenter
    <3>2. joystick_center' = r
      BY <1>3, <3>1
    <3>3. \A a \in Axes : still_ref'[a] = 0 /\ joystick_center'[a] \in Readings
      BY <3>1, <3>2
    <3>4. \A a \in Axes : joystick_center'[a] + still_ref'[a] \in Readings
      BY <3>3, NoOffset
    <3>5. still_ms' \in 0..(TimerMod - 1)
      BY <3>1, Sizes
    <3>6. joystick_center' \in [Axes -> Readings] /\ still_ref' \in [Axes -> Int]
      BY <3>1, <3>2
    <3>7. still_tracking' \in BOOLEAN
      BY <3>1
    <3> QED
      BY <3>4, <3>5, <3>6, <3>7
  <2>3. CASE Steady(raw) /\ ~(Elapsed(still_ms, dt) >= RecenterMs)
    <3>1. still_ms' = Elapsed(still_ms, dt) /\ UNCHANGED <<joystick_center, still_ref, still_tracking>>
      BY <1>1, <2>3 DEF Recenter
    <3> QED
      BY <1>2, <3>1, ElapsedFits
  <2> QED
    BY <2>1, <2>2, <2>3
<1>5. Active(raw, dt) \in BOOLEAN
  BY DEF Active
<1>6. /\ holding' \in BOOLEAN /\ moving' \in BOOLEAN /\ held_ms' \in 0..(TimerMod - 1)
      /\ hold_total' \in 0..TimerMod
  <2>1. holding' \in BOOLEAN /\ moving' \in BOOLEAN
    BY <1>1, <1>5 DEF TimeHold
  <2>2. held_ms' = Elapsed(held_ms, dt) \/ held_ms' = 0
    BY <1>1 DEF TimeHold
  <2>3. held_ms' \in 0..(TimerMod - 1)
    <3>1. 0 \in 0..(TimerMod - 1)
      BY Sizes
    <3> QED
      BY <1>2, <2>2, <3>1, ElapsedFits
  <2>4. hold_total' = Cap(hold_total + dt, TimerMod) \/ hold_total' = 0
    BY <1>1 DEF TimeHold
  <2>5. hold_total' \in 0..TimerMod
    BY <1>2, <2>4, Sizes DEF Cap
  <2> QED
    BY <2>1, <2>3, <2>5
<1>7. steady_ms' \in 0..RecenterMs
  BY <1>1, <1>2, Sizes DEF Cap
<1> QED
  BY <1>1, <1>4, <1>6, <1>7 DEF StickTypeOK

-----------------------------------------------------------------------------
\* Every step keeps the inductive invariant.
LEMMA StepInv == JInv /\ [StickNext]_stick_vars => JInv'
<1> SUFFICES ASSUME JInv, [StickNext]_stick_vars PROVE JInv'
  OBVIOUS
<1>1. ASSUME NEW r \in [Axes -> Readings], NEW dt \in ScanMs, analog_joystick_task(r, dt)
      PROVE  JInv'
  BY <1>1, TypeStep, RestStep, HoldStep DEF JInv
<1>2. CASE UNCHANGED stick_vars
  <2>1. StickTypeOK'
    BY <1>2 DEF JInv, StickTypeOK, stick_vars
  <2>2. Resting' /\ Timed'
    BY <1>2 DEF JInv, Resting, Timed, Raw, stick_vars
  <2> QED
    BY <2>1, <2>2 DEF JInv
<1> QED
  BY <1>1, <1>2 DEF StickNext

\* The types hold in every reachable state: the centre, and the reference a rest is
\* measured against, stay among the readings of the stick.
THEOREM JoystickTypes == StickSpec => []StickTypeOK
<1>1. JInv => StickTypeOK
  BY DEF JInv
<1> QED
  BY <1>1, InitInv, StepInv, PTL DEF StickSpec

\* The centre moves only when the stick has been quiet for RecenterMs, whatever the
\* scans read before and however many rests were begun and given up.
THEOREM CentreMovesAtRest == StickSpec => RecentersOnlyAtRest
<1>1. JInv /\ [StickNext]_stick_vars => [joystick_center' # joystick_center => steady_ms' >= RecenterMs]_stick_vars
  <2> SUFFICES ASSUME JInv, [StickNext]_stick_vars, joystick_center' # joystick_center
               PROVE  steady_ms' >= RecenterMs
    OBVIOUS
  <2>1. StickNext
    BY DEF stick_vars
  <2> QED
    BY <2>1, RestStep DEF StickNext
<1> QED
  BY <1>1, InitInv, StepInv, PTL DEF StickSpec, RecentersOnlyAtRest

\* While the stick is held off the centre the cursor does not slow down, until the
\* hold outlasts the 16-bit timer.
THEOREM SpeedIsKept == StickSpec => SpeedKeptInTimer
<1>1. JInv /\ [StickNext]_stick_vars
         => [holding /\ holding' /\ hold_total' < TimerMod => Speed' >= Speed]_stick_vars
  <2> SUFFICES ASSUME JInv, StickNext, holding, holding', hold_total' < TimerMod PROVE Speed' >= Speed
    BY DEF stick_vars
  <2> QED
    BY HoldStep DEF StickNext
<1> QED
  BY <1>1, InitInv, StepInv, PTL DEF StickSpec, SpeedKeptInTimer
=============================================================================
