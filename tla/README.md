# Verification of the Keyboard Joystick Quantizer firmware

The firmware turns an RP2040 board into a converter: USB keyboards and mice are
plugged into it (core 1 runs the USB host stack), their reports are parsed into
a virtual key matrix, QMK (core 0) acts on that matrix, and the result goes out
over the USB device port. An analog stick moves the cursor as well. The
configuration lives in an EEPROM that is emulated in flash.

The modules here model that firmware from its source, TLC checks them on small
instances, and TLAPS proves what matters most for every size. Paths below are
relative to `src/`.

Contents: [inventory](#inventory) · [modules](#modules) · [runs](#runs) ·
[fairness](#fairness) · [proofs](#proofs) · [what the code does
otherwise](#what-the-code-does-otherwise) · [not modelled](#not-modelled) ·
[plan](#plan).

## Inventory

| Part | State | Operations | Talks to |
|---|---|---|---|
| **EEPROM emulation** `tmk_core/common/pico/eeprom.c` | RAM copy `DataBuf`, `empty_slot`; flash: compacted area, magic, write log | boot replay, byte and word writes, compaction, erase | flash driver below; eeconfig, VIA, dynamic keymaps above |
| **Flash driver** `tmk_core/common/pico/flash_pico.c` | – | erase a page, program a halfword, lock, unlock | stops and restarts core 1 |
| **USB host core** `keyboards/keyboard_quantizer/mini/{main,matrix}.c` | stop/start triggers, `core1_task_active`, one report buffer whose length is the "pending" flag, disconnect flag | `core1_main` loop, TinyUSB callbacks | shared variables read by core 0, no locks |
| **Matrix scan** `matrix.c`, `keyboard_quantizer.c`, `report_parser.c` | `current_matrix` | disconnect, parse the pending report, hooks, LED update | core 1; keyboard task |
| **HID descriptor pools** `report_descriptor_parser.c` | three static pools linked by pointers | parse a descriptor, delete an interface, look up | written by core 1, read by core 0 |
| **Keyboard LEDs** `matrix.c` | `keyboard_led`, `led_backup`, `kbd_addr` | compare, send, remember/forget the keyboard | USB device side (host's LEDs), core 1 callbacks |
| **Analog stick** `mini/main.c` | centre, steady reference, hold timer | one task per scan | mouse report |
| **Tapping, layers** `quantum/action_tapping.c`, `action.c`, `action_layer.c` | `tapping_key`, `waiting_buffer`, `source_layers_cache`, layer state, report | `action_exec` per key event or TICK | keyboard task above, host report below |
| **Stored configuration** `quantum/{eeconfig,via,dynamic_keymap}.c`, `mini/main.c`, `users/sekigon/host_os_eeconfig/` | base, one copy per host system, VIA's magic and keymap in the EEPROM; the board's word and the host's system in RAM | initialise, load, mirror, save, reset | EEPROM, host identification, key overrides |
| **Host identification** `quantum/usb_host_os_identifier.c` | lengths of the first two descriptor requests | three setters called from the USB stack, one decision | stored configuration |
| **Combos** `quantum/process_keycode/process_combo.c` | `key_buffer`, ring of prepared combos, state of each combo, one timer | `process_combo` per event, `combo_task` per scan, the `CMB_` keys | in front of tapping |
| **Key overrides** `quantum/process_keycode/process_key_override.c` | active override, last key, deferred key, the table | filter per key and modifier event, `key_override_task`, on, off | report; the board changes the table |
| **Default keymap, encoder modifier** `mini/main.c`, `mini/keymaps/default/keymap.c`, `keyboard_quantizer.c` | modifier left on by a wheel action and its timer, buttons to release, mouse report and its flag | wheel actions, clicks of a layer-tap key, `matrix_scan_kb`, `pointing_device_task` | tapping, host report |
| **Debounce, keyboard task** `quantum/keyboard.c`, `debounce/` | raw, debounced and previous matrix | one key event per call | matrix scan, tapping |
| **USB device side** `tmk_core/protocol/pico/` | endpoints, LED state | send reports, serve the stack | host |

Behaviours that are hard, and where:

* **Two cores without locks** – report buffer, disconnect flag, flash
  handshake, keyboard address, descriptor pools.
* **Power loss** between any two flash operations, during writes, compaction
  and erase; the next boot has to make sense of what is left.
* **Timeouts** – core 1 overwrites a pending report after 50 ms; tap or hold is
  decided by a timer; 16-bit times wrap.
* **Bounded pools and buffers** – descriptor pools, the waiting buffer, the
  write log.
* **Held state that must end** – keys of a device that is gone, modifiers and
  layers of a released key, a key a combo or an override stands for.
* **State kept in two places** – EEPROM and RAM, one EEPROM copy per host
  system, while the host is taken for another during its enumeration.

What makes each part correct:

* EEPROM: what a call has written is there after a power loss; a boot, a
  compaction and a call always end.
* Cores: no code runs from flash while it is written; the buffer is written by
  one and read by the other at different times; a flash write gets through;
  nothing stays pressed that no device holds; what is held arrives.
* Pools: lists end and are disjoint, a mounted interface has the layout its
  device declares, nothing leaks.
* LEDs: the keyboard comes to show what the host wants, whatever was refused.
* Stick: the centre moves at rest only, the speed does not drop while the stick
  is off the centre, a stick at rest leaves the cursor alone.
* Tapping: whatever is pressed, tapped, held or rolled over, nothing is left on
  when all keys are up; presses are acted on in order; every tap is decided.
* Combos: every press is in exactly one place, and is not kept back for ever.
* Key overrides: what the host sees is held or stands for what is held; a held
  key is shown in the end; modifiers come back.
* Stored configuration: what VIA's magic vouches for was initialised; each host
  system gets the mode chosen on it; the user's keymap stays.
* Default keymap: no modifier outlives its cause; the buttons given to the USB
  driver are those that are held, and a click ends with the next scan.

## Modules

### `Eeprom`, abstract: `DurableStore`

`Eeprom` is `eeprom.c`, with one action per flash operation, so that a power
loss (`Crash`) fits between any two. Addresses are (word, half); a halfword of
the log is a record that says which entry format it holds (`byte`, `word`,
`next` and its `data`) instead of packed bits. `Program` follows
`pico_program_half_word`: programming over something that is not erased leaves
a `garbled` halfword.

| Code | Here |
|---|---|
| `EEPROM_Init` | `EEPROM_Init`, then `ReplayEntry`/`ReplayEnd`, or the clear |
| `eeprom_clear` | `ErasePage` per page, `ProgramMagic0`, `ProgramMagic1`; `resume` is its caller |
| `eeprom_compact` | `StartCompact`, the clear, `CompactWord` per word, `CompactEnd` |
| `EEPROM_WriteDataByte/Word` | `EEPROM_WriteData` (cache and direct entry), then `LogByte`, `LogWord`, `LogWordValue` |
| `EEPROM_Erase` | `EEPROM_Erase`, the clear, boot |

`intact` is a history variable: FALSE once one of the two defects below has
struck (a log entry over the magic; a power loss between the page erases that
strands log entries).

`DurableStore` is what the callers rely on: a memory with a durable copy that a
write reaches before it returns, byte by byte for the words logged by bytes,
that may lose data only while it rebuilds or wipes. `MCEeprom` states the
refinement: `stable` is what a boot from the present flash would replay.

### `HostHandoff`

The two cores, interleaved at every access to a shared variable. `c1` and `c0`
are their program counters.

| Code | Here |
|---|---|
| TinyUSB callbacks in `matrix.c` | `tuh_hid_mount_cb`, `tuh_hid_umount_cb`, `tuh_hid_report_received_cb` followed by the wait (`BufferFree`, `WaitTimesOut`), `StoreInstance`, `CopyReport`, `PublishReport` |
| `core1_main` | `NoEvent`, `CheckTriggers` |
| `matrix_scan_custom` | `ClearMatrix`, `EndDisconnect`, `TakeReport`, `NothingToScan`, `parse_report`, `EndHook`, `ConsumeReport` |
| `pico_before/after_flash_operation` | `Stopped`, `Started` around the write, requested from the tasks or from an action run inside the parse (the wheel) |

A report is a snapshot of what the device holds. The matrix is reduced to the
rows of keys and the row of mouse buttons. History: `unparsed` (the report in
the buffer has not been parsed) and `orderly` (no wait has timed out and no
device left with its report pending).

### `HidPools`

`report_descriptor_parser.c`: device, collection and member pools as functions
from index to record, `NULL` as 0, the parse of a descriptor item by item (an
Input item field by field), deletion, and the joining of collections without ids,
one per step (core 1), against `parse_report` of core 0, which walks the same
lists without a lock. `Walk` follows the links, `Entries` is what it meets,
`Ends` that it comes to `NULL`, `TailOf` where the code's loops to the end of a
list stop. A member is the name of its field; usage, size and offset are left
out, so the properties are about which members an interface has, not about bit
positions.

| Code | Here |
|---|---|
| `tuh_hid_mount_cb`: delete the interface, take a slot | `tuh_hid_mount_cb`, `TakeSlot` |
| loop of `parse_report_descriptor` | `Collection`, `EndCollection`, `ReportId`, `Input` |
| its compression of collections | `ItemsEnd`, `Join`, `NextBase`, `Defined` |
| `get_hid_device_def`, reading the list's head | `parse_report` |
| choice of the collection by report id | `MatchCollection` |
| walk over the members (as in `mouse_report_parser`) | `ReadMember`, `Return` |

`spoiled` is history: a descriptor was cut off, a pool ran out, or an entry was
taken with a stale id. So is `reader.torn`: the interface whose report is read
was mounted anew meanwhile (its report is one of a device that has left, which
`orderly` of `HostHandoff` records), or the lookup found an empty slot before
the one that has its collections (see "Modelled as it is").
`reader.declared` is what the report should be read with.

### `KeyboardLeds`

The LED half of `matrix_scan_custom` against core 1's mount and unmount
callbacks and the control transfer of the USB library.

| Code | Here |
|---|---|
| `keyboard_led = host_keyboard_leds()` | `CompareLeds` |
| the test of `kbd_addr`, the request in `send_led_report` | `CheckAddress`, `SendReport` |
| `keyboard_led = led_backup` | `Restore` |
| the transfer, which reads `keyboard_led` through its pointer | `DataStage`, then `StatusStage` |

Each assignment of core 0 is a step of its own, so a transfer that is under way
may read the variable while core 0 holds a value there that it is about to take
back. `disturbed` and `taken_back` are history (see below).

### `Joystick`

`analog_joystick_task`, one action per scan with the reading and the time since
the last scan as parameters; times are kept as ages (`timer_elapsed`), modulo
`TimerMod`. The mounting angle of this board is 0, so the rotation is the
identity; the step per scan and its fraction are left out. `steady_ms` and
`hold_total` are history.

### `Tapping`

`process_tapping`, one action per branch (`RestartTap` is the one commented
"FIX: start new tap again"), inside `action_exec`: a call passes
its record to it (`phase = "process"`), queues it if it is refused, then passes
the queue (`"drain"`) until one is refused. `Source` and `CacheAfter` are the
source layer cache, `SourceLayer` the lookup through the layers. A key's action
on a layer is one output when tapped and one when held; `on` is the report and
the layer state together. `preprocess` is the keycode lookup the combos make
before a press is processed. As configured for this board: `TAPPING_TERM_PER_KEY`,
`PERMISSIVE_HOLD`, `IGNORE_MOD_TAP_INTERRUPT`, `COMBO_ENABLE` without combos.
`hazards` is history: which of the five known hazards below has struck.

### `Combos`

`process_combo.c`, in the rounds of `keyboard_task`: `combo_task`, then at most
one event. A combo is the set of its keys; the state bits of the code, an index
per key, are the subset that is down. The loops of the code, over the combos of
a key and over the ring, take one step per round (`step` says which loop is under
way, `todo` and `walk` what is left of it); nothing else runs meanwhile, and no
loop nests in another but the ring in the combos.

| Code | Here |
|---|---|
| the loop of `process_combo` over the combos | `todo`, in the order of `Current` |
| `process_single_combo`, a press, a release | `ChordPress`, `ChordRelease` |
| `KEY_STATE_UP`, `release_combo`, `drop_combo_from_buffer` | in `ChordRelease` |
| its loop over the ring when a combo is complete, `overlaps` | `CompareOverlap` |
| the complete combo put into the ring | `Prepare` |
| `apply_combos`, one combo of it, its end | `apply_combos`, `apply_combo`, `Applied` |
| `dump_key_buffer`, `clear_combos` | the same names; the event follows what is sent on |
| the end of `process_combo` | `KeepBack`, `Settle` |
| `combo_task` | `combo_task`, its timeout in `Overdue` |
| `CMB_ON`, `CMB_OFF`, `CMB_TOG` | `PressControl`: `combo_enable`, `combo_disable` |

What is sent on is recorded as two sets, the keys and the combos registered.
`overrun` is history: a buffer was full, or a combo was left in the ring. The
combos are a constant, any sets of keys: `convert_layer_to_combo` also makes
combos of one key. The `CMB_` keys call it again (`main.c:697`), which changes
nothing as long as the layer is what it was.

### `KeyOverride`

`process_key_override.c` for the overrides this board makes (`w_shift`,
`wo_shift`), before `process_action`. `ko` is the file's state with the report.

| Code | Here |
|---|---|
| `process_key_override` for a key, for a modifier | `PressKey`, `ReleaseKey`, `ChangeMods` |
| `try_activating_override` | `Candidates` (its tests), `Activate` (the rest) |
| `clear_active_override`, `schedule_deferred_register` | the same names |
| `key_override_on`, `key_override_off`, `key_override_task` | the same names |
| `set_key_override` (`keyboard_quantizer.c`) | the same name |

Times are in units of the short delay. `stale` (overrides were turned off with a
key down, which stays the "last key") and `cut` (the replacement has been
released by a key that has the same code) are history.

### `StoredConfig`

What is kept in the EEPROM above `DurableStore`: the promise that a write is
durable when it returns is used, and every call is a sequence of such writes
(`todo`) that a power loss may cut at any place. A region is its magic and the
board's word; a keymap is one cell that is `raw`, `init`, `custom`, or `foreign`,
written by a firmware with another layout.

| Code | Here |
|---|---|
| `via_init`, the check of `magic()`, `matrix_init_kb` | boot, in that order |
| `eeconfig_init_via`, `eeconfig_init_quantum`, `eeconfig_init_kb`, `host_os_eeconfig_init` | sequences of writes |
| `host_os_eeconfig_update` | `MirrorOs`, `LoadOs` |
| the setters and the decision of the identifier | `SET_ADDRESS`, `set_device_req_len`, `set_config_req_len`, `get_usb_host_os_type` |
| mode keys, `EEPROM_RESET` | `ChooseMode`, `EEPROM_RESET` |
| the host tool, VIA's keymap commands | `SetOsEeconfig`, `dynamic_keymap_set`, `dynamic_keymap_reset` |
| new firmware, before `via_eeprom_is_valid` | `Update`: of another day (magic invalid), or of the same day, with this layout or another |

`want`, `unsaved`, `ready`, `mine` and `blank` are history: what the user chose
and whether it had a chance to be stored. The region of the system not yet known
is never loaded at boot, so a mode chosen on it counts until the power goes off.

### `DefaultKeymap`

The board's `process_record_kb`, `matrix_scan_kb` and `pointing_device_task`
with the default keymap's hooks, as one round after another: a mouse report or
none (`Move`, `Wheel`), `matrix_scan_kb`, one key event or TICK, the sending of
the mouse report. A wheel action is a press and a release inside the hook
(`EncoderPress`, `EncoderRelease`); an ordinary record first ends the modifier
the wheel has left on (`EndEncoder`). A key shows modifiers of its own if its
basic keycode is one, and also the modifiers that go with it if that keycode is a
modifier or `KC_NO` (`Held`; `Ordinary` are the other keys, whose modifiers are
weak and out of sight).

Tapping is here only what decides the layer-tap key: `undecided`, `tapped` or
`again`, and the events that wait for it; `Tapping` has the details.

| Code | Here |
|---|---|
| the event is refused and waits; the queue is looked at again | `Wait`, `FrontTyped` |
| the event decides for the hold; the queue, then the event | `Decide` |
| nothing is undecided; the event, then what a decision left in the queue | `Act` |
| modifiers pressed earlier are retained | `Retained` |

After an event has been queued `action_tapping_process` passes the queue again
from its oldest event. A release that waits there counts as typed once its key
has been pressed again: it decides for the hold and is left in the queue, and the
next event is processed before it. History: `cut`, a release that waited was
processed inside a wheel action; `overtaken`, keys whose release was processed
before their waiting press.

## Runs

| Run | Question | Bounds |
|---|---|---|
| `eeprom` | Does the flash always bring back what the cache serves; is each flash operation one of the abstract store; does every call return? | 2 words of two one-bit bytes, one logged by bytes and one by words, 3 log halfwords after the magic |
| `eeprom_slot` | Is `empty_slot` always free? (no) | same |
| `handoff` | Exclusive flash and buffer, no stuck keys | 1 keyboard, 1 mouse, 2 values |
| `handoff_live` | Flash writes get through, what is held arrives | 1 mouse |
| `tapping` | Nothing stuck, in order, always decided | 3 keys, 2 layers, 2 waiting events, term 2, wrap at 5, 2 taps |
| `hid` | Lists separate, reports read as declared while core 1 rebuilds, nothing leaked | 2 interfaces, pools of 2/3/4, 6 descriptors, no reader in spoiled pools |
| `leds` | Does the keyboard follow the host, whenever a transfer reads what it sends? | keyboard and mouse, 3 LED states |
| `joystick` | Centre, speed, rest | 2 axes, 4 readings, wrap at 16 |
| `combos` | Is every press in one place; is a combo registered as long as its keys need; is what is kept back sent on? | 4 keys, 4 combos, `CMB_TOG`, term 1, buffers of 8 and 4, at most 3 keys held after an overrun |
| `override` | Does the host see only what is held; are modifiers given back; is a held key shown? | 3 keys, 2 modifiers, 2 tables of 3, repeat delay 2 |
| `config` | Is what VIA vouches for initialised; does each system get its mode; does the keymap stay? | 3 systems, 2 modes, lengths 18 and 255 |
| `keymap` | Does a modifier outlive its cause; is the driver given the buttons that are held, and no other; does the wheel let go? | 4 keys, a layer-tap key, 2 wheel keys, timeout 1, rounds of up to 2, 3 waiting events |

Why the bounds are enough to be of interest:

* *eeprom*: both log formats occur, the log fills after one to three entries, so
  full logs, compaction in the middle of a two-byte write, and a second
  compaction are all reached; the compacted pages hold one word each and the
  log spans two pages, so a power loss falls between erases of either kind. The
  value range includes 0, the one value the direct path treats differently. The
  sizes themselves are parameters of the proofs.
* *handoff*: one device per row is the most the code distinguishes (rows are
  assigned, not merged); two values distinguish held from released. `handoff_live`
  has only the mouse, because it alone runs actions inside the parse; with both
  devices the liveness check is out of reach.
* *hid*: the pools are exhausted by the larger descriptors, both by collections
  and by members, in every order of mounting and re-mounting, with a report of
  the other interface between any two steps. `ReadUnspoiled` cuts off readers of
  spoiled pools: a reader changes nothing but itself, and `ReadsDeclared` asks
  nothing of it there.
* *leds*: two LED states besides dark let the host change its mind twice within
  one refused transfer, and a transfer read one value, or the other, that core 0
  does not keep.
* *joystick*: readings inside, at and beyond the dead zone, on both sides of a
  centre that wanders; the timer wraps during a hold.
* *tapping*: a mod-tap, a layer-tap, and a key that is a letter on one layer and
  a modifier on the other, because a modifier's release is treated apart. The
  buffer holds two events, so it overflows; with three the safety properties
  hold as well (2.9 million states). The times wrap while a tapped key
  is kept down. Two taps stand for 15: only 0, 1
  and more are told apart.
* *combos*: a combo of one key, two of which one contains the other, and one
  of a single key of the longer, so that three are prepared at once, and the one
  that gives way is in front, behind or in the middle of the ring. The buffers
  have the sizes of the code. `FewAfterOverrun` lets a press leave at most three
  keys down once a buffer was too short, where `Accounted` and `FiredIsActive`
  ask nothing any more; without it there are too many states for `Drains`.
* *override*: entries whose replacement is the trigger of another entry, one
  without a replacement, one with modifiers of its own, both kinds of condition,
  and a modifier no entry mentions. A delay of 2 tells the first registration
  from the short delay.
* *config*: a host is not yet known, then taken for Linux, then known to be
  Windows, which is the order of a real enumeration; every write can be the last
  before the power goes, any number of times, and a firmware of any of the three
  kinds may follow.
* *keymap*: a modifier key, a key of two modifiers and no code (as `KC_MEH`), a
  button of its own and the one the layer-tap key clicks, and a wheel that is
  `LCTL(KC_Z)` one way and `LALT(KC_LCTL)` the other, so that a wheel key is
  ordinary or a modifier, and shares modifiers with keys. A round of 2 jumps over
  the timeout, rounds of 0 never reach it. Three events wait: the release of a
  modifier key, its press, and one more.

Each property of a passing run has a mutant: a plausible mistake in one
definition, kept beside it ("A mistake: ..."), under which TLC finds the
property violated.

`leds` is checked without deadlock checking: when the keyboard is plugged in,
the host content and nothing is left to send, nothing need happen.

## Fairness

* `Eeprom!FairSpec`: WF of `Step`, the firmware's own sequential progress. Power
  losses and calls are never forced; `ReturnsToCaller` excepts a power that
  fails for ever.
* `HostHandoff!FairSpec`: WF of each core (both loops run unconditionally). SF of
  `EndHook` and `EndTasks`: an action may write the flash again and again, but
  not for ever without returning. SF of each device's report and unmount
  events: `tuh_task` serves its queue in order, so a device whose endpoint is
  armed is served eventually, however often others are.
* `KeyboardLeds!LedSpec`: WF of both cores and of the two stages of a transfer the
  library has taken. Neither the host nor the user is forced to do anything.
* `Joystick!StickSpec`: WF of the scan.
* `Tapping!FairSpec`: WF of `process_tapping` (code that runs to its return), SF
  of a Tick with time passed: `keyboard_task` sends a TICK whenever no key has
  changed, and time passes between calls. `Settles` holds trivially for a user
  who never stops pressing keys; otherwise it must be the TICKs that decide.
* `Combos!FairSpec`: WF of `keyboard_task`, which the main loop calls for ever,
  and of time. No key event is forced: there may always be none (`NoEventComes`).
* `KeyOverride!FairSpec`: WF of `key_override_task`, which every round calls, and
  of time.
* `DefaultKeymap!Fairness`: WF of the rounds, and SF of a round that takes time:
  not every round is shorter than a millisecond.

## Proofs

### `EepromProofs` (over `SizeAssumption` and `PageAssumption`)

* `TypeCorrect`: `Spec => []TypeOK`, which includes that the log is programmed
  only within its bounds.
* `Durable`: `Spec => []IntactSurvivesReboot`.

`IntactSurvivesReboot` speaks of the states between calls only, so it is not
inductive. `IInv == TypeOK /\ Loops /\ Sound` adds

1. `Loops`: where the loop of each phase stands (which pages are erased, which
   words copied, how far the replay has got, that a pending two-halfword entry
   has room);
2. `Sound`, as long as `intact`: the shape of the log (`FlashFit`: a value
   follows its address, an address is followed by its value or by a halfword a
   power loss left erased, and beyond that the log is erased), the place of
   `empty_slot` (`SlotFit`), that all but the bytes still to be logged are
   persistent (`Reached`), and that the replay so far gives what is persistent up
   to that point (`Replayed`).

The lemmas `ReadExtend`, `ReadLast` and `ReadNone` say what one more log entry
does to the value a replay gives; `AppendEffect` and `AppendFits` carry them to
the write actions; `StepInv` combines one lemma per action.

The refinement, in the same module:

* `Implements`: `Spec => ImplementsStore`, the refinement of `DurableStore`: what
  a power loss would leave behind changes only where a write is under way.

The refinement mapping takes `stable` to `Stable`, what a boot would restore.
`ReadIsUnique` says that the log gives each byte one value (the last entry that
affects it, by well-founded induction on positions), so that `Stable` is
determined by `Persisted`; then one lemma per action says which step of the store
it is. `RInv` adds to `IInv` that an erase at boot finds no magic (`InitErases`).

### `BoardProofs` (over `DevicesAssumption`, `LedAssumption`, `JoystickAssumption`)

What the board does by itself, in three parts that share no variable; hence the
names `LedSpec`, `StickSpec` and so on in two of the modules.

`HostHandoff`:

* `HandoffTypes`, `FlashExclusion`, `BufferExclusion`, for any set of devices.
* `NoStuckKeys`, under `OneOfEach` (a row belongs to one device): with two
  keyboards each report replaces the other's keys, in the code as in the model,
  and the property is not true.

`FlashInv` ties the triggers to where both cores are in the handshake.
`BufferInv` says who owns the buffer while `orderly`. `StuckInv` follows what a
device holds (`Traced`): it is in the newest of its reports, wherever that is,
or in the matrix when none is under way, unless the disconnect branch is about
to clear the matrix.

`KeyboardLeds`:

* `LedTypes`: `LedTypeOK`, for any devices and LEDs.
* `LedsStayInStep`: `LedSpec => []LedsInStep`. Between two comparisons, with no
  data stage to come, a mounted keyboard lights what core 0 takes for sent
  (`keyboard_led`), unless an address was lost, a keyboard came late, or a value it
  was sent has been taken back. This is the safe half of `LedsFollow`: core 0
  sends on a difference only, so a wrong belief would never be corrected.

`LedInv` says what counts as sent in the middle of a comparison (`SentLeds`, the
backup), that core 0 has the address exactly while the keyboard is mounted
(`Addressed`), that nothing is sent to a keyboard that is not there (`Sending`),
and that a keyboard lights what counts as sent or what a transfer found in
`keyboard_led` in the middle of a comparison (`Lit`).

`Joystick`:

* `JoystickTypes`, `CentreMovesAtRest`, `SpeedIsKept`: `StickTypeOK`,
  `RecentersOnlyAtRest` and `SpeedKeptInTimer`, for any resolution, tolerance and
  scan times.

Both properties compare what the code measures with a 16-bit timer to the time
that passed. `Resting` keeps the first below the second and the stick within the
tolerance of its reference; `Timed` says that they agree until the timer wraps.

### `CombosProofs` (over `CombosAssumption`)

* `CombosTypes`, `EveryPressAccounted`, `CombosReleased`: `TypeOK`, `Accounted`
  and `FiredIsActive`, for any keys, any combos (of one key or more, sharing keys
  or containing each other), any term and any buffer lengths.

The two properties speak of the states between two rounds, so the invariant
`CombosInv` says what holds in the middle of every loop of a round. `LoopOK` is
where the loops are. While nothing has overrun, `CoreInv` adds: where each key is
(`PlacesOK`), the key of the event apart; what a combo's state knows (`StateOK`);
that the combos in the ring that have not given way (`Open`) are complete, have
their keys in the buffer and share none (`RingOK`), which is what the comparison
of overlaps is for (`OverlapOK`); that a complete combo is in the ring, in the
set that gave way, or on its way there (`ReadyOK`); what a release has found in
the combos it has passed (`ReleaseOK`: a release is kept from the report exactly
if a combo has or will have taken its press); and what the buffer looks like while the
ring is applied (`ApplyOK`: each combo applied so far stands for the last of its
keys, the others are TICKs). `LastKey` says that the entry with which a combo is
complete is one, and the last of its keys. `CoreNext` puts together one lemma per action.

### `KeyOverrideProofs` (over `OverrideAssumption`)

* `OverrideTypes`, `ModsGivenBack`, `OnlyHeldKeys`: `TypeOK`, `ModsRestored` and
  `OnlyHeld`, for any keys, modifiers and tables.

`OnlyHeld` alone is not inductive: a deferred key is registered when the event
that asked for it is long past. `Held` says whose it is: the active override's
trigger is the last key, the last key is still down, and what is deferred is
that key or its replacement. Each operator of the file has a lemma that it keeps
`Good` (types and modifiers) and carries `Held` from the keys that were down to
those that are (`ClearGood`, `ActivateGood`, `PressKeyGood`, `ReleaseKeyGood`,
`ChangeModsGood`); the lemmas per action only put them together. Which candidate
is taken rests on `FirstCandidate`, the least of a set of positions.

### `StoredConfigProofs` (over `ConfigAssumption`)

* `ConfigTypes`, `ViaIsSound`, `PerOsIsRestored`, `KeymapIsKept`: `TypeOK`,
  `ViaSound`, `PerOsRestored` and `KeymapKept`, for any set of host systems and
  a power loss between any two writes.

All three properties are about the EEPROM in the middle of a call, so each
invariant says what the rest of the call (`todo`) will still do:

* `ViaInv`: while the keymap is not written, whatever call is under way writes it
  before the magic that vouches for it (`KeymapFirst`).
* `OsInv`: the mode in RAM is the one chosen on the running system (`Chosen`), base and
  copies hold the mode or are about to (`BaseFollows`, `Mirrored`), and no pending
  write would put anything else there (`Faithful`).
* `KeepInv`: what is validated stays so (`Validated`), a keymap of the user's is
  there only under a valid magic (`CustomAlone`), and, while no region never
  written was loaded, base and copies keep their magic through every prefix of a
  call (`BaseMagic`, `MagicTrue`, `ReadyMagic`), so that no boot resets the
  keymap (`Labelled`, `MineKept`).

An initialisation is a call made of calls, so the lemmas about concatenation
(`ConcatKeymapFirst`, `ConcatElements`, `ConcatOs`, `ConcatKeeps`) carry what
holds of each part to the whole. `StepTypes` combines one lemma per action, and
each theorem does the same for its invariant.

### `DefaultKeymapProofs` (over `KeymapAssumption`)

* `KeymapTypes`, `ModifiersAccounted`, `HostFollowsButtons`: `TypeOK`,
  `ModsAccounted` and `ButtonsFollow`, for any keymap, wheel actions and timeout.

Records that waited behind a tap key are processed long after their keys moved.
`Orderly` says whose they are: a press that waits is of a key that is down, a
release of one with a modifier. `Cover` has two halves. `Owned` gives each
modifier and button in the report an owner: a key that is down, one an event of
which waits, one whose release overtook its press, the wheel action, or the click
that the next scan ends. `Due` is the other direction: a button that is down is in
the report, or its press waits. `Clicks` says what the USB driver has been given.

Records are processed by a recursive function. `RecordStep` carries both halves
through one record, `ProcessedStep` through all of them (by the least index at
which they would fail), and `AroundStep` does so for a queue with records before
or behind it, which is what all the actions come down to: a turn of the wheel
(`WheelStep`), an event in front of the queue (`ActStep`) or behind it
(`DecideStep`), the queue alone (`DrainShown`), and a queue that only grows
(`JoinStep`, `WaitStep`).

### `TappingProofs` (over `TappingAssumption` and `NoneAssumption`)

* `TappingTypes`, `NothingIsStuck`, `PressesInOrder`: `TypeOK`, `NothingStuck`
  and `InOrder`, for any keymap, buffer, term and timer.

`NothingStuck` speaks of an empty buffer and no key down, and says nothing of the
way there. `IInv` follows the events of each key that are not acted on yet, those
that wait and the one of the call: presses and releases take turns
(`Alternates`); a release carries a tap count only if it is the next of its key
(`Marked`); the tapping key's release has been looked for (`Scanned`); ages fall
from the oldest event to the newest (`Aged`). A key whose next event is a release
is `Engaged`, and `Owned` says that what is on is exactly the tap or the hold
that the next release of an engaged key will take off. The layers of `Orderly`
hold while nothing but `recached` has struck, `Owned` while nothing has.

`TailRemoval` and `LastRemoval` say what an event taken from the front or put at
the end does to all of these; `CountMark` what the scan does; `ProcessOwned` what
acting on a record does to what is on. Then one lemma per branch of
`process_tapping`.

### `HidPoolsProofs` (over `PoolAssumption` and `DescriptorAssumption`)

* `PoolTypes`, `ListsAreSeparate`, `NothingLeaks`: `TypeOK`, `ListsSeparate` and
  `NoLeak`, for pools of any size, any interfaces and any descriptors.
  `DescriptorAssumption` types the items a device sends and has those that are
  not cut off end each collection they begin, which the HID class requires; a
  descriptor that is cut off, or for which a pool runs out, may leave anything
  half built, which `ListsSeparate` survives and `spoiled` excepts from `NoLeak`.

`ListsSeparate` follows lists from end to end, and a step changes one link. The
invariant `PoolInv` is local instead: no entry has two pointers, counting heads
and links (`Linked`), and what has a pointer is in use and is not the collection
being built (`Chained`). From that `ListEnds` (by the pigeonhole principle: a
walk that does not end meets an entry twice, and the entry before it too, back to
the head) and `ListsDisjoint` give the property. `FewerPointers`, `LinkAdded` and
`HeadAdded` say how pointers may change, `FreedUnpointed` that freeing whole lists
leaves no pointer to what was freed; each action is one or two of these. `AtBase`
adds where the compression stands.

`LeakInv` adds, while nothing has spoiled the pools, that all in use is on a
device's list or on the one that is built (`Kept`), whose last member the parser
knows (`Building`), and that the items that are left end what is begun
(`Nested`). `Grown` says that a list keeps its entries when no link of it is
replaced; only deletion and `Join` replace one.

Lists are given by recursive functions, so `WalkIs` first shows that these exist
(by a least counterexample), and `EntriesLeast` is the induction over a list that
the other lemmas use: its entries are in every set that holds its head and is
closed under its links.

Each inductive invariant was checked by TLC on the run's instance, and the last
one simulated on a larger one, before it was proved.

### Model-checked only

* Liveness (`ReturnsToCaller`, `FlashCompletes`, `HeldReachesMatrix`,
  `LedsFollow`, `RestMeansStill`, `Settles`, `Drains`, `HeldIsShown`,
  `EncoderReleased`) is beyond the prover.
* `ReadsDeclared` of `HidPools` compares what a walk has read with `Declared`,
  which flattens the fields of a descriptor with a fold over sequences: what the
  fold yields for every descriptor is induction over data. It also takes report
  ids that differ, which `DescriptorAssumption` does not ask of a device. What it
  rests on is proved: the lists end and stay apart (`ListsSeparate`).

## What the code does otherwise

Shown by a run (see `findings` in `PROJECT.json`): `eeprom_slot`.

Recorded by a history variable, which the passing properties except:

* A report that is pending when its device leaves may be parsed into the matrix
  that has just been cleared (`matrix.c:114-133`) — `orderly`.
* A report is overwritten after 50 ms although core 0 may be parsing it
  (`matrix.c:191`) — `orderly`.
* A collection entry taken again keeps the report id of a former use without
  members (`report_descriptor_parser.c:202`); the collection of a cut descriptor
  leaks (`:183`) — `spoiled`.
* A keyboard plugged in later is not told the LEDs (`matrix.c:94`), and any HID
  interface that leaves makes the board forget the keyboard (`:175`) —
  `disturbed`.
* While a new request is being refused, `keyboard_led` holds the new value
  (`matrix.c:96-98`). A transfer that is still running may send that value before
  it is taken back; if the host then returns to the old value, nothing is sent,
  and the keyboard goes on showing the other one — `taken_back`.
* A combo of one key (`convert_layer_to_combo` makes them of a layer as well) that
  is tapped within the term takes the branch "First key quickly released"
  (`process_combo.c:408`) and is then registered by `apply_combos` with no key left
  to wait for: it is never released — `Alone`.
* A firmware built on the same day takes the EEPROM of the one before for its
  own, because VIA's magic is the day of the build (`via.c:66`), also when its
  layout is another — `foreign`, which `ViaSound` does not call uninitialised.
* `overflow` (`action_tapping.c:73`, "clear all in case of overflow"): codes and
  modifiers are cleared and the waiting events forgotten, but layers are not. A
  layer-tap decided just before loses its release and its layer stays on.
* `overtaking` (`action_tapping.c:86-96`): a hold that is decided while the
  waiting buffer is drained ends the loop with no tapping key and events left;
  a key event that comes before the next TICK is processed first, and so a
  release may go before its own press.
* `recached` (`quantum.c:165`): a press updates its source layer before it is
  processed, while the release of its previous press may still be waiting
  (modifiers are retained while a tap is undecided). The release then acts on the
  new layer. With a key that is a letter on layer 0 and a modifier on layer 1 the
  letter stays on, against what `action_layer.c:223` asks for.
* `unscanned` (`action_tapping.c:301-303`): a tap key that another key has
  interrupted starts a new tap when it is pressed again, without a look at the
  waiting buffer, which every other press of a tap key gets
  (`waiting_buffer_scan_tap`). If its release waits there already, that release
  does not end the tap, and what the tap registered may stay on. It takes more
  keys and a longer buffer than the run has; it came up as the step that did not
  keep the inductive invariant of `TappingProofs`.
* `wrapped`: a record that is still undecided, or waits, when it gets older than
  the 16-bit timer counts looks young again. The scan rate rules it out; the
  model allows any gap between two calls.
* A byte of 0 that is written directly counts as stored although the erase
  before it was interrupted (`eeprom.c:438`) — `intact`.
* A combo that is left in the ring behind one that gave way is not applied,
  although the function is announced with "Apply all buffered normal combos"
  (`process_combo.c:292`); a ring of four that holds four looks empty; a full
  `key_buffer` swallows the press — `overrun`.
* `timer_read()` may be 0, which the combos take for "no timer": keys kept back
  then wait for the next event (`process_combo.c:531`); `Drains` says so.
* `key_override_off` leaves the last key in place (`process_key_override.c:457`),
  so an override may be active afterwards for a key that is up — `stale`.
* The release of a key whose code is the replacement of another that is still
  held takes the replacement out of the report — `cut` of `KeyOverride`.
* A release that waits for a layer-tap key and is processed inside a wheel action
  is taken for a part of it: the modifier stays on, although `main.c:588` sets
  out to prevent "stuck encoder-action modifiers" — `cut` of `DefaultKeymap`.
* The release of a key that is processed before its waiting press (`overtaking`
  above) leaves what the press then gives on: a modifier or a button that no key
  holds — `overtaken` of `DefaultKeymap`.
* `eeconfig_init_quantum` writes the base magic first (`eeconfig.c:52`): a power
  loss before the copies of the host systems are written leaves an EEPROM the
  next boot takes for initialised. Loading a copy that was never written clears
  the base magic, and the boot after that initialises everything, the user's
  keymap included — `blank`.
* A mode chosen between two scans is lost if the host's system changes in the
  second one or the power goes before it — `want` is taken back.

Modelled as it is, without an exception:

* A report is discarded unparsed if it is published between the read and the
  clearing of its length (`matrix.c:131`), which takes a wait that timed out.
* An empty device slot has interface number 0, so a lookup of interface 0 may
  find it in place of the device (`report_descriptor_parser.c:24`): a slot that a
  mount has cleared (`:92`), if it is before the device's own and as long as
  nothing takes it. Core 0 then reads a collection at address 0
  (`report_parser.c:40`). With the two slots of the run the next step of the mount
  takes it. With three, an interface without Input items, whose slot counts as
  empty, can be before it and be taken instead: the cleared one then stays there
  until another interface is mounted. Both are `torn` reads.
* At boot, the base is mirrored over the copy of the system not yet known; while
  a Windows host enumerates it is taken for Linux, whose configuration is loaded
  for that long.
* What a tool on the host writes to the board's word reaches RAM at the next
  boot only, and a mode key before that overwrites it. `EEPROM_RESET` clears the
  board's word but the overrides of the old mode stay registered.
* A double tap of a layer-tap mouse key clicks three times, and its click
  releases a button of the same number that is held, which `ButtonsFollow`
  therefore does not ask to be shown.
* The press and the release of a button that decide a layer-tap key are
  processed in one call (`action_tapping.c:86-96`), before a report is sent: the
  host never sees that click. A second tap in the round that ends the first click
  hides its end the same way. `ButtonsFollow` speaks of what is held when a scan
  begins, and of nothing in between; the driver may drop a report besides
  (`iusb.c:56-68`).
* A wheel action whose modifier is held by a key as well releases it when it
  ends.
* An override without replacement that is ended by a modifier registers its
  trigger, after the short delay.

* A keyboard report writes the rows 0 to 22, and row 22 is the mouse button row
  (`keyboard_quantizer.c:205`), so it releases the mouse's buttons.
  `NothingStuck` therefore allows a row to show nothing.
* The speed of the stick starts again after 65.5 s (`main.c:457`);
  `SpeedKeptInTimer` says so.
* Core 1 is stopped, and serves no device, while the flash is written
  (`main.c:106`).

## Not modelled

* The USB library, SPI flash commands, clocks and GPIO: hardware access. Their
  use is modelled where the code waits for them.
* Report field decoding (`parse_value` and the fields of the keyboard report), the stick's rotation and
  step, the speed of cursor and wheel: arithmetic without state to go wrong
  across steps.
* The decoder of VIA commands (a table of reads and writes), bootmagic, the soft
  reset, the debug LED; options of key overrides and combos the board does not
  use; which combos a keymap defines (`convert_layer_to_combo`), and that the
  `CMB_` keys, after VIA has rewritten the layer, replace the table while combos
  are active (`main.c:697`).
* The gestures of the default keymap, and the right-hand bit of modifiers.
* `usbd.c`, `msc_disk.c`, split keyboards, RGB, audio, displays and other QMK
  features the board's `rules.mk` does not build.
* One-shot and toggle actions, mouse keys, macros: further cases of
  `process_action`, to follow the parts below.

## Plan

Done: `DurableStore`, `Eeprom`, `HostHandoff`, `HidPools`, `KeyboardLeds`,
`Joystick`, `Tapping`, `Combos`, `KeyOverride`, `StoredConfig`, `DefaultKeymap`.

Modules that would add most next:

1. `KeyboardTask`: raw matrix, debounce and one event per call, composed with
   `Tapping` (no event lost, each press followed by its release).
2. `HidPools` composed with `HostHandoff`, so that a walk is torn only where a
   report is late.
3. `Combos` in front of `Tapping`, which here only records what it is sent.
4. `iusb.c`: reports sent while the endpoint is busy.
5. The dword, block and unaligned EEPROM wrappers, and with them the writes of
   `StoredConfig` as sequences of `DurableStore` writes.

Runs are few by choice: a defect that a history variable records has no run of
its own, and a new question takes the place of the run that says least.
