------------------------------- MODULE Combos -------------------------------
(***************************************************************************)
(* Combos (quantum/process_keycode/process_combo.c): keys pressed together *)
(* stand for another key.                                                  *)
(*                                                                         *)
(* Once a pass of keyboard_task calls combo_task, then action_exec with at *)
(* most one key event, whose first stop is process_combo.  A pressed key   *)
(* of a combo is kept back in key_buffer; a combo whose keys are all down  *)
(* is prepared in the ring combo_buffer.  After COMBO_TERM, or on any other*)
(* event, the prepared combos replace their keys, and the buffer is sent on*)
(* to action_tapping_process, which here only records what is registered.  *)
(*                                                                         *)
(* The loops of the code, over the combos and over the ring, take a step   *)
(* for every round; no two of them are under way at a time.                *)
(*                                                                         *)
(* A key stands for its keycode and for its position, and a combo for the  *)
(* set of its keys, so its state bits are the keys that are down.  One key *)
(* is enough for a combo.  One that names a key twice is never complete and*)
(* stands here as one with a key that is not pressed.  The combos are those*)
(* convert_layer_to_combo makes of a layer.  CMB_ON, CMB_OFF and CMB_TOG   *)
(* make them again (main.c:697 of the board): the same, unless VIA has     *)
(* rewritten that layer since they were made, which is not modelled.  Of   *)
(* the board's options COMBO_MUST_*, COMBO_TERM_PER_COMBO and              *)
(* COMBO_NO_TIMER are off.                                                 *)
(* timer counts the ms since it was set, Off is its value 0, and it is not *)
(* told apart above the term.                                              *)
(***************************************************************************)
EXTENDS Integers, Sequences, FiniteSets, Functions

CONSTANTS
    Keys,
    NoKey,
    Chords,                  \* key_combos: Chords[c] is the set of the keys of combo c
    Control,                 \* those of the keys CMB_ON, CMB_OFF, CMB_TOG that are in the keymap
    COMBO_TERM,
    COMBO_KEY_BUFFER_LENGTH, \* 8
    COMBO_BUFFER_LENGTH      \* 4

ComboIds == DOMAIN Chords

ASSUME CombosAssumption ==
    /\ Chords \in Seq(SUBSET Keys)
    /\ \A c \in ComboIds : Chords[c] # {}
    /\ Control \subseteq {"CMB_ON", "CMB_OFF", "CMB_TOG"} /\ Control \cap Keys = {}
    /\ NoKey \notin Keys \cup Control
    /\ {COMBO_TERM, COMBO_KEY_BUFFER_LENGTH, COMBO_BUFFER_LENGTH} \subseteq Nat \ {0}

Off  == -1
Ages == 0 .. COMBO_TERM + 1

VARIABLES
    down,         \* the keys whose press was the last event of theirs
    phase,        \* "task" (combo_task is next) or "event"
    enabled,      \* b_combo_enable
    timer, longest_term,
    active, disabled,    \* combos with that flag
    state,
    key_buffer,
    prepared,     \* combo_buffer from combo_buffer_read to combo_buffer_write
    registered,   \* keys whose press has been sent on, without a release
    fired,        \* and combos
    step,         \* "idle", "single": in process_combo's loop over the combos,
                  \* "overlaps" or "apply": over the ring
    event,        \* of process_combo
    part,         \* its is_combo_key
    todo,         \* the combos of its key it still has to look at
    walk,         \* what is left of the ring for the loop over it
    overrun       \* history: a full buffer, or a combo left in the ring

task  == <<down, phase>>
clock == <<timer, longest_term>>
sent  == <<registered, fired>>
loop  == <<step, event, part, todo, walk>>
vars  == <<task, enabled, clock, active, disabled, state, key_buffer, prepared, sent, loop, overrun>>

Buffered == [key : Keys, combo : {0} \cup ComboIds, tick : BOOLEAN]
NoEvent  == [key |-> NoKey, pressed |-> FALSE]

Init ==
    /\ down = {} /\ phase = "task" /\ enabled = TRUE
    /\ timer = Off /\ longest_term = 0
    /\ active = {} /\ disabled = {} /\ state = [c \in ComboIds |-> {}]
    /\ key_buffer = <<>> /\ prepared = <<>> /\ registered = {} /\ fired = {}
    /\ step = "idle" /\ event = NoEvent /\ part = FALSE /\ todo = {} /\ walk = <<>>
    /\ overrun = FALSE

-----------------------------------------------------------------------------
(* The end of a pass: what is buffered is sent on, and what is not active  *)
(* starts afresh.                                                          *)

\* A mistake: active combos are forgotten as well.
clear_all_combos ==
    /\ longest_term' = 0
    /\ disabled' = {} /\ active' = {}
    /\ state' = [c \in ComboIds |-> {}]

clear_combos ==
    /\ longest_term' = 0
    /\ disabled' = disabled \cap active
    /\ state' = [c \in ComboIds |-> IF c \in active THEN state[c] ELSE {}]
    /\ UNCHANGED active

\* What is not a TICK is sent on, in the order of the presses, and then the event
\* itself unless it is part of a combo.
dump_key_buffer ==
    LET going == {r \in Range(key_buffer) : ~r.tick}
        keys  == registered \cup {r.key : r \in {s \in going : s.combo = 0}}
    IN  /\ key_buffer' = <<>>
        /\ fired' = fired \cup {r.combo : r \in {s \in going : s.combo # 0}}
        /\ registered' = IF part THEN keys
                         ELSE IF event.pressed THEN keys \cup {event.key}
                         ELSE keys \ {event.key}

\* The other half of keyboard_task is next.
Return ==
    /\ phase' = IF phase = "task" THEN "event" ELSE "task"
    /\ step' = "idle" /\ event' = NoEvent /\ part' = FALSE /\ todo' = {} /\ walk' = <<>>

-----------------------------------------------------------------------------
(* apply_combos.  The ring is walked from read to write as they were at the*)
(* start.  A combo that gave way is left in it, and those behind it.       *)

apply_combos ==
    /\ step' = "apply" /\ walk' = prepared
    /\ UNCHANGED <<task, enabled, clock, active, disabled, state, key_buffer, prepared, sent,
                   event, part, todo, overrun>>

drop_combo_from_buffer(c) ==
    IF c \notin Range(prepared) THEN UNCHANGED <<disabled, prepared>>
    ELSE /\ disabled' = disabled \cup {c}
         /\ prepared' = IF Head(prepared) = c THEN Tail(prepared) ELSE prepared

Mine(c) == {i \in DOMAIN key_buffer : key_buffer[i].key \in Chords[c]}
UpTo(c, i) == {key_buffer[j].key : j \in {j \in Mine(c) : j <= i}}

\* The entry with which combo c is complete.
Completing(c) == {i \in Mine(c) : UpTo(c, i) = Chords[c]}

\* The last of the combo's keys becomes the combo, those before it become TICKs.
Replaced(c, i) ==
    IF i \notin Mine(c) \/ \E j \in Completing(c) : j < i THEN key_buffer[i]
    ELSE IF i \in Completing(c) THEN [key_buffer[i] EXCEPT !.combo = c]
    ELSE [key_buffer[i] EXCEPT !.tick = TRUE]

apply_combo ==
    /\ step = "apply" /\ walk # <<>>
    /\ walk' = Tail(walk)
    /\ LET c == Head(walk)
       IN  IF c \in disabled THEN UNCHANGED <<active, disabled, key_buffer, prepared>>
           ELSE /\ key_buffer' = [i \in DOMAIN key_buffer |-> Replaced(c, i)]
                /\ active' = IF Completing(c) = {} THEN active ELSE active \cup {c}
                /\ drop_combo_from_buffer(c)
    /\ UNCHANGED <<task, enabled, clock, state, sent, step, event, part, todo, overrun>>

\* combo_task stops the timer, process_combo does not.
Applied ==
    /\ step = "apply" /\ walk = <<>>
    /\ dump_key_buffer /\ clear_combos /\ Return
    /\ timer' = IF phase = "task" THEN Off ELSE timer
    /\ overrun' = (overrun \/ prepared # <<>>)
    /\ UNCHANGED <<down, enabled, prepared>>

NothingPrepared ==
    /\ dump_key_buffer /\ clear_combos /\ Return /\ timer' = Off
    /\ UNCHANGED <<down, enabled, prepared, overrun>>

-----------------------------------------------------------------------------
(* The loop of process_combo: process_single_combo for each combo.         *)

\* The combo the loop is at.
Current(c) == c \in todo /\ \A d \in todo : c <= d

\* A press that the combo takes part in.
Taken(c) == event.pressed /\ c \notin disabled /\ enabled

\* A mistake: each key prolongs the term.
ChordPressAdds(c) ==
    /\ step = "single" /\ Current(c) /\ Taken(c)
    /\ part' = TRUE
    /\ state' = [state EXCEPT ![c] = @ \cup {event.key}]
    /\ longest_term' = longest_term + COMBO_TERM
    /\ IF state'[c] = Chords[c]
       THEN step' = "overlaps" /\ walk' = prepared /\ UNCHANGED <<todo, disabled>>
       ELSE todo' = todo \ {c} /\ UNCHANGED <<step, walk, disabled>>
    /\ UNCHANGED <<task, enabled, timer, active, key_buffer, prepared, sent, event, overrun>>

ChordPress(c) ==
    /\ step = "single" /\ Current(c) /\ Taken(c)
    /\ part' = TRUE
    /\ IF c \in active THEN UNCHANGED <<state, longest_term>>
       ELSE state' = [state EXCEPT ![c] = @ \cup {event.key}] /\ longest_term' = COMBO_TERM
    /\ IF state'[c] = Chords[c] /\ timer <= COMBO_TERM
       THEN step' = "overlaps" /\ walk' = prepared /\ UNCHANGED <<todo, disabled>>
       ELSE /\ todo' = todo \ {c}
            /\ disabled' = IF state'[c] = Chords[c] THEN disabled \cup {c} ELSE disabled
            /\ UNCHANGED <<step, walk>>
    /\ UNCHANGED <<task, enabled, timer, active, key_buffer, prepared, sent, event, overrun>>

\* Combo c, not active, is complete when one of its keys comes up.
Ready(c) == c \notin active /\ state[c] = Chords[c]

\* The key is the only one combo c, which is active, waits for.
LastUp(c) == c \in active /\ state[c] = {event.key}

\* A mistake: the key is taken off the state before the last one is looked for.
ReleaseAfterUp(c) ==
    /\ step = "single" /\ Current(c) /\ ~Taken(c)
    /\ active' = active /\ fired' = fired
    /\ part' = (part \/ (c \in active /\ event.key \in state[c]))
    /\ state' = [state EXCEPT ![c] = @ \ {event.key}]
    /\ todo' = todo \ {c}
    /\ UNCHANGED <<task, enabled, clock, disabled, prepared, key_buffer, registered, step, event,
                   walk, overrun>>

\* A release, or a press the combo takes no part in.
ChordRelease(c) ==
    /\ step = "single" /\ Current(c) /\ ~Taken(c)
    /\ IF Ready(c) /\ c \in disabled
       THEN drop_combo_from_buffer(c) ELSE UNCHANGED <<disabled, prepared>>
    /\ active' = IF LastUp(c) THEN active \ {c} ELSE active   \* release_combo
    /\ fired'  = IF LastUp(c) THEN fired \ {c} ELSE fired
    /\ part' = \/ part
               \/ Ready(c) /\ c \notin disabled /\ enabled
               \/ c \in active /\ event.key \in state[c]
    /\ state' = [state EXCEPT ![c] = @ \ {event.key}]
    /\ todo' = todo \ {c}
    /\ UNCHANGED <<task, enabled, clock, key_buffer, registered, step, event, walk, overrun>>

\* Which of two combos that share a key gives way: the shorter, else the older.
overlaps(older, newer) ==
    IF Chords[older] \cap Chords[newer] = {} THEN 0
    ELSE IF Cardinality(Chords[newer]) < Cardinality(Chords[older]) THEN newer
    ELSE older

\* Combo c is fully pressed and goes through the ring.  An older one that gives way
\* is skipped if it is the first, elsewhere it stays.
CompareOverlap(c) ==
    /\ step = "overlaps" /\ walk # <<>> /\ Current(c)
    /\ LET older == Head(walk)
           drop  == overlaps(older, c)
       IN  /\ disabled' = IF drop = 0 THEN disabled ELSE disabled \cup {drop}
           /\ IF drop = c
              THEN step' = "single" /\ todo' = todo \ {c} /\ walk' = <<>> /\ UNCHANGED prepared
              ELSE /\ walk' = Tail(walk)
                   /\ prepared' = IF drop = older /\ walk = prepared THEN Tail(prepared)
                                  ELSE prepared
                   /\ UNCHANGED <<step, todo>>
    /\ UNCHANGED <<task, enabled, clock, active, state, key_buffer, sent, event, part, overrun>>

\* It is put into the ring; a full ring looks empty.
Prepare(c) ==
    /\ step = "overlaps" /\ walk = <<>> /\ Current(c)
    /\ step' = "single"
    /\ todo' = todo \ {c}
    /\ LET full == Len(prepared) + 1 = COMBO_BUFFER_LENGTH
       IN  /\ prepared' = IF full THEN <<>> ELSE Append(prepared, c)
           /\ overrun' = (overrun \/ full)
    /\ UNCHANGED <<task, enabled, clock, active, disabled, state, key_buffer, sent, event, part,
                   walk>>

-----------------------------------------------------------------------------
(* process_combo, and the control keys.                                    *)

\* A press that is part of a combo is kept back, and the timer starts again.
\* timer_read() may be 0, which the code takes for "no timer".
KeepBack ==
    /\ step = "single" /\ todo = {}
    /\ event.pressed /\ part
    /\ timer' \in {0, Off}
    /\ LET room == Len(key_buffer) < COMBO_KEY_BUFFER_LENGTH
           new  == [key |-> event.key, combo |-> 0, tick |-> FALSE]
       IN  /\ key_buffer' = IF room THEN Append(key_buffer, new) ELSE key_buffer
           /\ overrun' = (overrun \/ ~room)
    /\ Return
    /\ UNCHANGED <<down, enabled, longest_term, active, disabled, state, prepared, sent>>

\* Every other event decides what is buffered.
Settle ==
    /\ step = "single" /\ todo = {}
    /\ ~(event.pressed /\ part)
    /\ IF prepared # <<>> THEN apply_combos ELSE NothingPrepared

process_combo(k, pressed) ==
    /\ phase = "event" /\ step = "idle"
    /\ step' = "single" /\ event' = [key |-> k, pressed |-> pressed]
    /\ todo' = {c \in ComboIds : k \in Chords[c]}
    /\ UNCHANGED <<phase, enabled, clock, active, disabled, state, key_buffer, prepared, sent,
                   part, walk, overrun>>

Press(k) ==
    /\ k \in Keys \ down /\ down' = down \cup {k}
    /\ process_combo(k, TRUE)

\* The release of a control key is one of no combo.
Release(k) ==
    /\ k \in down /\ down' = down \ {k}
    /\ process_combo(k, FALSE)

combo_enable ==
    /\ enabled' = TRUE
    /\ Return
    /\ UNCHANGED <<clock, active, disabled, state, key_buffer, prepared, sent, overrun>>

combo_disable ==
    /\ timer' = Off /\ enabled' = FALSE /\ prepared' = <<>>
    /\ clear_combos /\ dump_key_buffer /\ Return
    /\ UNCHANGED overrun

\* A control key changes the state on its press.  The combos it makes again are the same,
\* the layer they are made from being what it was.
PressControl(k) ==
    /\ phase = "event" /\ step = "idle"
    /\ k \in Control \ down /\ down' = down \cup {k}
    /\ IF k = "CMB_ON" \/ (k = "CMB_TOG" /\ ~enabled) THEN combo_enable ELSE combo_disable

-----------------------------------------------------------------------------
(* keyboard_task.                                                          *)

NoEventComes ==
    /\ phase = "event" /\ step = "idle" /\ Return
    /\ UNCHANGED <<down, enabled, clock, active, disabled, state, key_buffer, prepared, sent, overrun>>

\* A mistake: only prepared combos are waited for.
OverduePrepared == enabled /\ timer # Off /\ timer > longest_term /\ prepared # <<>>

Overdue == enabled /\ timer # Off /\ timer > longest_term

combo_task ==
    /\ phase = "task" /\ step = "idle"
    /\ IF Overdue
       THEN IF prepared # <<>> THEN apply_combos ELSE NothingPrepared
       ELSE /\ Return
            /\ UNCHANGED <<down, enabled, clock, active, disabled, state, key_buffer, prepared,
                           sent, overrun>>

\* Time passes between the passes.
Tick ==
    /\ step = "idle" /\ timer \in 0 .. COMBO_TERM
    /\ timer' = timer + 1
    /\ UNCHANGED <<task, enabled, longest_term, active, disabled, state, key_buffer, prepared,
                   sent, loop, overrun>>

Event ==
    \/ \E k \in Keys \cup Control : Press(k) \/ Release(k) \/ PressControl(k)
    \/ NoEventComes

process_single_combo(c) == ChordPress(c) \/ ChordRelease(c) \/ CompareOverlap(c) \/ Prepare(c)

keyboard_task ==
    \/ combo_task \/ Event
    \/ \E c \in todo : process_single_combo(c)
    \/ KeepBack \/ Settle
    \/ apply_combo \/ Applied

Next == keyboard_task \/ Tick

Spec == Init /\ [][Next]_vars

\* keyboard_task goes on, with an event or without, and time passes.
FairSpec == Spec /\ WF_vars(keyboard_task) /\ WF_vars(Tick)

-----------------------------------------------------------------------------
TypeOK ==
    /\ down \subseteq Keys \cup Control /\ phase \in {"task", "event"}
    /\ {enabled, part, overrun} \subseteq BOOLEAN
    /\ timer \in {Off} \cup Ages /\ longest_term \in {0, COMBO_TERM}
    /\ active \subseteq ComboIds /\ disabled \subseteq ComboIds
    /\ state \in [ComboIds -> SUBSET Keys]
    /\ key_buffer \in Seq(Buffered) /\ Len(key_buffer) <= COMBO_KEY_BUFFER_LENGTH
    /\ prepared \in Seq(ComboIds) /\ Len(prepared) < COMBO_BUFFER_LENGTH
    /\ registered \subseteq Keys /\ fired \subseteq ComboIds
    /\ step \in {"idle", "single", "overlaps", "apply"} /\ todo \subseteq ComboIds
    /\ event \in [key : Keys \cup Control \cup {NoKey}, pressed : BOOLEAN]
    /\ walk \in Seq(ComboIds)

\* Where the press of k is: kept back, sent on, or part of a combo that was sent on.
Homes(k) ==
    {i \in DOMAIN key_buffer : key_buffer[i].key = k}
        \cup (IF k \in registered THEN {0} ELSE {})
        \cup {-c : c \in {c \in fired : k \in state[c]}}

\* No press is lost, sent twice or left registered: a key that is down is in one
\* place, a key that is up in none.  Unless a buffer was too short.
Accounted ==
    step = "idle" /\ ~overrun =>
        \A k \in Keys : Cardinality(Homes(k)) = IF k \in down THEN 1 ELSE 0

\* A combo of one key.
Alone(c) == \E k \in Keys : Chords[c] = {k}

\* A combo is registered exactly as long as one of its keys has to be released, through
\* overlaps, timeouts and disabling in the middle of a chord.  A combo of one key is the
\* exception the code makes: tapped within the term it is complete when its key comes up
\* (process_combo.c:408), is sent on with no key left to wait for, and stays.
FiredIsActive ==
    step = "idle" /\ ~overrun =>
        fired = active /\ \A c \in active : state[c] # {} \/ Alone(c)

\* A key that is kept back is sent on in the end, though no other key is pressed,
\* unless the press is at a time the code takes for "no timer".
Drains == key_buffer # <<>> ~> key_buffer = <<>> \/ timer = Off
=============================================================================
