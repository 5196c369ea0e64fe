---------------------------- MODULE KeyOverride -----------------------------
(***************************************************************************)
(* Key overrides (quantum/process_keycode/process_key_override.c): a key   *)
(* pressed with certain modifiers is replaced by another.  This board uses *)
(* them to be a US keyboard for a JP host and the other way round.         *)
(*                                                                         *)
(* A key event passes process_key_override before process_action registers *)
(* it.  An override that a modifier activates is registered later, by      *)
(* key_override_task, and so is a key whose override a modifier has ended. *)
(* set_key_override changes the table, or turns overrides off, between two *)
(* events: on a key of its own, or because the host's OS has been found.   *)
(*                                                                         *)
(* Overrides are those w_shift and wo_shift make: default options, no      *)
(* layers, no custom action.  A modifier has one side.  Ages are in units  *)
(* of the short delay (50 ms), above KEY_OVERRIDE_REPEAT_DELAY all alike.  *)
(***************************************************************************)
EXTENDS Integers, Sequences, FiniteSets, FiniteSetsExt

CONSTANTS
    Keys, Mods,     \* keycodes and modifiers
    Modes,          \* of OVERRIDE_MODE those that register a table
    Table,          \* Table[mode]: a sequence of overrides
    RepeatDelay,    \* KEY_OVERRIDE_REPEAT_DELAY
    None            \* no key, no override (KC_NO, NULL)

Override == [trigger : Keys, trigger_mods : SUBSET Mods, negative_mods : SUBSET Mods,
             replacement : Keys \cup {None}, mods : SUBSET Mods]

ASSUME OverrideAssumption ==
    /\ None \notin Keys /\ None \notin Override /\ RepeatDelay \in Nat \ {0}
    /\ \A m \in Modes : Table[m] \in Seq(Override)

ShortDelay == 1

VARIABLES
    down, mods,   \* the keys and the modifiers that are down; mods is what get_mods returns
    key_overrides, enabled,
    ko,           \* the other variables of process_key_override.c, and the report
    stale, cut    \* history: see key_override_off and Release

vars == <<down, mods, key_overrides, enabled, ko, stale, cut>>

\* deferred_register and the time left, suppressed and weak override modifiers, the
\* keys of the report.
State == [active_override : Override \cup {None}, trigger_is_down : BOOLEAN,
          last_key_down : Keys \cup {None}, age : 0 .. RepeatDelay,
          deferred : Keys \cup {None}, left : 0 .. RepeatDelay,
          suppressed : SUBSET Mods, weak : SUBSET Mods, keys : SUBSET Keys]

Init ==
    /\ down = {} /\ mods = {} /\ stale = FALSE /\ cut = FALSE
    /\ enabled = TRUE /\ key_overrides = <<>>
    /\ ko = [active_override |-> None, trigger_is_down |-> FALSE,
             last_key_down |-> None, age |-> RepeatDelay, deferred |-> None, left |-> 0,
             suppressed |-> {}, weak |-> {}, keys |-> {}]

-----------------------------------------------------------------------------
(* process_key_override.c.  s is a State.                                  *)

matches_active_modifiers(o, m) == o.negative_mods \cap m = {} /\ o.trigger_mods \subseteq m

schedule_deferred_register(s, key) ==
    [s EXCEPT !.deferred = key,
              !.left = IF s.age < RepeatDelay THEN RepeatDelay - s.age ELSE ShortDelay]

\* A mistake: the modifiers stay suppressed.
clear_keys_only(s, allow_reregister) ==
    LET o == s.active_override
    IN  IF o = None THEN s
        ELSE [s EXCEPT !.active_override = None, !.trigger_is_down = FALSE, !.deferred = None,
                       !.keys = @ \ {o.replacement}]

\* A mistake: a trigger that is still held is not registered again.
clear_for_good(s, allow_reregister) ==
    IF s.active_override = None THEN s
    ELSE [s EXCEPT !.active_override = None, !.trigger_is_down = FALSE,
                   !.deferred = None, !.suppressed = {}, !.weak = {},
                   !.keys = @ \ {s.active_override.replacement}]

\* A mistake: trigger_is_down is left as it is.
clear_but_trigger(s, allow_reregister) ==
    LET o == s.active_override
        cleared == [s EXCEPT !.active_override = None, !.deferred = None,
                             !.suppressed = {}, !.weak = {}, !.keys = @ \ {o.replacement}]
    IN  IF o = None THEN s
        ELSE IF allow_reregister /\ s.trigger_is_down
            THEN schedule_deferred_register(cleared, o.trigger)
        ELSE cleared

clear_active_override(s, allow_reregister) ==
    LET o == s.active_override
        cleared == [s EXCEPT !.active_override = None, !.trigger_is_down = FALSE,
                             !.deferred = None, !.suppressed = {}, !.weak = {},
                             !.keys = @ \ {o.replacement}]
    IN  IF o = None THEN s
        ELSE IF allow_reregister /\ s.trigger_is_down
            THEN schedule_deferred_register(cleared, o.trigger)
        ELSE cleared

\* The overrides that may activate: the trigger has just been pressed or is the last
\* key that was, and the modifiers fit.
Candidates(s, key, m) ==
    {i \in DOMAIN key_overrides :
        LET o == key_overrides[i]
        IN  /\ o # s.active_override
            /\ matches_active_modifiers(o, m)
            /\ o.trigger \in {key, s.last_key_down}}

\* The rest of try_activating_override: o replaces the active one.  A replacement that
\* a modifier event activates is registered later.
Activate(s, o, is_mod) ==
    LET a == [clear_active_override(s, FALSE) EXCEPT
                  !.active_override = o, !.trigger_is_down = TRUE,
                  !.suppressed = o.trigger_mods, !.keys = @ \ {o.trigger}]
    IN  IF o.replacement = None THEN a
        ELSE IF is_mod
            THEN schedule_deferred_register([a EXCEPT !.weak = o.mods], o.replacement)
        ELSE [a EXCEPT !.weak = o.mods, !.keys = @ \cup {o.replacement}]

\* A mistake: a deferred key survives the release of the last key.
ReleaseKeyDeferred(s, key) ==
    LET r == IF key = s.last_key_down
             THEN [s EXCEPT !.last_key_down = None, !.age = RepeatDelay] ELSE s
    IN  IF r.active_override # None /\ r.active_override.trigger = key
        THEN clear_active_override(r, FALSE) ELSE r

\* process_key_override for each kind of event (enabled).
PressKey(s, key) ==
    LET p == [s EXCEPT !.last_key_down = key, !.age = 0, !.deferred = None]
        C == Candidates(p, key, mods)
    IN  IF C # {} THEN Activate(p, key_overrides[Min(C)], FALSE)
        ELSE clear_active_override(p, FALSE)

ReleaseKey(s, key) ==
    LET r == IF key = s.last_key_down
             THEN [s EXCEPT !.last_key_down = None, !.age = RepeatDelay, !.deferred = None] ELSE s
    IN  IF r.active_override # None /\ r.active_override.trigger = key
        THEN clear_active_override(r, FALSE) ELSE r

\* m are the modifiers with this event.
ChangeMods(s, m) ==
    LET C == Candidates(s, None, m)
    IN  IF C # {} THEN Activate(s, key_overrides[Min(C)], TRUE)
        ELSE IF s.active_override # None /\ ~matches_active_modifiers(s.active_override, m)
            THEN clear_active_override(s, TRUE)
        ELSE s

-----------------------------------------------------------------------------
(* Events.                                                                 *)

\* The press of a key that activates an override is not registered itself.
Press(k) ==
    LET p == PressKey(ko, k)
        sent == ~enabled \/ Candidates([ko EXCEPT !.last_key_down = k], k, mods) = {}
        s == IF enabled THEN p ELSE ko
    IN  /\ k \notin down /\ down' = down \cup {k}
        /\ ko' = IF sent THEN [s EXCEPT !.keys = @ \cup {k}] ELSE s
        /\ UNCHANGED <<mods, key_overrides, enabled, stale, cut>>

\* The release of a key whose keycode is the replacement of another that is held.
Release(k) ==
    LET s == IF enabled THEN ReleaseKey(ko, k) ELSE ko
    IN  /\ k \in down /\ down' = down \ {k}
        /\ ko' = [s EXCEPT !.keys = @ \ {k}]
        /\ cut' = (cut \/ (s.active_override # None /\ s.active_override.replacement = k))
        /\ UNCHANGED <<mods, key_overrides, enabled, stale>>

PressMod(m) ==
    /\ m \notin mods /\ mods' = mods \cup {m}
    /\ ko' = IF enabled THEN ChangeMods(ko, mods \cup {m}) ELSE ko
    /\ UNCHANGED <<down, key_overrides, enabled, stale, cut>>

ReleaseMod(m) ==
    /\ m \in mods /\ mods' = mods \ {m}
    /\ ko' = IF enabled THEN ChangeMods(ko, mods \ {m}) ELSE ko
    /\ UNCHANGED <<down, key_overrides, enabled, stale, cut>>

\* Of its own variables it leaves last_key_down and a deferred key of no override alone.
key_override_off ==
    /\ enabled' = FALSE
    /\ ko' = clear_active_override(ko, FALSE)
    /\ stale' = (stale \/ ko.last_key_down # None)
    /\ UNCHANGED <<down, mods, key_overrides, cut>>

key_override_on ==
    /\ ~enabled /\ enabled' = TRUE
    /\ UNCHANGED <<down, mods, key_overrides, ko, stale, cut>>

\* set_key_override(mode): the active override of the other table stays active.
set_key_override(mode) ==
    /\ key_overrides' = Table[mode] /\ enabled' = TRUE
    /\ UNCHANGED <<down, mods, ko, stale, cut>>

key_override_task ==
    /\ ko.deferred # None /\ ko.left = 0
    /\ ko' = [ko EXCEPT !.keys = @ \cup {ko.deferred}, !.deferred = None]
    /\ UNCHANGED <<down, mods, key_overrides, enabled, stale, cut>>

\* The short delay passes, and no deferred key is overdue.
Tick ==
    /\ ~(ko.deferred # None /\ ko.left = 0)
    /\ ko' = [ko EXCEPT !.age = IF @ < RepeatDelay THEN @ + 1 ELSE @,
                        !.left = IF @ > 0 THEN @ - 1 ELSE @]
    /\ UNCHANGED <<down, mods, key_overrides, enabled, stale, cut>>

Next ==
    \/ \E k \in Keys : Press(k) \/ Release(k)
    \/ \E m \in Mods : PressMod(m) \/ ReleaseMod(m)
    \/ \E mode \in Modes : set_key_override(mode)
    \/ key_override_off \/ key_override_on
    \/ key_override_task \/ Tick

Spec == Init /\ [][Next]_vars

\* The main loop goes on, and time passes.
FairSpec == Spec /\ WF_vars(key_override_task) /\ WF_vars(Tick)

-----------------------------------------------------------------------------
TypeOK ==
    /\ down \subseteq Keys /\ mods \subseteq Mods
    /\ key_overrides \in {<<>>} \cup {Table[m] : m \in Modes}
    /\ {enabled, stale, cut} \subseteq BOOLEAN
    /\ ko \in State
    /\ ko.trigger_is_down <=> ko.active_override # None

\* What the host sees pressed is held down, or replaces a key that is held down; and
\* no key is due to be registered later when all are up.  (Until overrides were turned
\* off with a key down.)
OnlyHeld ==
    ~stale =>
        /\ ko.keys \ down \subseteq
               IF ko.active_override = None THEN {} ELSE {ko.active_override.replacement}
        /\ ko.active_override # None => ko.active_override.trigger \in down
        /\ ko.deferred # None => down # {}

\* The host sees the modifiers that are held as soon as no override is active.
ModsRestored == ko.active_override = None => ko.suppressed = {} /\ ko.weak = {}

\* k, or what stands for it, is in the report.
Shown(k) ==
    \/ k \in ko.keys
    \/ /\ ko.active_override # None /\ ko.active_override.trigger = k
       /\ ko.active_override.replacement \in ko.keys \cup {None}

\* A key that is held down alone, and is the last key pressed, is shown to the host in
\* the end if the modifiers stay as they are, whatever they did before.
HeldIsShown ==
    \A k \in Keys, m \in SUBSET Mods :
        down = {k} /\ ko.last_key_down = k /\ mods = m /\ enabled
            ~> \/ Shown(k) \/ down # {k} \/ ko.last_key_down # k \/ mods # m
               \/ ~enabled \/ stale \/ cut
=============================================================================
