------------------------------ MODULE Tapping -------------------------------
(***************************************************************************)
(* Tap or hold (quantum/action_tapping.c), and the path of a key event     *)
(* through action_exec: the source layer cache, the waiting buffer, and    *)
(* what process_action registers and unregisters.                          *)
(*                                                                         *)
(* keyboard_task calls action_exec with one key event, or with a TICK when *)
(* no key has changed.  A call passes its record to process_tapping, queues*)
(* it if it is refused, and passes the queued records to process_tapping   *)
(* until one is refused.  One action below is one branch of                *)
(* process_tapping.                                                        *)
(*                                                                         *)
(* What a key does on a layer is one output when held (or plainly pressed) *)
(* and one when tapped; the report and the layer state are the set of the  *)
(* outputs that are on.  Times are ages: timer_elapsed at this moment.     *)
(* As configured for this board: TAPPING_TERM_PER_KEY with the same term   *)
(* for each key, PERMISSIVE_HOLD, IGNORE_MOD_TAP_INTERRUPT, COMBO_ENABLE   *)
(* (no combo is defined).                                                  *)
(***************************************************************************)
EXTENDS Integers, Sequences, FiniteSets, FiniteSetsExt

CONSTANTS
  Keys, Layers,   \* Layers is 0..n
  Keymap,         \* Keymap[l][k], an action
  Term,           \* get_tapping_term
  TimerMod,       \* 2^16
  BufferSize,     \* WAITING_BUFFER_SIZE
  MaxTaps,        \* 15
  Gaps,           \* the times that may pass from one call to the next
  None            \* no key, no record, no action (KC_TRNS)

ASSUME TappingAssumption ==
  /\ IsFiniteSet(Layers) /\ Layers # {} /\ Layers = 0..(Cardinality(Layers) - 1)
  /\ None \notin Keys
  /\ {Term, TimerMod, BufferSize, MaxTaps} \subseteq Nat \ {0}
  /\ Term < TimerMod /\ MaxTaps > 1
  /\ Gaps \subseteq 0..(TimerMod - 1)
  /\ \A k \in Keys : Keymap[0][k] # None

VARIABLES
  down,            \* the keys that are down
  tapping_key,     \* a record, or None
  waiting_buffer,  \* the queued records, oldest first
  record,          \* the argument of action_tapping_process
  phase,           \* "idle", "process" (the record), "drain" (the buffer)
  source_layers_cache,
  on,              \* the outputs registered with the host, the layers that are on
  hazards          \* history: what has gone wrong, see Refuse, Struck, Wrapped and RestartTap

vars == <<down, tapping_key, waiting_buffer, record, phase, source_layers_cache, on, hazards>>

-----------------------------------------------------------------------------
Code(c)  == [kind |-> "code", id |-> c]
Mod(m)   == [kind |-> "mod", id |-> m]
Layer(l) == [kind |-> "layer", id |-> l]

Plain(output)      == [taps |-> FALSE, tap |-> output, hold |-> output]
TapHold(tap, hold) == [taps |-> TRUE, tap |-> tap, hold |-> hold]

Actions == {Keymap[l][k] : l \in Layers, k \in Keys} \ {None}
Outputs == {a.tap : a \in Actions} \cup {a.hold : a \in Actions}

Record == [key : Keys \cup {None}, pressed : BOOLEAN, age : 0..(TimerMod - 1),
           count : 0..MaxTaps, interrupted : BOOLEAN]

ASSUME NoneAssumption == None \notin Record

Event(k, p) == [key |-> k, pressed |-> p, age |-> 0, count |-> 0, interrupted |-> FALSE]
TICK == Event(None, FALSE)

\* layer_switch_get_layer: the topmost layer that is on and gives the key an action.
SourceLayer(k) ==
  Max({0} \cup {l \in Layers : Layer(l) \in on /\ Keymap[l][k] # None})

\* layer_switch_get_action
CurrentAction(k) == Keymap[SourceLayer(k)][k]

is_tap_record(r) == r.key # None /\ CurrentAction(r.key).taps

\* A mistake: a release looks at the layers of its own moment.
SourceUncached(r) == SourceLayer(r.key)

\* store_or_get_action: a release acts on the layer of its press.
Source(r) == IF r.pressed THEN SourceLayer(r.key) ELSE source_layers_cache[r.key]

\* process_action, as far as it registers and unregisters.
Output(r) == LET a == Keymap[Source(r)][r.key]
             IN IF a.taps /\ r.count > 0 THEN a.tap ELSE a.hold

\* process_record: what is on and what is cached after it (a TICK changes nothing).
OnAfter(r) == CASE r.key = None -> on
                [] r.pressed -> on \cup {Output(r)}
                [] OTHER -> on \ {Output(r)}

CacheAfter(r) == IF r.pressed THEN [source_layers_cache EXCEPT ![r.key] = Source(r)]
                 ELSE source_layers_cache

process_record(r) == on' = OnAfter(r) /\ source_layers_cache' = CacheAfter(r)

Nothing == UNCHANGED <<on, source_layers_cache>>

-----------------------------------------------------------------------------
(* The state of process_tapping.                                            *)

e == IF phase = "process" THEN record ELSE Head(waiting_buffer)

Active    == phase = "process" \/ (phase = "drain" /\ waiting_buffer # <<>>)
Pressed   == Active /\ tapping_key # None /\ tapping_key.pressed
Released  == Active /\ tapping_key # None /\ ~tapping_key.pressed
IsTapping == e.key = tapping_key.key

\* A mistake: the time is taken from the event, not from the tapping key.
WithinOwn(t, r) == r.age < Term

\* WITHIN_TAPPING_TERM, for the tapping key t.
Within(t, r) == (t.age - r.age) % TimerMod < Term

Undecided == Pressed /\ Within(tapping_key, e) /\ tapping_key.count = 0
Tapped    == Pressed /\ tapping_key.count > 0

\* waiting_buffer_typed; while the buffer is drained, its head is the event itself.
Typed(r) ==
  \E i \in DOMAIN waiting_buffer :
     waiting_buffer[i].key = r.key /\ waiting_buffer[i].pressed # r.pressed

\* process_tapping returns true: the record is done with, the buffer being buf.
Consume(buf) ==
  /\ waiting_buffer' = IF phase = "process" THEN buf ELSE Tail(buf)
  /\ phase' = "drain" /\ record' = TICK

Done(buf) == Consume(buf) /\ UNCHANGED hazards

\* A mistake: a ring of BufferSize is full only when it holds so many.
OverflowLate(r) == phase = "process" /\ r.key # None /\ Len(waiting_buffer) = BufferSize

\* waiting_buffer_enq
Overflow(r) == phase = "process" /\ r.key # None /\ Len(waiting_buffer) = BufferSize - 1

\* It returns false, having processed p and with the tapping key t: queue the record
\* r, or leave it at the head of the buffer.  If the buffer is full, clear_keyboard
\* releases all codes and modifiers, and all that waits is forgotten.
Refuse(r, p, t) ==
  /\ source_layers_cache' = CacheAfter(p)
  /\ on' = {o \in OnAfter(p) : Overflow(r) => o.kind = "layer"}
  /\ tapping_key' = IF Overflow(r) THEN None ELSE t
  /\ waiting_buffer' = CASE phase = "drain" -> [waiting_buffer EXCEPT ![1] = r]
                         [] Overflow(r) -> <<>>
                         [] phase = "process" /\ r.key = None -> waiting_buffer
                         [] OTHER -> Append(waiting_buffer, r)
  /\ phase' = IF phase = "process" THEN "drain" ELSE "idle"
  /\ record' = TICK
  /\ hazards' = hazards \cup {h \in {"overflow"} : Overflow(r)}

-----------------------------------------------------------------------------
Init ==
  /\ down = {} /\ tapping_key = None /\ waiting_buffer = <<>> /\ record = TICK
  /\ phase = "idle" /\ on = {} /\ hazards = {}
  /\ source_layers_cache = [k \in Keys |-> 0]

Older(r, dt) == [r EXCEPT !.age = (@ + dt) % TimerMod]

\* dt passes until the next call.
Pass(dt) ==
  /\ waiting_buffer' = [i \in DOMAIN waiting_buffer |-> Older(waiting_buffer[i], dt)]
  /\ tapping_key' = IF tapping_key = None THEN None ELSE Older(tapping_key, dt)

\* pre_process_record_quantum looks up the keycode for the combos, which stores
\* the layer of a press before the press is processed.
preprocess(k) ==
  source_layers_cache' = IF k \in down THEN source_layers_cache
                         ELSE [source_layers_cache EXCEPT ![k] = SourceLayer(k)]

\* History: what waits is older than the timer can tell.
Wrapped(dt) ==
  {h \in {"wrapped"} :
     \/ \E i \in DOMAIN waiting_buffer : waiting_buffer[i].age + dt >= TimerMod
     \/ /\ tapping_key # None /\ tapping_key.pressed /\ tapping_key.count = 0
        /\ tapping_key.age + dt >= TimerMod}

\* History, for the arrival of an event of k: it is processed before the events a
\* decision has left in the buffer; the cache loses the layer that the waiting
\* release of the key needs.
Struck(k) ==
  {h \in {"overtaking"} : tapping_key = None /\ waiting_buffer # <<>>}
  \cup {h \in {"recached"} :
          /\ k \notin down /\ source_layers_cache[k] # SourceLayer(k)
          /\ \E i \in DOMAIN waiting_buffer : waiting_buffer[i].key = k}

\* action_exec with the press or the release of k.
KeyEvent(k, dt) ==
  /\ phase = "idle"
  /\ down' = IF k \in down THEN down \ {k} ELSE down \cup {k}
  /\ record' = Event(k, k \notin down)
  /\ preprocess(k)
  /\ Pass(dt) /\ hazards' = hazards \cup Struck(k) \cup Wrapped(dt)
  /\ phase' = "process"
  /\ UNCHANGED on

Tick(dt) ==
  /\ phase = "idle"
  /\ record' = TICK
  /\ Pass(dt) /\ hazards' = hazards \cup Wrapped(dt)
  /\ phase' = "process"
  /\ UNCHANGED <<down, source_layers_cache, on>>

\* The buffer is empty: the call returns.
Return ==
  /\ phase = "drain" /\ waiting_buffer = <<>>
  /\ phase' = "idle"
  /\ UNCHANGED <<down, tapping_key, waiting_buffer, record, source_layers_cache, on, hazards>>

-----------------------------------------------------------------------------
(* The tapping key is down, within its term, and not decided.               *)

ReleasesTap == IsTapping /\ ~e.pressed

\* The tapping key is released: a tap.  The release is refused, and will find
\* that the press has been processed.
FirstTap ==
  /\ Undecided /\ ReleasesTap
  /\ LET tap == [tapping_key EXCEPT !.count = 1]
     IN Refuse([e EXCEPT !.count = 1, !.interrupted = tap.interrupted], tap, tap)
  /\ UNCHANGED down

IsRelease == e.key # None /\ ~e.pressed

\* PERMISSIVE_HOLD: another key has been pressed and released meanwhile: a hold.
PermissiveHold ==
  /\ Undecided /\ ~ReleasesTap /\ IsRelease /\ Typed(e)
  /\ Refuse(e, tapping_key, None)
  /\ UNCHANGED down

\* The release of a modifier waits with the tapping key.
Retained(r) ==
  LET a == CurrentAction(r.key) IN a.hold.kind = "mod" /\ (a.taps => r.count = 0)

\* A key that was down before the tapping key is released.
EarlierRelease ==
  /\ Undecided /\ ~ReleasesTap /\ IsRelease /\ ~Typed(e)
  /\ \/ Retained(e) /\ Refuse(e, TICK, tapping_key)
     \/ ~Retained(e) /\ process_record(e) /\ Done(waiting_buffer) /\ UNCHANGED tapping_key
  /\ UNCHANGED down

\* A mistake: only the presses of tap keys wait.
WaitTapKeys ==
  /\ Undecided /\ ~IsRelease
  /\ IF e.pressed /\ ~is_tap_record(e)
     THEN process_record(e) /\ Done(waiting_buffer) /\ UNCHANGED tapping_key
     ELSE Refuse(e, TICK, [tapping_key EXCEPT !.interrupted = @ \/ e.pressed])
  /\ UNCHANGED down

\* Another key is pressed, or nothing happened: wait.
Wait ==
  /\ Undecided /\ ~IsRelease
  /\ Refuse(e, TICK, [tapping_key EXCEPT !.interrupted = @ \/ e.pressed])
  /\ UNCHANGED down

-----------------------------------------------------------------------------
(* The tapping key is down and has been tapped: auto-repeat.                *)

\* The end of the tap: within the term, it may be followed by another.
TapRelease ==
  /\ Tapped /\ ReleasesTap
  /\ LET r == [e EXCEPT !.count = tapping_key.count, !.interrupted = tapping_key.interrupted]
     IN /\ process_record(r)
        /\ tapping_key' = IF Within(tapping_key, e) THEN r ELSE None
  /\ Done(waiting_buffer)
  /\ UNCHANGED down

\* waiting_buffer_scan_tap, for the new tapping key t: it has been tapped if its
\* release is waiting; then its press is processed now.
Taps(t) ==
  {i \in DOMAIN waiting_buffer :
     /\ waiting_buffer[i].key = t.key /\ ~waiting_buffer[i].pressed
     /\ Within(t, waiting_buffer[i])}

\* The tap key of t is pressed, with o being on.
StartTap(t, o) ==
  LET tap == [t EXCEPT !.count = 1]
  IN IF Taps(t) = {}
     THEN /\ tapping_key' = t /\ on' = o
          /\ Done(waiting_buffer)
          /\ UNCHANGED source_layers_cache
     ELSE /\ tapping_key' = tap /\ on' = o \cup {Output(tap)}
          /\ Done([waiting_buffer EXCEPT ![Min(Taps(t))].count = 1])
          /\ source_layers_cache' = CacheAfter(tap)

StartsTap == e.pressed /\ is_tap_record(e)

\* Another tap key is pressed; after several taps the last one is released first (a
\* tap is no layer: it does not change where the new key is looked up).
NewTap ==
  /\ Tapped /\ ~ReleasesTap /\ StartsTap
  /\ StartTap(e, IF tapping_key.count = 1 THEN on
                 ELSE OnAfter([tapping_key EXCEPT !.pressed = FALSE]))
  /\ UNCHANGED down

OtherDuringTap ==
  /\ Tapped /\ ~ReleasesTap /\ ~StartsTap
  /\ process_record(e)
  /\ Done(waiting_buffer)
  /\ UNCHANGED <<down, tapping_key>>

\* The term is over without a tap: a hold.
HoldTimeout ==
  /\ Pressed /\ ~Within(tapping_key, e) /\ tapping_key.count = 0
  /\ Refuse(e, tapping_key, None)
  /\ UNCHANGED down

-----------------------------------------------------------------------------
(* The tapping key has been released.                                       *)

\* Pressed again within the term.
Again == Released /\ Within(tapping_key, e) /\ e.pressed /\ IsTapping

\* One tap more, unless another key came between.
Repeats == ~tapping_key.interrupted /\ tapping_key.count > 0

SequentialTap ==
  /\ Again /\ Repeats
  /\ LET r == [e EXCEPT !.count = IF tapping_key.count < MaxTaps
                                 THEN tapping_key.count + 1 ELSE tapping_key.count,
                       !.interrupted = tapping_key.interrupted]
     IN process_record(r) /\ tapping_key' = r
  /\ Done(waiting_buffer)
  /\ UNCHANGED down

\* "start new tap again", without a look at the buffer.  History: the release that
\* makes it a tap is waiting there.
RestartTap ==
  /\ Again /\ ~Repeats
  /\ tapping_key' = e /\ Nothing
  /\ Consume(waiting_buffer)
  /\ hazards' = hazards \cup {h \in {"unscanned"} : Taps(e) # {}}
  /\ UNCHANGED down

OtherTapAfter ==
  /\ Released /\ Within(tapping_key, e) /\ ~IsTapping /\ StartsTap
  /\ StartTap(e, on)
  /\ UNCHANGED down

OtherAfter ==
  /\ Released /\ Within(tapping_key, e) /\ ~(e.pressed /\ IsTapping) /\ ~StartsTap
  /\ tapping_key' = [tapping_key EXCEPT !.interrupted = @ \/ e.pressed]
  /\ process_record(e)
  /\ Done(waiting_buffer)
  /\ UNCHANGED down

AfterTimeout ==
  /\ Released /\ ~Within(tapping_key, e)
  /\ Refuse(e, TICK, None)
  /\ UNCHANGED down

-----------------------------------------------------------------------------
NoTap ==
  /\ Active /\ tapping_key = None
  /\ \/ StartsTap /\ StartTap(e, on)
     \/ ~StartsTap /\ process_record(e) /\ Done(waiting_buffer) /\ UNCHANGED tapping_key
  /\ UNCHANGED down

process_tapping ==
  \/ FirstTap \/ PermissiveHold \/ EarlierRelease \/ Wait
  \/ TapRelease \/ NewTap \/ OtherDuringTap \/ HoldTimeout
  \/ SequentialTap \/ RestartTap \/ OtherTapAfter \/ OtherAfter \/ AfterTimeout
  \/ NoTap \/ Return

Next ==
  \/ \E k \in Keys, dt \in Gaps : KeyEvent(k, dt)
  \/ \E dt \in Gaps : Tick(dt)
  \/ process_tapping

Spec == Init /\ [][Next]_vars

\* The main loop does not stop, and time passes in it.  No key need be pressed.
FairSpec ==
  /\ Spec
  /\ WF_vars(process_tapping)
  /\ SF_vars(\E dt \in Gaps \ {0} : Tick(dt))

-----------------------------------------------------------------------------
(* Properties.                                                              *)

TypeOK ==
  /\ down \subseteq Keys
  /\ tapping_key \in Record \cup {None}
  /\ waiting_buffer \in Seq(Record) /\ Len(waiting_buffer) < BufferSize
  /\ record \in Record /\ phase \in {"idle", "process", "drain"}
  /\ source_layers_cache \in [Keys -> Layers]
  /\ on \subseteq Outputs /\ hazards \subseteq 
       {"recached", "overflow", "overtaking", "wrapped", "unscanned"}

\* All keys are up and nothing waits.
Rest == phase = "idle" /\ down = {} /\ waiting_buffer = <<>>

\* At rest no code, no modifier and no layer is left on, whatever was tapped, held,
\* rolled over or decided late, unless one of the hazards has struck.
NothingStuck == Rest /\ hazards = {} => on = {}

\* The event of the call is done with, not queued.
Acted == phase = "process" /\ phase' = "drain" /\ Len(waiting_buffer') <= Len(waiting_buffer)

\* A press is not acted on while an earlier press waits.
InOrder ==
  [][Acted /\ record.pressed /\ hazards' \subseteq {"recached"}
       => \A i \in DOMAIN waiting_buffer : ~waiting_buffer[i].pressed]_vars

\* When no more keys are pressed or released, every tap key is decided and every
\* event that waited for it is acted on, by the time that passes alone.
Settles ==
  \/ []<><<\E k \in Keys, dt \in Gaps : KeyEvent(k, dt)>>_vars
  \/ []<>(/\ waiting_buffer = <<>>
          /\ tapping_key # None => ~tapping_key.pressed \/ tapping_key.count > 0)
=============================================================================
