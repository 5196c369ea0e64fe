--------------------------- MODULE DefaultKeymap ---------------------------
(***************************************************************************)
(* What the board and its default keymap do with the records of keys and    *)
(* of the mouse's wheel: modifiers that a wheel action leaves on for a while *)
(* (main.c), buttons clicked by tapping a layer-tap key, and the mouse       *)
(* report (keymap.c, keyboard_quantizer.c).                                  *)
(*                                                                           *)
(* One round of keyboard_task: the hook of a mouse report, matrix_scan_kb,   *)
(* one key event or TICK, pointing_device_task.  There is one layer-tap key. *)
(* While it is undecided other events wait for it (module Tapping has the    *)
(* times); a turn of the wheel may decide it, and what waited is then        *)
(* processed inside the wheel action.  What waits is looked at from its      *)
(* oldest event again after each event, and may be left there by a decision: *)
(* the next event is then processed before it.                               *)
(***************************************************************************)
EXTENDS Integers, Sequences, SequencesExt, FiniteSets

CONSTANTS
    Modifiers,      \* what the report can show of modifiers
    Keys,           \* keys other than the layer-tap key
    Wheels,         \* keys the wheel is turned into
    Buttons,        \* those Keys that are mouse buttons
    TapButton,      \* the button the layer-tap key stands for
    Ordinary,       \* keys whose basic keycode is neither a modifier nor KC_NO
    Code(_),        \* the modifiers among the basic keycode of a key
    Mods(_),        \* the modifiers, of the left hand, that a QK_MODS keycode adds to it
    Timeout,        \* ENCODER_MODIFIER_TIMEOUT_MS, in ticks of the model
    MaxDelay,       \* ... the longest round
    MaxWaiting      \* bound: events that wait

ASSUME KeymapAssumption ==
    /\ Timeout \in Nat /\ MaxDelay \in Nat \ {0} /\ MaxWaiting \in Nat
    /\ Buttons \subseteq Keys /\ TapButton \in Buttons /\ Wheels \cap Keys = {}
    /\ \A k \in Keys \cup Wheels :
          Code(k) \subseteq Modifiers /\ Mods(k) \subseteq Modifiers
    /\ \A k \in Ordinary : Code(k) = {}
    /\ Buttons \subseteq Ordinary /\ \A k \in Buttons : Mods(k) = {}

VARIABLES
    pc,
    down,               \* keys that are held
    lt,                 \* is the layer-tap key held
    tapping,            \* "none", "undecided", "tapped" or "again" (tapped, and held since)
    interrupted,        \* tap.interrupted
    waiting,            \* the events that wait for the layer-tap key
    report,             \* what records change, see Init
    shown,              \* the buttons in the last mouse report given to the USB driver
    overtaken           \* history: keys released, by records, before their waiting press

vars == <<pc, down, lt, tapping, interrupted, waiting, report, shown, overtaken>>

Init ==
    /\ pc = "custom" /\ down = {} /\ lt = FALSE
    /\ tapping = "none" /\ interrupted = FALSE /\ waiting = <<>>
    /\ report = [mods |-> {}, encoder_modifier |-> {}, elapsed |-> 0, buttons |-> {},
                 btn_release_flag |-> {}, mouse_send_flag |-> FALSE, cut |-> {}]
    /\ shown = {} /\ overtaken = {}

-----------------------------------------------------------------------------
(* Records.                                                                *)

Press(k)   == [key |-> k, pressed |-> TRUE]
Release(k) == [key |-> k, pressed |-> FALSE]

\* process_record_kb first lets go of the modifier, unless in a wheel action.
EndEncoder(r) ==
    [r EXCEPT !.mods = @ \ r.encoder_modifier, !.encoder_modifier = {}, !.elapsed = 0,
              !.cut = @ \ r.encoder_modifier]

\* A mistake: the modifier of the wheel action before stays.
EncoderPressAdds(r, k) ==
    [r EXCEPT !.mods = @ \cup Mods(k) \cup Code(k), !.encoder_modifier = Mods(k), !.elapsed = 0]

\* A QK_MODS keycode in a wheel action.
EncoderPress(r, k) ==
    LET mods == IF Mods(k) = r.encoder_modifier THEN r.mods
                ELSE (r.mods \ r.encoder_modifier) \cup Mods(k)
    IN  [r EXCEPT !.mods = mods \cup Code(k), !.encoder_modifier = Mods(k), !.elapsed = 0]

\* cut records that the modifier was pressed by an ordinary record.
EncoderRelease(r, k) ==
    [r EXCEPT !.mods = @ \ Code(k), !.cut = IF k \in Keys THEN @ \cup Mods(k) ELSE @]

\* process_action.  Modifiers that go with an ordinary keycode are weak: they are out
\* of sight here, they come and go with the key.  With a modifier, or with KC_NO as in
\* KC_MEH, they are held like modifiers of their own.
Held(k) == IF k \in Ordinary THEN {} ELSE Code(k) \cup Mods(k)

process_action(r, e) ==
    LET b == {e.key} \cap Buttons
    IN  IF e.pressed
        THEN [r EXCEPT !.mods = @ \cup Held(e.key), !.buttons = @ \cup b,
                       !.mouse_send_flag = @ \/ b # {}]
        ELSE [r EXCEPT !.mods = @ \ Held(e.key), !.cut = @ \ Held(e.key),
                       !.buttons = @ \ b, !.mouse_send_flag = @ \/ b # {}]

process_record(r, e, is_encoder_action) ==
    IF ~is_encoder_action THEN process_action(EndEncoder(r), e)
    ELSE IF Mods(e.key) = {} THEN process_action(r, e)
    ELSE IF e.pressed THEN EncoderPress(r, e.key) ELSE EncoderRelease(r, e.key)

Processed(r, events, is_encoder_action) ==
    LET after[i \in 0..Len(events)] ==
            IF i = 0 THEN r ELSE process_record(after[i - 1], events[i], is_encoder_action)
    IN  after[Len(events)]

\* process_record_user for the layer-tap key when it was tapped.
Click(r) ==
    [EndEncoder(r) EXCEPT !.buttons = @ \cup {TapButton}, !.mouse_send_flag = TRUE,
                          !.btn_release_flag = @ \cup {TapButton}]

-----------------------------------------------------------------------------
(* matrix_scan_custom: a mouse report, or none.                            *)

NoReport ==
    /\ pc = "custom" /\ pc' = "kb"
    /\ UNCHANGED <<down, lt, tapping, interrupted, waiting, report, shown, overtaken>>

Move ==
    /\ pc = "custom" /\ pc' = "kb"
    /\ report' = [report EXCEPT !.mouse_send_flag = TRUE]
    /\ UNCHANGED <<down, lt, tapping, interrupted, waiting, shown, overtaken>>

\* The release of the wheel's key decides the layer-tap key (PERMISSIVE_HOLD).  What
\* an earlier decision has left is processed behind the press.
Wheel(w) ==
    /\ pc = "custom" /\ pc' = "kb"
    /\ LET events == IF tapping = "undecided" THEN waiting \o <<Press(w), Release(w)>>
                     ELSE <<Press(w)>> \o waiting \o <<Release(w)>>
       IN  report' = [Processed(report, events, TRUE) EXCEPT !.mouse_send_flag = TRUE]
    /\ waiting' = <<>>
    /\ tapping' = IF tapping = "undecided" THEN "none" ELSE tapping
    /\ interrupted' = (interrupted \/ tapping = "tapped")
    /\ UNCHANGED <<down, lt, shown, overtaken>>

-----------------------------------------------------------------------------
(* matrix_scan_kb.                                                         *)

\* A mistake: the time is measured from the last scan.
TimedOutScan(r) ==
    IF r.elapsed > Timeout THEN EndEncoder(r) ELSE [r EXCEPT !.elapsed = 0]

\* A mistake: the time is compared exactly.
TimedOutExact(r) ==
    IF r.encoder_modifier # {} /\ r.elapsed = Timeout THEN EndEncoder(r) ELSE r

TimedOut(r) ==
    IF r.encoder_modifier # {} /\ r.elapsed > Timeout THEN EndEncoder(r) ELSE r

\* A mistake: the report is changed and not sent.
Unclick(r) ==
    [r EXCEPT !.buttons = @ \ r.btn_release_flag, !.btn_release_flag = {}]

matrix_scan_user(r) ==
    [r EXCEPT !.buttons = @ \ r.btn_release_flag, !.btn_release_flag = {},
              !.mouse_send_flag = @ \/ r.btn_release_flag # {}]

matrix_scan_kb ==
    /\ pc = "kb" /\ pc' = "key"
    /\ report' = matrix_scan_user(TimedOut(report))
    /\ UNCHANGED <<down, lt, tapping, interrupted, waiting, shown, overtaken>>

-----------------------------------------------------------------------------
(* A key event or TICK.                                                    *)

\* What a decision has left waiting is processed.
Tick ==
    /\ pc = "key" /\ pc' = "send"
    /\ IF tapping = "undecided" THEN UNCHANGED <<waiting, report>>
       ELSE waiting' = <<>> /\ report' = Processed(report, waiting, FALSE)
    /\ UNCHANGED <<down, lt, tapping, interrupted, shown, overtaken>>

\* TICK, and the tapping term is over.
TermEnds ==
    /\ pc = "key" /\ pc' = "send"
    /\ tapping \in {"undecided", "tapped"} /\ tapping' = "none"
    /\ report' = Processed(IF tapping = "undecided" THEN EndEncoder(report) ELSE report,
                           waiting, FALSE)
    /\ waiting' = <<>>
    /\ UNCHANGED <<down, lt, interrupted, shown, overtaken>>

\* Releases that wait: of modifiers pressed before the layer-tap key.
Retained(k) == Held(k) # {}

\* The oldest event is the release of a key that has been pressed again.
FrontTyped(q) == q # <<>> /\ ~Head(q).pressed /\ Press(Head(q).key) \in ToSet(q)

\* The layer-tap key is undecided and q waits for it; looked at again, an oldest release
\* that counts as typed decides for the hold, and is left there with the rest.
Wait(q) ==
    /\ waiting' = q
    /\ IF FrontTyped(q) THEN tapping' = "none" /\ report' = EndEncoder(report)
       ELSE tapping' = "undecided" /\ UNCHANGED report

\* The event decides for the hold: what waits is processed, and then the event.
Decide(e) ==
    /\ tapping = "undecided" /\ tapping' = "none"
    /\ report' = Processed(EndEncoder(report), Append(waiting, e), FALSE)
    /\ waiting' = <<>>

\* Nothing is undecided: the event is processed, and then what a decision has left.
Act(e) ==
    /\ tapping # "undecided" /\ UNCHANGED tapping
    /\ report' = Processed(report, <<e>> \o waiting, FALSE)
    /\ waiting' = <<>>

\* While the key is undecided a press waits, or the tapping term is over just now.
KeyPress(k) ==
    /\ pc = "key" /\ pc' = "send"
    /\ k \notin down /\ down' = down \cup {k} /\ overtaken' = overtaken \ {k}
    /\ interrupted' = (interrupted \/ tapping \in {"undecided", "tapped"})
    /\ \/ /\ tapping = "undecided" /\ Len(waiting) < MaxWaiting
          /\ Wait(Append(waiting, Press(k)))
       \/ Decide(Press(k))
       \/ Act(Press(k))
    /\ UNCHANGED <<lt, shown>>

\* A release decides when its press waits, or when the term is over just now.
KeyRelease(k) ==
    /\ pc = "key" /\ pc' = "send"
    /\ k \in down /\ down' = down \ {k}
    /\ overtaken' = overtaken \cup
          {x \in {k} : tapping # "undecided" /\ Press(k) \in ToSet(waiting)}
    /\ \/ Decide(Release(k))
       \/ Act(Release(k))
       \/ /\ tapping = "undecided" /\ Press(k) \notin ToSet(waiting) /\ Retained(k)
          /\ Len(waiting) < MaxWaiting /\ Wait(Append(waiting, Release(k)))
       \/ /\ tapping = "undecided" /\ Press(k) \notin ToSet(waiting) /\ ~Retained(k)
          /\ report' = process_record(report, Release(k), FALSE)
          /\ UNCHANGED <<tapping, waiting>>
    /\ UNCHANGED <<lt, interrupted, shown>>

\* A tap that follows a tap is known at once.
TapPress ==
    /\ pc = "key" /\ pc' = "send"
    /\ ~lt /\ lt' = TRUE
    /\ IF tapping = "tapped" /\ ~interrupted
       THEN tapping' = "again" /\ report' = Click(report) /\ UNCHANGED waiting
       ELSE Wait(waiting)
    /\ interrupted' = FALSE
    /\ UNCHANGED <<down, shown, overtaken>>

\* An undecided key was tapped, or its term is over just now.
TapRelease ==
    /\ pc = "key" /\ pc' = "send"
    /\ lt /\ lt' = FALSE
    /\ \/ /\ tapping = "undecided" /\ tapping' = "tapped"
          /\ LET tap(r) == IF interrupted THEN EndEncoder(r) ELSE Click(r)
             IN  report' = tap(Processed(tap(report), waiting, FALSE))
       \/ /\ tapping = "undecided" /\ tapping' = "none"
          /\ report' = EndEncoder(Processed(EndEncoder(report), waiting, FALSE))
       \/ /\ tapping = "again" /\ tapping' \in {"tapped", "none"}
          /\ report' = Processed(Click(report), waiting, FALSE)
       \/ /\ tapping \notin {"undecided", "again"} /\ UNCHANGED tapping
          /\ report' = Processed(EndEncoder(report), waiting, FALSE)
    /\ waiting' = <<>>
    /\ UNCHANGED <<down, interrupted, shown, overtaken>>

-----------------------------------------------------------------------------
pointing_device_task(delay) ==
    /\ pc = "send" /\ pc' = "custom"
    /\ shown' = IF report.mouse_send_flag THEN report.buttons ELSE shown
    /\ report' = [report EXCEPT !.mouse_send_flag = FALSE,
                    !.elapsed = IF report.encoder_modifier = {} THEN 0 ELSE @ + delay]
    /\ UNCHANGED <<down, lt, tapping, interrupted, waiting, overtaken>>

Turns == \E w \in Wheels : Wheel(w)

Next ==
    \/ NoReport \/ Move \/ Turns
    \/ matrix_scan_kb
    \/ Tick \/ TermEnds \/ TapPress \/ TapRelease
    \/ \E k \in Keys : KeyPress(k) \/ KeyRelease(k)
    \/ \E delay \in 0..MaxDelay : pointing_device_task(delay)

\* keyboard_task is called again and again, and time passes.
Fairness ==
    /\ WF_vars(Next)
    /\ SF_vars(\E delay \in 1..MaxDelay : pointing_device_task(delay))

Spec == Init /\ [][Next]_vars /\ Fairness

-----------------------------------------------------------------------------
TypeOK ==
    /\ pc \in {"custom", "kb", "key", "send"}
    /\ down \subseteq Keys /\ {lt, interrupted} \subseteq BOOLEAN
    /\ tapping \in {"none", "undecided", "tapped", "again"}
    /\ waiting \in Seq([key : Keys, pressed : BOOLEAN]) /\ Len(waiting) <= MaxWaiting
    /\ report \in [mods : SUBSET Modifiers, encoder_modifier : SUBSET Modifiers,
                   elapsed : 0..(Timeout + MaxDelay), buttons : SUBSET Buttons,
                   btn_release_flag : SUBSET Buttons, mouse_send_flag : BOOLEAN,
                   cut : SUBSET Modifiers]
    /\ shown \subseteq Buttons /\ overtaken \subseteq Keys

\* No modifier is stuck: one the report shows is that of a key that is held or whose
\* release still waits, or of a wheel action that is not over.  Two faults of the code
\* are excepted: a modifier whose release was taken for a part of a wheel action (cut),
\* and a key whose release overtook its press.
ModsAccounted ==
    LET keys == down \cup {e.key : e \in ToSet(waiting)} \cup overtaken
    IN  report.mods \subseteq
            (UNION {Held(k) : k \in keys}) \cup report.encoder_modifier \cup report.cut

\* Before each scan the USB driver has been given the buttons as they are, and they are
\* what is held: a button in them is held, or its click ends with this scan, or its
\* release overtook its press; and one that is held is in them, unless its press waits,
\* or it is the layer-tap key's own, whose click ends both.  It does not say that the
\* host sees each click: one whose press and release are processed in one call is never
\* sent, and the driver may drop a report (iusb.c).
ButtonsFollow ==
    pc = "custom" =>
        /\ shown = report.buttons
        /\ report.btn_release_flag \subseteq shown
        /\ shown \subseteq down \cup report.btn_release_flag \cup overtaken
        /\ \A k \in (down \cap Buttons) \ {TapButton} : k \in shown \/ Press(k) \in ToSet(waiting)

\* "preventing stuck encoder-action modifiers" (main.c:588): when the wheel rests the
\* modifier goes, also when no other key is pressed.
EncoderReleased == []<>(report.encoder_modifier = {}) \/ []<><<Turns>>_vars
=============================================================================
