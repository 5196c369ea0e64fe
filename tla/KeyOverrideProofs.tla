------------------------- MODULE KeyOverrideProofs -------------------------
(***************************************************************************)
(* Proofs about key overrides, for any keys, modifiers and tables.         *)
(* Trail is what the safety of a deferred registration rests on: whatever  *)
(* is active or deferred belongs to the key that was pressed last, and     *)
(* that key is still held.                                                 *)
(***************************************************************************)
EXTENDS KeyOverride, TLAPS, WellFoundedInduction

-----------------------------------------------------------------------------
(* The first of the candidates.                                            *)

\* A set of positions of the table that is not empty has a first one, which is the
\* one that try_activating_override takes.
LEMMA FirstCandidate ==
    ASSUME NEW C \in SUBSET Nat, C # {}
    PROVE  Min(C) \in C
<1>1. PICK x \in C : \A y \in C : <<y, x>> \notin OpToRel(<, Nat)
  BY NatLessThanWellFounded, WFMin
<1>2. \A y \in C : ~ (y < x)
  BY <1>1, Zenon DEF OpToRel
<1>3. \E z \in C : \A y \in C : z <= y
  BY <1>2
<1> QED
  BY <1>3 DEF Min

\* The candidate that is taken is an override, of the key or of the last one.
LEMMA CandidateIsOverride ==
    ASSUME NEW s, NEW key, NEW m,
           key_overrides \in {<<>>} \cup {Table[mode] : mode \in Modes},
           Candidates(s, key, m) # {}
    PROVE  LET o == key_overrides[Min(Candidates(s, key, m))]
           IN  /\ o \in Override
               /\ o.trigger \in {key, s.last_key_down}
<1> DEFINE C == Candidates(s, key, m)
<1>1. key_overrides \in Seq(Override)
  <2>1. CASE key_overrides = <<>>
    BY <2>1
  <2>2. CASE key_overrides \in {Table[mode] : mode \in Modes}
    BY <2>2, OverrideAssumption
  <2> QED
    BY <2>1, <2>2
<1>2. C \subseteq DOMAIN key_overrides /\ DOMAIN key_overrides \subseteq Nat
  BY <1>1 DEF Candidates
<1>3. Min(C) \in C
  BY <1>2, FirstCandidate
<1>4. key_overrides[Min(C)] \in Override
  BY <1>1, <1>2, <1>3
<1> QED
  BY <1>3, <1>4 DEF Candidates

-----------------------------------------------------------------------------
(* What the parts of process_key_override do to a state.                   *)

Typed(s) == s \in State /\ (s.trigger_is_down <=> s.active_override # None)

\* schedule_deferred_register sets the deferred key and a delay within its bounds.
LEMMA ScheduleEffect ==
    ASSUME NEW s \in State, NEW key \in Keys
    PROVE  LET r == schedule_deferred_register(s, key)
           IN  /\ r \in State /\ r.deferred = key
               /\ r.active_override = s.active_override
               /\ r.trigger_is_down = s.trigger_is_down
               /\ r.last_key_down = s.last_key_down /\ r.keys = s.keys
               /\ r.suppressed = s.suppressed /\ r.weak = s.weak
<1> DEFINE left == IF s.age < RepeatDelay THEN RepeatDelay - s.age ELSE ShortDelay
<1>1. left \in 0 .. RepeatDelay
  BY OverrideAssumption DEF State, ShortDelay
<1> HIDE DEF left
<1>2. schedule_deferred_register(s, key) = [s EXCEPT !.deferred = key, !.left = left]
  BY DEF schedule_deferred_register, left
<1> QED
  BY <1>1, <1>2 DEF State

\* clear_active_override leaves no override active, gives back the modifiers and takes
\* the replacement out of the report; only the trigger of the one that was active can
\* be deferred by it.
LEMMA ClearEffect ==
    ASSUME NEW s, Typed(s), NEW again \in BOOLEAN
    PROVE  LET r == clear_active_override(s, again)
               o == s.active_override
           IN  /\ Typed(r) /\ r.active_override = None
               /\ r.last_key_down = s.last_key_down
               /\ o = None => r = s
               /\ o # None =>
                    /\ r.suppressed = {} /\ r.weak = {} /\ r.keys = s.keys \ {o.replacement}
                    /\ r.deferred \in {None} \cup (IF again THEN {o.trigger} ELSE {})
<1> DEFINE o == s.active_override
           cleared == [s EXCEPT !.active_override = None, !.trigger_is_down = FALSE,
                             !.deferred = None, !.suppressed = {}, !.weak = {},
                             !.keys = @ \ {o.replacement}]
<1>1. CASE o = None
  BY <1>1 DEF clear_active_override, Typed
<1>2. CASE o # None
  <2>1. o \in Override /\ o.trigger \in Keys
    BY <1>2 DEF Typed, State, Override
  <2>2. /\ cleared \in State /\ cleared.active_override = None
        /\ cleared.trigger_is_down = FALSE /\ cleared.deferred = None
        /\ cleared.last_key_down = s.last_key_down
        /\ cleared.suppressed = {} /\ cleared.weak = {}
        /\ cleared.keys = s.keys \ {o.replacement}
    BY DEF Typed, State
  <2>3. clear_active_override(s, again) \in
            {cleared} \cup (IF again THEN {schedule_deferred_register(cleared, o.trigger)} ELSE {})
    BY <1>2 DEF clear_active_override
  <2>4. CASE clear_active_override(s, again) = cleared
    BY <1>2, <2>2, <2>4 DEF Typed
  <2>5. CASE again /\ clear_active_override(s, again) = schedule_deferred_register(cleared, o.trigger)
    <3> DEFINE r == schedule_deferred_register(cleared, o.trigger)
    <3>1. /\ r \in State /\ r.deferred = o.trigger
          /\ r.active_override = None /\ r.trigger_is_down = FALSE
          /\ r.last_key_down = s.last_key_down /\ r.keys = s.keys \ {o.replacement}
          /\ r.suppressed = {} /\ r.weak = {}
      <4> HIDE DEF cleared
      <4> QED
        BY <2>1, <2>2, ScheduleEffect
    <3> HIDE DEF r
    <3> QED
      BY <1>2, <2>5, <3>1 DEF Typed, r
  <2> HIDE DEF cleared
  <2> QED
    BY <2>3, <2>4, <2>5
<1> QED
  BY <1>1, <1>2

-----------------------------------------------------------------------------
(* The invariant of a state, d being the keys that are down.               *)

Restored(s) == s.active_override = None => s.suppressed = {} /\ s.weak = {}

Replacing(s) == IF s.active_override = None THEN {} ELSE {s.active_override.replacement}

Held(s, d) ==
    /\ s.keys \ d \subseteq Replacing(s)
    /\ s.last_key_down # None => s.last_key_down \in d
    /\ s.active_override # None => s.active_override.trigger = s.last_key_down
    /\ s.deferred # None => /\ s.last_key_down # None
                            /\ s.deferred \in {s.last_key_down} \cup Replacing(s)

Good(s) == Typed(s) /\ Restored(s)

\* Clearing an override keeps the invariant; without registering the trigger again
\* nothing of the override is left, even if the trigger is up.
LEMMA ClearGood ==
    ASSUME NEW s, Good(s), NEW again \in BOOLEAN, NEW d
    PROVE  LET r == clear_active_override(s, again)
           IN  Good(r) /\ (Held(s, d) => Held(r, d))
<1> DEFINE r == clear_active_override(s, again)
           o == s.active_override
<1>1. /\ Typed(r) /\ r.active_override = None
      /\ r.last_key_down = s.last_key_down
      /\ o = None => r = s
      /\ o # None =>
           /\ r.suppressed = {} /\ r.weak = {} /\ r.keys = s.keys \ {o.replacement}
           /\ r.deferred \in {None} \cup (IF again THEN {o.trigger} ELSE {})
  BY ClearEffect DEF Good
<1>2. o # None => o.trigger \in Keys
  BY DEF Good, Typed, State, Override
<1> HIDE DEF r
<1>3. Good(r)
  BY <1>1 DEF Good, Restored
<1>4. ASSUME Held(s, d) PROVE Held(r, d)
  <2>1. CASE o = None
    BY <1>1, <1>4, <2>1
  <2>2. CASE o # None
    BY <1>1, <1>2, <1>4, <2>2, OverrideAssumption DEF Held, Replacing
  <2> QED
    BY <2>1, <2>2
<1> QED
  BY <1>3, <1>4 DEF r

\* An override of the last key that takes over keeps the invariant, if clearing the
\* one before does: the new replacement is in the report or deferred.
LEMMA ActivateGood ==
    ASSUME NEW s, Good(s), NEW o \in Override, NEW is_mod \in BOOLEAN, NEW d
    PROVE  LET r == Activate(s, o, is_mod)
           IN  /\ Good(r) /\ r.last_key_down = s.last_key_down
               /\ Held(clear_active_override(s, FALSE), d) /\ o.trigger = s.last_key_down
                    => Held(r, d)
<1> DEFINE c == clear_active_override(s, FALSE)
           a == [c EXCEPT !.active_override = o, !.trigger_is_down = TRUE,
                          !.suppressed = o.trigger_mods, !.keys = @ \ {o.trigger}]
           w == [a EXCEPT !.weak = o.mods]
           r == Activate(s, o, is_mod)
<1>1. c \in State /\ c.active_override = None /\ c.last_key_down = s.last_key_down
  BY ClearEffect DEF Good, Typed
<1>2. /\ o # None /\ o.trigger \in Keys /\ o.trigger_mods \in SUBSET Mods
      /\ o.replacement \in Keys \cup {None} /\ o.mods \in SUBSET Mods
  BY OverrideAssumption DEF Override
<1> HIDE DEF c
<1>3. /\ a \in State /\ a.active_override = o /\ a.trigger_is_down
      /\ a.last_key_down = s.last_key_down /\ a.keys = c.keys \ {o.trigger}
      /\ a.deferred = c.deferred
  BY <1>1, <1>2 DEF State
<1>4. r = IF o.replacement = None THEN a
          ELSE IF is_mod THEN schedule_deferred_register(w, o.replacement)
          ELSE [w EXCEPT !.keys = @ \cup {o.replacement}]
  BY DEF Activate, c
<1> HIDE DEF a
<1>5. /\ w \in State /\ w.active_override = o /\ w.trigger_is_down
      /\ w.last_key_down = s.last_key_down /\ w.keys = c.keys \ {o.trigger}
      /\ w.deferred = c.deferred
  BY <1>2, <1>3 DEF State
<1> HIDE DEF w, r
<1>6. /\ r \in State /\ r.active_override = o /\ r.trigger_is_down
      /\ r.last_key_down = s.last_key_down
      /\ r.keys \subseteq c.keys \cup {o.replacement}
      /\ r.deferred \in {c.deferred, o.replacement}
  <2>1. CASE o.replacement = None
    BY <1>3, <1>4, <2>1
  <2>2. CASE o.replacement # None /\ is_mod
    <3>1. o.replacement \in Keys
      BY <1>2, <2>2
    <3>2. r = schedule_deferred_register(w, o.replacement)
      BY <1>4, <2>2
    <3> QED
      BY <1>5, <3>1, <3>2, ScheduleEffect
  <2>3. CASE o.replacement # None /\ ~is_mod
    <3>1. o.replacement \in Keys
      BY <1>2, <2>3
    <3>2. r = [w EXCEPT !.keys = @ \cup {o.replacement}]
      BY <1>4, <2>3
    <3> QED
      BY <1>5, <3>1, <3>2 DEF State
  <2> QED
    BY <2>1, <2>2, <2>3
<1>7. Good(r)
  BY <1>2, <1>6 DEF Good, Typed, Restored
<1>8. ASSUME Held(c, d), o.trigger = s.last_key_down PROVE Held(r, d)
  <2>1. /\ Replacing(c) = {} /\ Replacing(r) = {o.replacement}
    BY <1>1, <1>2, <1>6 DEF Replacing
  <2>2. s.last_key_down \in d /\ s.last_key_down # None
    BY <1>1, <1>2, <1>8, OverrideAssumption DEF Held
  <2> QED
    BY <1>1, <1>6, <1>8, <2>1, <2>2 DEF Held
<1> QED
  BY <1>6, <1>7, <1>8 DEF c, r

-----------------------------------------------------------------------------
(* The invariant across the events that process_key_override sees.         *)

TableOK == key_overrides \in {<<>>} \cup {Table[m] : m \in Modes}

\* The press of a key: it is the last key from now on, and an override of the key
\* before is gone or replaced.
LEMMA PressKeyGood ==
    ASSUME NEW s, Good(s), TableOK, NEW key \in Keys, NEW d
    PROVE  LET r == PressKey(s, key)
           IN  /\ Good(r) /\ r.last_key_down = key
               /\ Held(s, d) => Held(r, d \cup {key})
<1> DEFINE p == [s EXCEPT !.last_key_down = key, !.age = 0, !.deferred = None]
           c == clear_active_override(p, FALSE)
           C == Candidates(p, key, mods)
           o == key_overrides[Min(C)]
           r == PressKey(s, key)
<1>1. /\ p \in State /\ p.last_key_down = key /\ p.deferred = None
      /\ p.active_override = s.active_override /\ p.trigger_is_down = s.trigger_is_down
      /\ p.keys = s.keys /\ p.suppressed = s.suppressed /\ p.weak = s.weak
  <2>1. s \in State /\ 0 \in 0 .. RepeatDelay
    BY OverrideAssumption DEF Good, Typed
  <2> QED
    BY <2>1 DEF State
<1>2. Good(p)
  BY <1>1 DEF Good, Typed, Restored
<1>3. r = IF C # {} THEN Activate(p, o, FALSE) ELSE c
  BY DEF PressKey
<1> HIDE DEF p, r
<1>4. /\ Good(c) /\ c.active_override = None /\ c.last_key_down = key
      /\ c.deferred = None
      /\ p.active_override = None => c.keys = p.keys
      /\ p.active_override # None => c.keys = p.keys \ {p.active_override.replacement}
  BY <1>1, <1>2, ClearGood, ClearEffect DEF Good
<1> HIDE DEF c
<1>5. ASSUME Held(s, d) PROVE Held(c, d \cup {key})
  <2>1. s.keys \ d \subseteq Replacing(s) /\ Replacing(s) = Replacing(p)
    BY <1>1, <1>5 DEF Held, Replacing
  <2>2. c.keys \ (d \cup {key}) = {}
    BY <1>1, <1>4, <2>1 DEF Replacing
  <2> QED
    BY <1>4, <2>2 DEF Held, Replacing
<1>6. CASE C = {}
  BY <1>3, <1>4, <1>5, <1>6 DEF r
<1>7. CASE C # {}
  <2>1. o \in Override /\ o.trigger = key
    BY <1>1, <1>7, CandidateIsOverride DEF TableOK
  <2> HIDE DEF o
  <2> QED
    BY <1>1, <1>2, <1>3, <1>5, <1>7, <2>1, ActivateGood DEF c, r
<1> QED
  BY <1>6, <1>7

\* The release of a key: if it is the last one, its override ends with it, and so does
\* a deferred registration.
LEMMA ReleaseKeyGood ==
    ASSUME NEW s, Good(s), NEW key \in Keys, NEW d
    PROVE  LET r == ReleaseKey(s, key)
           IN  /\ Good(r) /\ r.keys \in SUBSET s.keys
               /\ Held(s, d) => /\ r.keys \ d \subseteq Replacing(r)
                                /\ Held([r EXCEPT !.keys = @ \ {key}], d \ {key})
<1> DEFINE q == IF key = s.last_key_down
                THEN [s EXCEPT !.last_key_down = None, !.age = RepeatDelay, !.deferred = None]
                ELSE s
           c == clear_active_override(q, FALSE)
           r == ReleaseKey(s, key)
           f == [r EXCEPT !.keys = @ \ {key}]
<1>1. /\ q \in State
      /\ q.active_override = s.active_override /\ q.trigger_is_down = s.trigger_is_down
      /\ q.keys = s.keys /\ q.suppressed = s.suppressed /\ q.weak = s.weak
      /\ key = s.last_key_down => q.last_key_down = None /\ q.deferred = None
      /\ key # s.last_key_down => q = s
  <2>1. s \in State /\ RepeatDelay \in 0 .. RepeatDelay
    BY OverrideAssumption DEF Good, Typed
  <2> QED
    BY <2>1 DEF State
<1>2. Good(q)
  BY <1>1 DEF Good, Typed, Restored
<1>3. r = IF q.active_override # None /\ q.active_override.trigger = key THEN c ELSE q
  BY DEF ReleaseKey
<1> HIDE DEF q, r
<1>4. /\ Good(c) /\ c.active_override = None /\ c.last_key_down = q.last_key_down
      /\ q.active_override # None => c.deferred = None /\ c.keys = q.keys \ {q.active_override.replacement}
      /\ q.active_override = None => c = q
  BY <1>1, <1>2, ClearGood, ClearEffect DEF Good
<1> HIDE DEF c
<1>5. Good(r) /\ r.keys \in SUBSET s.keys /\ r \in State
  BY <1>1, <1>2, <1>3, <1>4 DEF Good, Typed
<1>6. /\ f.keys = r.keys \ {key} /\ f.active_override = r.active_override
      /\ f.last_key_down = r.last_key_down /\ f.deferred = r.deferred
      /\ Replacing(f) = Replacing(r)
  BY <1>5 DEF State, Replacing
<1> HIDE DEF f
<1>7. ASSUME Held(s, d)
      PROVE  r.keys \ d \subseteq Replacing(r) /\ Held(f, d \ {key})
  <2>1. s.keys \ d \subseteq Replacing(s) /\ Replacing(s) = Replacing(q)
    BY <1>1, <1>7 DEF Held, Replacing
  <2>2. CASE q.active_override # None /\ q.active_override.trigger = key
    <3>1. r = c /\ key = s.last_key_down
      BY <1>1, <1>3, <1>7, <2>2 DEF Held
    <3>2. r.keys \ d = {} /\ r.last_key_down = None /\ r.deferred = None
      BY <1>1, <1>4, <2>1, <2>2, <3>1 DEF Replacing
    <3> QED
      BY <1>6, <3>1, <3>2, <1>4 DEF Held
  <2>3. CASE ~(q.active_override # None /\ q.active_override.trigger = key) /\ key = s.last_key_down
    <3>1. r = q /\ r.active_override = None
      BY <1>1, <1>3, <1>7, <2>3 DEF Held
    <3>2. r.keys \ d = {} /\ r.last_key_down = None /\ r.deferred = None
      BY <1>1, <2>1, <2>3, <3>1 DEF Replacing
    <3> QED
      BY <1>6, <3>1, <3>2 DEF Held
  <2>4. CASE ~(q.active_override # None /\ q.active_override.trigger = key) /\ key # s.last_key_down
    <3>1. r = s
      BY <1>1, <1>3, <2>4
    <3> QED
      BY <1>6, <1>7, <2>4, <3>1 DEF Held
  <2> QED
    BY <2>2, <2>3, <2>4
<1> QED
  BY <1>5, <1>7 DEF f, r

\* A change of modifiers: it activates an override of the last key, or ends one and has
\* its trigger, which is the last key, registered later.
LEMMA ChangeModsGood ==
    ASSUME NEW s, Good(s), TableOK, NEW m, NEW d
    PROVE  LET r == ChangeMods(s, m)
           IN  /\ Good(r) /\ r.last_key_down = s.last_key_down
               /\ Held(s, d) => Held(r, d)
<1> DEFINE C == Candidates(s, None, m)
           o == key_overrides[Min(C)]
           r == ChangeMods(s, m)
<1>1. CASE C # {}
  <2>1. o \in Override /\ o.trigger = s.last_key_down
    <3>1. o \in Override /\ o.trigger \in {None, s.last_key_down}
      BY <1>1, CandidateIsOverride DEF TableOK
    <3>2. o.trigger \in Keys
      BY <3>1 DEF Override
    <3> QED
      BY <3>1, <3>2, OverrideAssumption
  <2>2. r = Activate(s, o, TRUE)
    BY <1>1 DEF ChangeMods
  <2> HIDE DEF o, r
  <2>3. Held(s, d) => Held(clear_active_override(s, FALSE), d)
    BY ClearGood
  <2> QED
    BY <2>1, <2>2, <2>3, ActivateGood DEF r
<1>2. CASE C = {}
  <2>1. r \in {s, clear_active_override(s, TRUE)}
    BY <1>2 DEF ChangeMods
  <2> HIDE DEF r
  <2>2. /\ Good(clear_active_override(s, TRUE))
        /\ clear_active_override(s, TRUE).last_key_down = s.last_key_down
        /\ Held(s, d) => Held(clear_active_override(s, TRUE), d)
    BY ClearGood, ClearEffect DEF Good
  <2> QED
    BY <2>1, <2>2 DEF r
<1> QED
  BY <1>1, <1>2

\* A change of the report alone, or of a key that is down, keeps the invariant.
LEMMA KeysGood ==
    ASSUME NEW s, Good(s), NEW K \in SUBSET Keys
    PROVE  LET r == [s EXCEPT !.keys = K]
           IN  /\ Good(r) /\ r.keys = K /\ Replacing(r) = Replacing(s)
               /\ r.active_override = s.active_override
               /\ r.last_key_down = s.last_key_down /\ r.deferred = s.deferred
BY DEF Good, Typed, State, Restored, Replacing

-----------------------------------------------------------------------------
(* The invariant of the specification.                                     *)

IInv ==
    /\ TypeOK
    /\ Restored(ko)
    /\ ~stale => /\ Held(ko, down)
                 /\ ~enabled => ko.last_key_down = None

\* TypeOK is Typed and the types of the other variables.
LEMMA TypeIsTyped ==
    IInv => Good(ko) /\ TableOK /\ down \subseteq Keys
BY DEF IInv, TypeOK, Good, Typed, TableOK

\* Nothing is pressed and no table registered at the start.
LEMMA InitInv == Init => IInv
<1> SUFFICES ASSUME Init PROVE IInv
  OBVIOUS
<1>1. RepeatDelay \in 0 .. RepeatDelay /\ 0 \in 0 .. RepeatDelay
  BY OverrideAssumption
<1>2. TypeOK
  BY <1>1 DEF Init, TypeOK, State
<1> QED
  BY <1>2 DEF Init, IInv, Restored, Held, Replacing

\* Press keeps the invariant: the key is registered, or its replacement is.
LEMMA PressInv ==
    ASSUME IInv, NEW k \in Keys, Press(k)
    PROVE  IInv'
<1> DEFINE s == IF enabled THEN PressKey(ko, k) ELSE ko
           r == [s EXCEPT !.keys = @ \cup {k}]
<1>1. Good(ko) /\ TableOK /\ down \subseteq Keys
  BY TypeIsTyped
<1>2. /\ Good(s)
      /\ enabled => s.last_key_down = k
      /\ enabled /\ ~stale => Held(s, down \cup {k})
  BY <1>1, PressKeyGood DEF IInv
<1>3. /\ ~enabled => s = ko
      /\ ko' \in {r, s} /\ (~enabled => ko' = r)
      /\ down' = down \cup {k}
      /\ UNCHANGED <<mods, key_overrides, enabled, stale, cut>>
  BY DEF Press
<1> HIDE DEF s
<1>4. s.keys \cup {k} \in SUBSET Keys
  BY <1>2 DEF Good, Typed, State
<1>5. /\ Good(r) /\ r.keys = s.keys \cup {k} /\ Replacing(r) = Replacing(s)
      /\ r.active_override = s.active_override
      /\ r.last_key_down = s.last_key_down /\ r.deferred = s.deferred
  BY <1>2, <1>4, KeysGood
<1> HIDE DEF r
<1>6. Good(ko')
  BY <1>2, <1>3, <1>5
<1>7. TypeOK'
  BY <1>1, <1>3, <1>6 DEF IInv, TypeOK, Good, Typed
<1>8. ASSUME ~stale' PROVE Held(ko', down') /\ (~enabled' => ko'.last_key_down = None)
  <2>1. Held(s, down \cup {k})
    <3>1. CASE enabled
      BY <1>2, <1>3, <1>8, <3>1
    <3>2. CASE ~enabled
      BY <1>3, <1>8, <3>2 DEF IInv, Held
    <3> QED
      BY <3>1, <3>2
  <2>2. Held(r, down \cup {k})
    BY <1>5, <2>1 DEF Held
  <2>3. ~enabled => s.last_key_down = None
    BY <1>3, <1>8 DEF IInv
  <2> QED
    BY <1>3, <1>5, <2>1, <2>2, <2>3
<1>9. Restored(ko)' /\ (~stale => Held(ko, down) /\ (~enabled => ko.last_key_down = None))'
  BY <1>6, <1>8 DEF Good, Restored, Held, Replacing
<1> QED
  BY <1>7, <1>9 DEF IInv

\* Release keeps it: an override whose trigger is released is over.
LEMMA ReleaseInv ==
    ASSUME IInv, NEW k \in Keys, Release(k)
    PROVE  IInv'
<1> DEFINE s == IF enabled THEN ReleaseKey(ko, k) ELSE ko
           r == [s EXCEPT !.keys = @ \ {k}]
<1>1. Good(ko) /\ TableOK /\ down \subseteq Keys
  BY TypeIsTyped
<1>2. /\ Good(s)
      /\ enabled /\ ~stale => Held([s EXCEPT !.keys = @ \ {k}], down \ {k})
  BY <1>1, ReleaseKeyGood DEF IInv
<1>3. /\ ~enabled => s = ko
      /\ ko' = r /\ down' = down \ {k} /\ cut' \in BOOLEAN
      /\ UNCHANGED <<mods, key_overrides, enabled, stale>>
  BY DEF Release, IInv, TypeOK
<1> HIDE DEF s
<1>4. s.keys \ {k} \in SUBSET Keys
  BY <1>2 DEF Good, Typed, State
<1>5. /\ Good(r) /\ r.keys = s.keys \ {k} /\ Replacing(r) = Replacing(s)
      /\ r.active_override = s.active_override
      /\ r.last_key_down = s.last_key_down /\ r.deferred = s.deferred
  BY <1>2, <1>4, KeysGood
<1>6. TypeOK'
  BY <1>1, <1>3, <1>5 DEF IInv, TypeOK, Good, Typed
<1>7. ASSUME ~stale' PROVE Held(ko', down') /\ (~enabled' => ko'.last_key_down = None)
  <2>1. CASE enabled
    BY <1>2, <1>3, <1>7, <2>1
  <2>2. CASE ~enabled
    <3>1. Held(ko, down) /\ ko.last_key_down = None
      BY <1>3, <1>7, <2>2 DEF IInv
    <3>2. ko.active_override # None => ko.active_override.trigger \in Keys
      BY <1>1 DEF Good, Typed, State, Override
    <3>3. ko.active_override = None /\ ko.deferred = None
      BY <3>1, <3>2, OverrideAssumption DEF Held
    <3>4. ko.keys \ down = {}
      BY <3>1, <3>3 DEF Held, Replacing
    <3> HIDE DEF r
    <3> QED
      BY <1>3, <1>5, <2>2, <3>1, <3>3, <3>4 DEF Held
  <2> QED
    BY <2>1, <2>2
<1> HIDE DEF r
<1>8. Restored(ko)' /\ (~stale => Held(ko, down) /\ (~enabled => ko.last_key_down = None))'
  BY <1>3, <1>5, <1>7 DEF Good, Restored, Held, Replacing
<1> QED
  BY <1>6, <1>8 DEF IInv

\* PressMod and ReleaseMod keep it.
LEMMA ModInv ==
    ASSUME IInv, NEW m \in Mods, PressMod(m) \/ ReleaseMod(m)
    PROVE  IInv'
<1>1. Good(ko) /\ TableOK /\ down \subseteq Keys
  BY TypeIsTyped
<1>2. PICK a \in {mods \cup {m}, mods \ {m}} :
          /\ mods' = a /\ ko' = IF enabled THEN ChangeMods(ko, a) ELSE ko
          /\ UNCHANGED <<down, key_overrides, enabled, stale, cut>>
  BY DEF PressMod, ReleaseMod
<1>3. /\ Good(ChangeMods(ko, a))
      /\ ChangeMods(ko, a).last_key_down = ko.last_key_down
      /\ Held(ko, down) => Held(ChangeMods(ko, a), down)
  BY <1>1, ChangeModsGood
<1>4. Good(ko') /\ ko'.last_key_down = ko.last_key_down /\ (Held(ko, down) => Held(ko', down'))
  BY <1>1, <1>2, <1>3
<1>5. TypeOK'
  BY <1>1, <1>2, <1>4 DEF IInv, TypeOK, Good, Typed
<1>6. Restored(ko)' /\ (~stale => Held(ko, down) /\ (~enabled => ko.last_key_down = None))'
  BY <1>2, <1>4 DEF Good, IInv, Restored, Held, Replacing
<1> QED
  BY <1>5, <1>6 DEF IInv

\* Turning overrides off or on and changing the table keep it: a key that is still the
\* last one when they are turned off makes the state stale.
LEMMA ModeInv ==
    ASSUME IInv,
           key_override_off \/ key_override_on \/ \E mode \in Modes : set_key_override(mode)
    PROVE  IInv'
<1>1. Good(ko) /\ TableOK /\ down \subseteq Keys
  BY TypeIsTyped
<1>2. CASE key_override_off
  <2> DEFINE c == clear_active_override(ko, FALSE)
  <2>1. /\ Good(c) /\ c.last_key_down = ko.last_key_down
        /\ Held(ko, down) => Held(c, down)
    BY <1>1, ClearGood, ClearEffect DEF Good
  <2> HIDE DEF c
  <2>2. /\ ko' = c /\ enabled' = FALSE /\ stale' = (stale \/ ko.last_key_down # None)
        /\ UNCHANGED <<down, mods, key_overrides, cut>>
    BY <1>2 DEF key_override_off, c
  <2>3. TypeOK'
    BY <1>1, <2>1, <2>2 DEF IInv, TypeOK, Good, Typed
  <2>4. Restored(ko)' /\ (~stale => Held(ko, down) /\ (~enabled => ko.last_key_down = None))'
    BY <2>1, <2>2 DEF Good, IInv, Restored, Held, Replacing
  <2> QED
    BY <2>3, <2>4 DEF IInv
<1>3. CASE key_override_on \/ \E mode \in Modes : set_key_override(mode)
  <2>1. /\ key_overrides' \in {<<>>} \cup {Table[m] : m \in Modes} /\ enabled' = TRUE
        /\ UNCHANGED <<down, mods, ko, stale, cut>>
    BY <1>1, <1>3 DEF key_override_on, set_key_override, TableOK
  <2>2. TypeOK'
    BY <2>1 DEF IInv, TypeOK
  <2>3. Restored(ko)' /\ (~stale => Held(ko, down) /\ (~enabled => ko.last_key_down = None))'
    BY <2>1 DEF IInv, Restored, Held, Replacing
  <2> QED
    BY <2>2, <2>3 DEF IInv
<1> QED
  BY <1>2, <1>3

\* The task keeps it: what it registers is the last key or the active replacement.
LEMMA TaskInv ==
    ASSUME IInv, key_override_task
    PROVE  IInv'
<1> DEFINE r == [ko EXCEPT !.keys = @ \cup {ko.deferred}, !.deferred = None]
<1>1. Good(ko) /\ ko \in State
  BY TypeIsTyped DEF Good, Typed
<1>2. /\ ko' = r /\ ko.deferred \in Keys
      /\ UNCHANGED <<down, mods, key_overrides, enabled, stale, cut>>
  BY <1>1 DEF key_override_task, State
<1>3. /\ r \in State /\ r.keys = ko.keys \cup {ko.deferred} /\ r.deferred = None
      /\ r.active_override = ko.active_override /\ r.trigger_is_down = ko.trigger_is_down
      /\ r.last_key_down = ko.last_key_down
      /\ r.suppressed = ko.suppressed /\ r.weak = ko.weak
  BY <1>1, <1>2 DEF State
<1> HIDE DEF r
<1>4. TypeOK'
  BY <1>2, <1>3 DEF IInv, TypeOK
<1>5. Restored(ko)'
  BY <1>2, <1>3 DEF IInv, Restored
<1>6. (~stale => Held(ko, down) /\ (~enabled => ko.last_key_down = None))'
  BY <1>2, <1>3, OverrideAssumption DEF IInv, Held, Replacing
<1> QED
  BY <1>4, <1>5, <1>6 DEF IInv

\* Time changes the two delays only.
LEMMA TickInv ==
    ASSUME IInv, Tick
    PROVE  IInv'
<1> DEFINE age == IF ko.age < RepeatDelay THEN ko.age + 1 ELSE ko.age
           left == IF ko.left > 0 THEN ko.left - 1 ELSE ko.left
<1>1. ko \in State /\ RepeatDelay \in Nat
  BY OverrideAssumption DEF IInv, TypeOK
<1>2. ko.age \in 0 .. RepeatDelay /\ ko.left \in 0 .. RepeatDelay
  BY <1>1 DEF State
<1>3. age \in 0 .. RepeatDelay /\ left \in 0 .. RepeatDelay
  BY <1>1, <1>2
<1>4. /\ ko' = [ko EXCEPT !.age = age, !.left = left]
      /\ UNCHANGED <<down, mods, key_overrides, enabled, stale, cut>>
  BY DEF Tick
<1> HIDE DEF age, left
<1>5. /\ ko' \in State /\ ko'.keys = ko.keys /\ ko'.deferred = ko.deferred
      /\ ko'.active_override = ko.active_override /\ ko'.trigger_is_down = ko.trigger_is_down
      /\ ko'.last_key_down = ko.last_key_down
      /\ ko'.suppressed = ko.suppressed /\ ko'.weak = ko.weak
  BY <1>1, <1>3, <1>4 DEF State
<1>6. TypeOK'
  BY <1>4, <1>5 DEF IInv, TypeOK
<1>7. Restored(ko)' /\ (~stale => Held(ko, down) /\ (~enabled => ko.last_key_down = None))'
  BY <1>4, <1>5 DEF IInv, Restored, Held, Replacing
<1> QED
  BY <1>6, <1>7 DEF IInv

\* IInv is inductive.
LEMMA StepInv == IInv /\ [Next]_vars => IInv'
<1> SUFFICES ASSUME IInv, [Next]_vars PROVE IInv'
  OBVIOUS
<1>1. CASE \E k \in Keys : Press(k) \/ Release(k)
  BY <1>1, PressInv, ReleaseInv
<1>2. CASE \E m \in Mods : PressMod(m) \/ ReleaseMod(m)
  BY <1>2, ModInv
<1>3. CASE key_override_off \/ key_override_on \/ \E mode \in Modes : set_key_override(mode)
  BY <1>3, ModeInv
<1>4. CASE key_override_task
  BY <1>4, TaskInv
<1>5. CASE Tick
  BY <1>5, TickInv
<1>6. CASE UNCHANGED vars
  BY <1>6 DEF vars, IInv, TypeOK, Restored, Held, Replacing
<1> QED
  BY <1>1, <1>2, <1>3, <1>4, <1>5, <1>6 DEF Next

\* IInv holds in every reachable state.
LEMMA Invariant == Spec => []IInv
BY InitInv, StepInv, PTL DEF Spec

-----------------------------------------------------------------------------
(* What follows.                                                           *)

\* The variables keep their types; an override is active exactly while its trigger is
\* taken to be down.
THEOREM OverrideTypes == Spec => []TypeOK
<1>1. IInv => TypeOK
  BY DEF IInv
<1> QED
  BY <1>1, Invariant, PTL

\* The modifiers that an override hides or adds are given back when it ends, however
\* it ends.
THEOREM ModsGivenBack == Spec => []ModsRestored
<1>1. IInv => ModsRestored
  BY DEF IInv, Restored, ModsRestored
<1> QED
  BY <1>1, Invariant, PTL

\* What the host sees pressed is held or replaces a held key, until overrides are turned
\* off with a key down.
THEOREM OnlyHeldKeys == Spec => []OnlyHeld
<1>1. ASSUME IInv PROVE OnlyHeld
  <2> SUFFICES ASSUME ~stale PROVE OnlyHeld
    BY DEF OnlyHeld
  <2>1. Held(ko, down)
    BY <1>1 DEF IInv
  <2>2. ko.active_override # None => ko.active_override.trigger \in Keys
    BY <1>1 DEF IInv, TypeOK, State, Override
  <2>3. ko.active_override # None => ko.active_override.trigger \in down
    BY <2>1, <2>2, OverrideAssumption DEF Held
  <2> QED
    BY <2>1, <2>3 DEF Held, Replacing, OnlyHeld
<1> QED
  BY <1>1, Invariant, PTL

=============================================================================
