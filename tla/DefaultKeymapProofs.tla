------------------------ MODULE DefaultKeymapProofs -------------------------
(***************************************************************************)
(* Proofs about the records of the default keymap, for every keymap, every *)
(* set of wheel actions and every timeout.  KInv gives each modifier and   *)
(* each button of the report an owner: a key that is held, or an event of  *)
(* which still waits, or whose release overtook its press; the wheel action*)
(* that is not over; or the click that the next scan ends.  And each button*)
(* that is held is in the report, or its press waits.                      *)
(***************************************************************************)
EXTENDS DefaultKeymap, SequenceTheorems, WellFoundedInduction, TLAPS

Event == [key : Keys, pressed : BOOLEAN]

Report == [mods : SUBSET Modifiers, encoder_modifier : SUBSET Modifiers,
           elapsed : 0..(Timeout + MaxDelay), buttons : SUBSET Buttons,
           btn_release_flag : SUBSET Buttons, mouse_send_flag : BOOLEAN,
           cut : SUBSET Modifiers]

\* The keys of the events behind the first i.
After(events, i) == {events[j].key : j \in {x \in DOMAIN events : x > i}}

\* What a key shows; the modifiers of a wheel's key are those of the wheel action.
Shows(k) == IF k \in Wheels THEN Code(k) ELSE Held(k)

\* The keys of P account for what the report r shows.
Owned(r, P) ==
    /\ \A m \in r.mods : m \in r.encoder_modifier \cup r.cut \/ \E k \in P : m \in Shows(k)
    /\ r.buttons \subseteq P \cup r.btn_release_flag

\* The buttons of B are in the report r, or their presses are behind the first i events.
Due(r, B, events, i) ==
    \A k \in B : k \in r.buttons \/ \E j \in DOMAIN events : j > i /\ events[j] = Press(k)

\* Both, of the keys d that are held and the keys o that are overtaken.
Cover(r, events, d, o) ==
    /\ Owned(r, d \cup o \cup After(events, 0))
    /\ Due(r, (d \cap Buttons) \ {TapButton}, events, 0)

\* The modifier of a wheel action has outlasted its time.
Slow(r) == r.encoder_modifier # {} /\ r.elapsed > Timeout

-----------------------------------------------------------------------------
(* The inductive invariant.                                                *)

\* A press that waits is of a key that is held, a release of a key with a modifier.
Orderly(q, d) ==
    \A i \in DOMAIN q : IF q[i].pressed THEN q[i].key \in d ELSE Retained(q[i].key)

\* Clicks end at the next scan, and the host has been told what was not to be sent.
Clicks ==
    /\ report.btn_release_flag \subseteq report.buttons \cap {TapButton}
    /\ pc = "key" => report.btn_release_flag = {}
    /\ ~report.mouse_send_flag => shown = report.buttons
    /\ pc = "custom" => ~report.mouse_send_flag

KInv ==
    /\ TypeOK /\ Clicks
    /\ Orderly(waiting, down)
    /\ Cover(report, waiting, down, overtaken)
    /\ pc \in {"key", "send"} => ~Slow(report)

-----------------------------------------------------------------------------
(* One record.                                                             *)

\* x is r after records: it clicks no less, sends what it changed, and is no slower.
Kept(r, x) ==
    /\ x.btn_release_flag = r.btn_release_flag
    /\ ~x.mouse_send_flag => ~r.mouse_send_flag /\ x.buttons = r.buttons
    /\ Slow(x) => Slow(r)

\* x is r after the record e, as for the buttons.
Presses(r, x, e) ==
    \A k \in Buttons :
        IF k = e.key THEN e.pressed => k \in x.buttons ELSE k \in r.buttons => k \in x.buttons

\* The sizes of the model, and what the keys show.
LEMMA Sizes ==
    /\ Timeout \in Nat /\ MaxDelay \in Nat /\ 0 \in 0..(Timeout + MaxDelay) /\ ~(0 > Timeout)
    /\ \A k \in Keys \cup Wheels :
          Code(k) \subseteq Modifiers /\ Mods(k) \subseteq Modifiers /\ Held(k) \subseteq Modifiers
    /\ \A k \in Wheels : k \notin Buttons /\ k \notin Keys
    /\ \A k \in Buttons : k \in Keys /\ Mods(k) = {} /\ ~Retained(k)
    /\ \A k \in Keys \cup Wheels : Code(k) \subseteq Shows(k)
<1>1. Timeout \in Nat /\ MaxDelay \in Nat
  BY KeymapAssumption
<1>2. 0 \in 0..(Timeout + MaxDelay) /\ ~(0 > Timeout)
  BY <1>1
<1>3. \A k \in Keys \cup Wheels : Code(k) \subseteq Modifiers /\ Mods(k) \subseteq Modifiers
  BY KeymapAssumption
<1>4. \A k \in Keys \cup Wheels : Held(k) \subseteq Modifiers
  BY <1>3 DEF Held
<1>5. \A k \in Wheels : k \notin Buttons /\ k \notin Keys
  BY KeymapAssumption
<1>6. \A k \in Buttons : k \in Keys /\ Mods(k) = {} /\ ~Retained(k)
  BY KeymapAssumption DEF Retained, Held
<1>7. \A k \in Keys \cup Wheels : Code(k) \subseteq Shows(k)
  BY KeymapAssumption DEF Shows, Held
<1> QED
  BY <1>1, <1>2, <1>3, <1>4, <1>5, <1>6, <1>7

\* Letting go of the modifier of a wheel action takes nothing from the keys.
LEMMA EndEncoderStep ==
    ASSUME NEW r \in Report, NEW P, Owned(r, P)
    PROVE  /\ EndEncoder(r) \in Report /\ Owned(EndEncoder(r), P)
           /\ Kept(r, EndEncoder(r)) /\ ~Slow(EndEncoder(r))
           /\ EndEncoder(r).buttons = r.buttons
<1> DEFINE x == EndEncoder(r)
<1>1. /\ x.mods = r.mods \ r.encoder_modifier /\ x.encoder_modifier = {} /\ x.elapsed = 0
      /\ x.buttons = r.buttons /\ x.btn_release_flag = r.btn_release_flag
      /\ x.mouse_send_flag = r.mouse_send_flag /\ x.cut = r.cut \ r.encoder_modifier
  BY DEF EndEncoder, Report
<1>2. x \in Report
  BY Sizes DEF EndEncoder, Report
<1> HIDE DEF x
<1>3. Owned(x, P)
  BY <1>1 DEF Owned
<1>4. Kept(r, x) /\ ~Slow(x)
  BY <1>1 DEF Kept, Slow
<1> QED
  BY <1>1, <1>2, <1>3, <1>4 DEF x

\* An ordinary record gives what it shows to its key, or takes it from it.
LEMMA ActionStep ==
    ASSUME NEW r \in Report, NEW P, Owned(r, P),
           NEW e \in [key : Keys \cup Wheels, pressed : BOOLEAN],
           e.key \in Wheels => Mods(e.key) = {}
    PROVE  /\ process_action(r, e) \in Report /\ Kept(r, process_action(r, e))
           /\ Owned(process_action(r, e), IF e.pressed THEN P \cup {e.key} ELSE P \ {e.key})
           /\ Presses(r, process_action(r, e), e)
<1> DEFINE x == process_action(r, e)
<1> DEFINE b == {e.key} \cap Buttons
<1>0. Held(e.key) \subseteq Modifiers /\ b \subseteq Buttons
  BY Sizes
<1>3. Held(e.key) = Shows(e.key)
  BY KeymapAssumption DEF Shows, Held
<1>1. CASE e.pressed
  <2>1. x = [r EXCEPT !.mods = @ \cup Held(e.key), !.buttons = @ \cup b,
                      !.mouse_send_flag = @ \/ b # {}]
    BY <1>1 DEF process_action
  <2> HIDE DEF x
  <2>2. /\ x.mods = r.mods \cup Held(e.key) /\ x.encoder_modifier = r.encoder_modifier
        /\ x.elapsed = r.elapsed /\ x.buttons = r.buttons \cup b
        /\ x.btn_release_flag = r.btn_release_flag /\ x.cut = r.cut
    BY <2>1 DEF Report
  <2>3. x.mouse_send_flag = (r.mouse_send_flag \/ b # {})
    BY <2>1 DEF Report
  <2>4. x \in Report
    BY <1>0, <2>1 DEF Report
  <2>5. Kept(r, x)
    BY <2>2, <2>3 DEF Kept, Slow
  <2>6. Owned(x, P \cup {e.key})
    BY <1>3, <2>2 DEF Owned
  <2>7. Presses(r, x, e)
    BY <1>1, <2>2 DEF Presses
  <2> QED
    BY <1>1, <2>4, <2>5, <2>6, <2>7 DEF x
<1>2. CASE ~e.pressed
  <2>1. x = [r EXCEPT !.mods = @ \ Held(e.key), !.cut = @ \ Held(e.key),
                      !.buttons = @ \ b, !.mouse_send_flag = @ \/ b # {}]
    BY <1>2 DEF process_action
  <2> HIDE DEF x
  <2>2. /\ x.mods = r.mods \ Held(e.key) /\ x.encoder_modifier = r.encoder_modifier
        /\ x.elapsed = r.elapsed /\ x.buttons = r.buttons \ b
        /\ x.btn_release_flag = r.btn_release_flag /\ x.cut = r.cut \ Held(e.key)
    BY <2>1 DEF Report
  <2>3. x.mouse_send_flag = (r.mouse_send_flag \/ b # {})
    BY <2>1 DEF Report
  <2>4. x \in Report
    BY <2>1 DEF Report
  <2>5. Kept(r, x)
    BY <2>2, <2>3 DEF Kept, Slow
  <2>6. Owned(x, P \ {e.key})
    <3>1. \A m \in x.mods : m \in x.encoder_modifier \cup x.cut \/ \E k \in P \ {e.key} : m \in Shows(k)
      BY <1>3, <2>2 DEF Owned
    <3>2. x.buttons \subseteq (P \ {e.key}) \cup x.btn_release_flag
      BY <2>2 DEF Owned, Report
    <3> QED
      BY <3>1, <3>2 DEF Owned
  <2>7. Presses(r, x, e)
    BY <1>2, <2>2 DEF Presses
  <2> QED
    BY <1>2, <2>4, <2>5, <2>6, <2>7 DEF x
<1> QED
  BY <1>1, <1>2

\* In a wheel action, a press replaces the modifier of the one before.
LEMMA EncoderPressStep ==
    ASSUME NEW r \in Report, NEW P, Owned(r, P), NEW k \in Keys \cup Wheels
    PROVE  /\ EncoderPress(r, k) \in Report /\ Kept(r, EncoderPress(r, k))
           /\ Owned(EncoderPress(r, k), P \cup {k})
           /\ EncoderPress(r, k).buttons = r.buttons
<1> DEFINE x == EncoderPress(r, k)
<1> DEFINE mods == IF Mods(k) = r.encoder_modifier THEN r.mods
                   ELSE (r.mods \ r.encoder_modifier) \cup Mods(k)
<1>1. /\ x.mods = mods \cup Code(k) /\ x.encoder_modifier = Mods(k) /\ x.elapsed = 0
      /\ x.buttons = r.buttons /\ x.btn_release_flag = r.btn_release_flag
      /\ x.mouse_send_flag = r.mouse_send_flag /\ x.cut = r.cut
  BY DEF EncoderPress, Report
<1>2. x \in Report
  <2>1. mods \subseteq Modifiers /\ Mods(k) \subseteq Modifiers /\ Code(k) \subseteq Modifiers
    BY Sizes DEF Report
  <2> QED
    BY <2>1, Sizes DEF EncoderPress, Report
<1>3. \A m \in Code(k) : m \in Shows(k)
  BY Sizes
<1> HIDE DEF x
<1>4. Owned(x, P \cup {k})
  <2>1. ASSUME NEW m \in x.mods PROVE m \in x.encoder_modifier \cup x.cut \/ \E j \in P \cup {k} : m \in Shows(j)
    <3>1. CASE m \in Mods(k) \cup Code(k)
      BY <1>1, <1>3, <3>1
    <3>2. CASE m \in mods /\ m \notin Mods(k)
      BY <1>1, <3>2 DEF Owned
    <3> QED
      BY <1>1, <2>1, <3>1, <3>2
  <2> QED
    BY <1>1, <2>1 DEF Owned
<1>5. Kept(r, x)
  BY <1>1, Sizes DEF Kept, Slow
<1> QED
  BY <1>1, <1>2, <1>4, <1>5 DEF x

\* A release in a wheel action leaves the modifier on: the wheel action's own, or one
\* that is cut off from its key.
LEMMA EncoderReleaseStep ==
    ASSUME NEW r \in Report, NEW P, Owned(r, P), NEW k \in Keys \cup Wheels, k \notin Buttons
    PROVE  /\ EncoderRelease(r, k) \in Report /\ Kept(r, EncoderRelease(r, k))
           /\ Owned(EncoderRelease(r, k), P \ {k})
           /\ EncoderRelease(r, k).buttons = r.buttons
<1> DEFINE x == EncoderRelease(r, k)
<1>1. /\ x.mods = r.mods \ Code(k) /\ x.encoder_modifier = r.encoder_modifier
      /\ x.elapsed = r.elapsed
      /\ x.buttons = r.buttons /\ x.btn_release_flag = r.btn_release_flag
      /\ x.mouse_send_flag = r.mouse_send_flag
      /\ x.cut = IF k \in Keys THEN r.cut \cup Mods(k) ELSE r.cut
  BY DEF EncoderRelease, Report
<1>2. x \in Report
  BY Sizes DEF EncoderRelease, Report
<1>3. \A m \in Shows(k) : m \in Code(k) \/ (k \in Keys /\ m \in Mods(k))
  BY Sizes DEF Shows, Held
<1> HIDE DEF x
<1>4. Owned(x, P \ {k})
  <2>1. ASSUME NEW m \in x.mods
        PROVE  m \in x.encoder_modifier \cup x.cut \/ \E j \in P \ {k} : m \in Shows(j)
    <3>1. m \in r.mods /\ m \notin Code(k)
      BY <1>1, <2>1
    <3>2. CASE \E j \in P : m \in Shows(j)
      BY <1>1, <1>3, <3>1, <3>2
    <3>3. CASE m \in r.encoder_modifier \cup r.cut
      BY <1>1, <3>3
    <3> QED
      BY <3>1, <3>2, <3>3 DEF Owned
  <2>2. x.buttons \subseteq (P \ {k}) \cup x.btn_release_flag
    BY <1>1 DEF Owned, Report
  <2> QED
    BY <2>1, <2>2 DEF Owned
<1>5. Kept(r, x)
  BY <1>1 DEF Kept, Slow
<1> QED
  BY <1>1, <1>2, <1>4, <1>5 DEF x

\* More keys may account for what fewer do.
LEMMA OwnedByMore ==
    ASSUME NEW r, NEW P, NEW Q, P \subseteq Q, Owned(r, P)
    PROVE  Owned(r, Q)
BY DEF Owned

Record == [key : Keys \cup Wheels, pressed : BOOLEAN]

\* process_record: a press gives its key what it shows, a release takes it.  The wheel's
\* keys are processed inside a wheel action only.
LEMMA RecordStep ==
    ASSUME NEW r \in Report, NEW P, Owned(r, P), NEW e \in Record, NEW enc \in BOOLEAN,
           e.key \in Wheels => enc
    PROVE  /\ process_record(r, e, enc) \in Report /\ Kept(r, process_record(r, e, enc))
           /\ Owned(process_record(r, e, enc), IF e.pressed THEN P \cup {e.key} ELSE P \ {e.key})
           /\ Presses(r, process_record(r, e, enc), e)
<1>0. e.key \in Keys \cup Wheels /\ e \in [key : Keys \cup Wheels, pressed : BOOLEAN]
  BY DEF Record
<1>1. CASE ~enc
  <2> DEFINE x == EndEncoder(r)
  <2> DEFINE y == process_action(x, e)
  <2>1. /\ x \in Report /\ Owned(x, P) /\ Kept(r, x) /\ x.buttons = r.buttons
    BY EndEncoderStep
  <2> HIDE DEF x
  <2>2. /\ y \in Report /\ Kept(x, y)
        /\ Owned(y, IF e.pressed THEN P \cup {e.key} ELSE P \ {e.key})
        /\ Presses(x, y, e)
    BY <1>0, <1>1, <2>1, ActionStep
  <2>3. process_record(r, e, enc) = y
    BY <1>1 DEF process_record, x
  <2> HIDE DEF y
  <2>4. Kept(r, y)
    BY <2>1, <2>2 DEF Kept
  <2>5. Presses(r, y, e)
    BY <2>1, <2>2 DEF Presses
  <2> QED
    BY <2>2, <2>3, <2>4, <2>5
<1>2. CASE enc /\ Mods(e.key) = {}
  <2>1. process_record(r, e, enc) = process_action(r, e)
    BY <1>2 DEF process_record
  <2> DEFINE x == process_action(r, e)
  <2>2. /\ x \in Report /\ Kept(r, x)
        /\ Owned(x, IF e.pressed THEN P \cup {e.key} ELSE P \ {e.key})
        /\ Presses(r, x, e)
    BY <1>0, <1>2, ActionStep
  <2> HIDE DEF x
  <2> QED
    BY <2>1, <2>2 DEF x
<1>3. CASE enc /\ Mods(e.key) # {} /\ e.pressed
  <2>1. process_record(r, e, enc) = EncoderPress(r, e.key)
    BY <1>3 DEF process_record
  <2> DEFINE x == EncoderPress(r, e.key)
  <2>2. /\ x \in Report /\ Kept(r, x) /\ Owned(x, P \cup {e.key})
        /\ x.buttons = r.buttons
    BY <1>0, EncoderPressStep
  <2>3. e.key \notin Buttons
    BY <1>3, Sizes
  <2> HIDE DEF x
  <2>4. Presses(r, x, e)
    BY <2>2, <2>3 DEF Presses
  <2> QED
    BY <1>3, <2>1, <2>2, <2>4 DEF x
<1>4. CASE enc /\ Mods(e.key) # {} /\ ~e.pressed
  <2>1. process_record(r, e, enc) = EncoderRelease(r, e.key)
    BY <1>4 DEF process_record
  <2>2. e.key \notin Buttons
    BY <1>4, Sizes
  <2> DEFINE x == EncoderRelease(r, e.key)
  <2>3. /\ x \in Report /\ Kept(r, x) /\ Owned(x, P \ {e.key}) /\ x.buttons = r.buttons
    BY <1>0, <2>2, EncoderReleaseStep
  <2> HIDE DEF x
  <2>4. Presses(r, x, e)
    BY <2>2, <2>3 DEF Presses
  <2> QED
    BY <1>4, <2>1, <2>3, <2>4 DEF x
<1> QED
  BY <1>1, <1>2, <1>3, <1>4

-----------------------------------------------------------------------------
(* A sequence of records.                                                  *)

\* d is the way of the report r through the events.
Way(d, r, events, enc) ==
    /\ d[0] = r
    /\ \A i \in 1..Len(events) : d[i] = process_record(d[i - 1], events[i], enc)

\* The recursive function of Processed exists, and ends the way.
LEMMA ProcessedIsWay ==
    ASSUME NEW r, NEW events \in Seq(Record), NEW enc
    PROVE  \E d : Way(d, r, events, enc) /\ Processed(r, events, enc) = d[Len(events)]
<1> DEFINE N == Len(events)
<1> DEFINE Next_(f, i) == IF i = 0 THEN r ELSE process_record(f[i - 1], events[i], enc)
<1> DEFINE Way_(f, n) == f = [i \in 0..n |-> Next_(f, i)]
<1> DEFINE Bad == {n \in 0..N : ~ \E f : Way_(f, n)}
<1>0. N \in Nat
  OBVIOUS
<1>1. Bad = {}
  <2> SUFFICES ASSUME Bad # {} PROVE FALSE
    OBVIOUS
  <2>1. Bad \subseteq Nat
    BY <1>0
  <2>2. PICK n \in Bad : \A y \in Bad : <<y, n>> \notin OpToRel(<, Nat)
    BY <2>1, NatLessThanWellFounded, WFMin
  <2>3. \A y \in Bad : ~ (y < n)
    BY <2>1, <2>2, Zenon DEF OpToRel
  <2>4. n # 0
    <3>1. Way_([i \in 0..0 |-> r], 0)
      OBVIOUS
    <3> QED
      BY <3>1
  <2>5. n \in 0..N /\ n - 1 \in 0..N /\ n - 1 < n
    BY <1>0, <2>4
  <2>6. PICK f : Way_(f, n - 1)
    BY <2>3, <2>5
  <2> DEFINE g == [i \in 0..n |-> IF i < n THEN f[i] ELSE process_record(f[n - 1], events[n], enc)]
  <2>7. ASSUME NEW i \in 0..n PROVE g[i] = Next_(g, i)
    <3>1. CASE i = 0
      <4>1. 0 \in 0..(n - 1) /\ i < n
        BY <2>4, <2>5, <3>1
      <4>2. f[0] = r
        BY <2>6, <4>1
      <4> QED
        BY <3>1, <4>1, <4>2
    <3>2. CASE i # 0 /\ i < n
      <4>1. i \in 0..(n - 1) /\ i - 1 \in 0..n /\ i - 1 < n
        BY <2>5, <3>2
      <4>2. f[i] = process_record(f[i - 1], events[i], enc)
        BY <2>6, <3>2, <4>1
      <4>3. g[i] = f[i] /\ g[i - 1] = f[i - 1]
        BY <3>2, <4>1
      <4> QED
        BY <3>2, <4>2, <4>3
    <3>3. CASE i # 0 /\ i = n
      <4>1. n - 1 \in 0..n /\ n - 1 < n /\ ~ (n < n)
        BY <2>5, <3>3
      <4>2. g[n - 1] = f[n - 1] /\ g[n] = process_record(f[n - 1], events[n], enc)
        BY <3>3, <4>1
      <4> QED
        BY <3>3, <4>2
    <3> QED
      BY <2>5, <3>1, <3>2, <3>3
  <2>8. g = [i \in 0..n |-> g[i]]
    OBVIOUS
  <2> HIDE DEF g
  <2>9. Way_(g, n)
    BY <2>7, <2>8
  <2> QED
    BY <2>2, <2>9
<1>2. PICK f : Way_(f, N)
  BY <1>0, <1>1
<1> DEFINE d == CHOOSE a : a = [i \in 0..N |-> Next_(a, i)]
<1>3. d = [i \in 0..N |-> Next_(d, i)]
  <2> HIDE DEF Next_
  <2> QED
    BY <1>2
<1>4. Processed(r, events, enc) = d[N]
  BY DEF Processed
<1> HIDE DEF d
<1>5. Way(d, r, events, enc)
  <2>1. 0 \in 0..N /\ \A i \in 1..N : i \in 0..N /\ i # 0
    BY <1>0
  <2> QED
    BY <1>3, <2>1 DEF Way
<1> QED
  BY <1>4, <1>5

\* The record e may be processed, the keys of P being held or coming back: it ends no
\* button of B and no click.
Fine(r, P, B, e, enc) ==
    /\ e.key \in Wheels => enc
    /\ IF e.pressed THEN e.key \in P
       ELSE e.key \notin B /\ (e.key \in Buttons => r.btn_release_flag = {})

AllFine(r, D, B, events, enc) ==
    \A i \in 1..Len(events) : Fine(r, D \cup After(events, i), B, events[i], enc)

\* What holds of the report x after the first i events.
Reached(x, r, D, B, events, i) ==
    /\ x \in Report /\ Kept(r, x) /\ x.btn_release_flag \subseteq x.buttons
    /\ Owned(x, D \cup After(events, i))
    /\ Due(x, B, events, i)

\* What holds of it in the end.
Passed(x, r, D, B) ==
    /\ x \in Report /\ Kept(r, x) /\ x.btn_release_flag \subseteq x.buttons
    /\ Owned(x, D) /\ B \subseteq x.buttons

\* Events lose nothing: what the report shows stays accounted for, and what is held
\* is in it or comes.
LEMMA WayStep ==
    ASSUME NEW r \in Report, NEW D, NEW B \in SUBSET Buttons, NEW events \in Seq(Record),
           NEW enc \in BOOLEAN, AllFine(r, D, B, events, enc),
           NEW i \in 1..Len(events), NEW x, Reached(x, r, D, B, events, i - 1)
    PROVE  Reached(process_record(x, events[i], enc), r, D, B, events, i)
<1> DEFINE e == events[i]
<1> DEFINE y == process_record(x, e, enc)
<1> DEFINE P == D \cup After(events, i - 1)
<1>1. e \in Record /\ i \in DOMAIN events
  OBVIOUS
<1>2. x \in Report /\ Kept(r, x) /\ x.btn_release_flag \subseteq x.buttons /\ Owned(x, P)
  BY DEF Reached
<1>3. P \subseteq D \cup After(events, i) \cup {e.key}
  BY <1>1 DEF After
<1>4. After(events, i) \subseteq After(events, i - 1)
  BY <1>1 DEF After
<1>5. Fine(r, D \cup After(events, i), B, e, enc)
  BY DEF AllFine
<1> HIDE DEF e, P
<1>6. e.key \in Wheels => enc
  BY <1>5 DEF Fine
<1>7. /\ y \in Report /\ Kept(x, y)
      /\ Owned(y, IF e.pressed THEN P \cup {e.key} ELSE P \ {e.key})
      /\ Presses(x, y, e)
  BY <1>1, <1>2, <1>6, RecordStep
<1> HIDE DEF y
<1>8. Owned(y, D \cup After(events, i))
  <2>1. CASE e.pressed
    <3>1. P \cup {e.key} \subseteq D \cup After(events, i)
      BY <1>3, <1>5, <2>1 DEF Fine
    <3> QED
      BY <1>7, <2>1, <3>1, OwnedByMore
  <2>2. CASE ~e.pressed
    <3>1. P \ {e.key} \subseteq D \cup After(events, i)
      BY <1>3
    <3> QED
      BY <1>7, <2>2, <3>1, OwnedByMore
  <2> QED
    BY <2>1, <2>2
<1>9. Kept(r, y)
  BY <1>2, <1>7 DEF Kept
<1>10. y.btn_release_flag \subseteq y.buttons
  <2>1. y.btn_release_flag = x.btn_release_flag /\ x.btn_release_flag = r.btn_release_flag
    BY <1>2, <1>7 DEF Kept
  <2>2. ASSUME NEW k \in y.btn_release_flag PROVE k \in y.buttons
    <3>1. k \in x.buttons /\ k \in Buttons
      BY <1>2, <2>1, <2>2 DEF Report
    <3>2. k = e.key => e.pressed
      BY <1>5, <2>1, <2>2, <3>1 DEF Fine
    <3> QED
      BY <1>7, <3>1, <3>2 DEF Presses
  <2> QED
    BY <2>2
<1>11. Due(y, B, events, i)
  <2>1. ASSUME NEW k \in B
        PROVE  k \in y.buttons \/ \E j \in DOMAIN events : j > i /\ events[j] = Press(k)
    <3>1. k \in x.buttons \/ \E j \in DOMAIN events : j > i - 1 /\ events[j] = Press(k)
      BY DEF Reached, Due
    <3>2. k = e.key => e.pressed
      BY <1>5, <2>1 DEF Fine
    <3>3. CASE k \in x.buttons
      BY <1>7, <2>1, <3>2, <3>3 DEF Presses
    <3>4. CASE k = e.key
      BY <1>7, <2>1, <3>2, <3>4 DEF Presses
    <3>5. ASSUME NEW j \in DOMAIN events, j > i - 1, events[j] = Press(k), k # e.key
          PROVE  j > i
      <4>1. j # i
        BY <3>5 DEF e, Press
      <4> QED
        BY <3>5, <4>1
    <3> QED
      BY <3>1, <3>3, <3>4, <3>5
  <2> QED
    BY <2>1 DEF Due
<1> QED
  BY <1>7, <1>8, <1>9, <1>10, <1>11 DEF Reached, y, e

\* The same of all events, by the least one it would fail for.
LEMMA ProcessedStep ==
    ASSUME NEW r \in Report, NEW D, NEW B \in SUBSET Buttons, NEW events \in Seq(Record),
           NEW enc \in BOOLEAN, AllFine(r, D, B, events, enc),
           Owned(r, D \cup After(events, 0)), Due(r, B, events, 0),
           r.btn_release_flag \subseteq r.buttons
    PROVE  Passed(Processed(r, events, enc), r, D, B)
<1> DEFINE x == Processed(r, events, enc)
<1> DEFINE n == Len(events)
<1>0. n \in Nat /\ n \in 0..n
  OBVIOUS
<1>1. PICK d : Way(d, r, events, enc) /\ x = d[n]
  BY ProcessedIsWay
<1> DEFINE Bad == {i \in 0..n : ~ Reached(d[i], r, D, B, events, i)}
<1>2. Bad = {}
  <2> SUFFICES ASSUME Bad # {} PROVE FALSE
    OBVIOUS
  <2>1. Bad \subseteq Nat
    BY <1>0
  <2>2. PICK i \in Bad : \A y \in Bad : <<y, i>> \notin OpToRel(<, Nat)
    BY <2>1, NatLessThanWellFounded, WFMin
  <2>3. \A y \in Bad : ~ (y < i)
    BY <2>1, <2>2, Zenon DEF OpToRel
  <2>4. i # 0
    BY <1>1 DEF Way, Reached, Kept
  <2>5. i \in 1..n /\ i - 1 \in 0..n /\ i - 1 < i
    BY <1>0, <2>4
  <2>6. Reached(d[i - 1], r, D, B, events, i - 1)
    BY <2>3, <2>5
  <2>7. Reached(process_record(d[i - 1], events[i], enc), r, D, B, events, i)
    BY <2>5, <2>6, WayStep
  <2>8. d[i] = process_record(d[i - 1], events[i], enc)
    BY <1>1, <2>5 DEF Way
  <2> QED
    BY <2>2, <2>7, <2>8
<1>3. Reached(x, r, D, B, events, n)
  BY <1>0, <1>1, <1>2
<1>4. \A j \in DOMAIN events : ~ (j > n)
  OBVIOUS
<1>5. D \cup After(events, n) = D
  BY <1>4 DEF After
<1>6. \A k \in B : k \in x.buttons
  BY <1>3, <1>4 DEF Reached, Due
<1> HIDE DEF x
<1>7. Passed(x, r, D, B)
  BY <1>3, <1>5, <1>6 DEF Reached, Passed
<1> QED
  BY <1>7 DEF x

\* What waits are records of keys, none of a wheel.
LEMMA EventsAreRecords ==
    ASSUME NEW q \in Seq(Event)
    PROVE  q \in Seq(Record)
<1>1. Event \subseteq Record
  BY DEF Event, Record
<1>2. \A S, T : S \subseteq T => \A s \in Seq(S) : s \in Seq(T)
  OBVIOUS
<1> QED
  BY <1>1, <1>2, Zenon

\* The events q that wait, with records a before them and b behind them.  d are the keys
\* held while they waited; D and B are what shall be owned and shown in the end.
LEMMA AroundStep ==
    ASSUME NEW r \in Report, r.btn_release_flag \subseteq r.buttons,
           NEW q \in Seq(Event), NEW d, Orderly(q, d),
           NEW a \in Seq(Record), NEW b \in Seq(Record), NEW enc \in BOOLEAN,
           NEW D, NEW B \in SUBSET Buttons, d \subseteq D \cup After(b, 0),
           \A i \in 1..Len(a) : Fine(r, D \cup After(b, 0), B, a[i], enc),
           \A i \in 1..Len(b) : Fine(r, D \cup After(b, i), B, b[i], enc),
           Owned(r, D \cup After(a, 0) \cup After(q, 0) \cup After(b, 0)),
           \A k \in B : k \in r.buttons \/ \E e \in Range(a) \cup Range(q) \cup Range(b) : e = Press(k)
    PROVE  Passed(Processed(r, a \o q \o b, enc), r, D, B)
<1> DEFINE events == a \o q \o b
<1> DEFINE m == Len(a)
<1> DEFINE n == Len(a) + Len(q)
<1>1. /\ Len(a) \in Nat /\ Len(q) \in Nat /\ Len(b) \in Nat
      /\ DOMAIN a = 1..Len(a) /\ DOMAIN q = 1..Len(q) /\ DOMAIN b = 1..Len(b)
  OBVIOUS
<1>2. q \in Seq(Record)
  BY EventsAreRecords
<1>3. /\ events \in Seq(Record) /\ Len(events) = n + Len(b)
      /\ DOMAIN events = 1..(n + Len(b))
      /\ \A i \in 1..m : events[i] = a[i]
      /\ \A i \in 1..Len(q) : events[m + i] = q[i]
      /\ \A i \in 1..Len(b) : events[n + i] = b[i]
  BY <1>1, <1>2
<1> HIDE DEF events
<1>4. \A i \in DOMAIN events :
         \/ i \in 1..m
         \/ \E j \in 1..Len(q) : i = m + j
         \/ \E j \in 1..Len(b) : i = n + j
  <2>1. ASSUME NEW i \in DOMAIN events, i \notin 1..m
        PROVE  (i - m \in 1..Len(q) /\ i = m + (i - m)) \/ (i - n \in 1..Len(b) /\ i = n + (i - n))
    BY <1>1, <1>3, <2>1
  <2> QED
    BY <2>1
<1>5. After(a, 0) \cup After(q, 0) \cup After(b, 0) \subseteq After(events, 0)
  <2>1. \A i \in DOMAIN a : i \in DOMAIN events /\ events[i] = a[i] /\ i > 0
    BY <1>1, <1>3
  <2>2. \A i \in DOMAIN q : m + i \in DOMAIN events /\ events[m + i] = q[i] /\ m + i > 0
    BY <1>1, <1>3
  <2>3. \A i \in DOMAIN b : n + i \in DOMAIN events /\ events[n + i] = b[i] /\ n + i > 0
    BY <1>1, <1>3
  <2> QED
    BY <2>1, <2>2, <2>3 DEF After
<1>6. ASSUME NEW i \in DOMAIN events, NEW j \in 0..Len(b), i < n + 1 \/ i = n + j
      PROVE  After(b, j) \subseteq After(events, i) \/ (i < n + 1 /\ After(b, 0) \subseteq After(events, i))
  <2>1. CASE i < n + 1
    <3>1. \A x \in DOMAIN b : n + x \in DOMAIN events /\ events[n + x] = b[x] /\ n + x > i
      BY <1>1, <1>3, <2>1
    <3> QED
      BY <2>1, <3>1 DEF After
  <2>2. CASE i = n + j
    <3>1. \A x \in DOMAIN b : x > j => n + x \in DOMAIN events /\ events[n + x] = b[x] /\ n + x > i
      BY <1>1, <1>3, <2>2
    <3> QED
      BY <3>1 DEF After
  <2> QED
    BY <1>6, <2>1, <2>2
<1>7. AllFine(r, D, B, events, enc)
  <2>1. ASSUME NEW i \in DOMAIN events
        PROVE  Fine(r, D \cup After(events, i), B, events[i], enc)
    <3>1. CASE i \in 1..m
      <4>1. After(b, 0) \subseteq After(events, i)
        BY <1>1, <1>6, <3>1
      <4> QED
        BY <1>3, <3>1, <4>1 DEF Fine
    <3>2. ASSUME NEW j \in 1..Len(q), i = m + j
          PROVE  Fine(r, D \cup After(events, i), B, events[i], enc)
      <4>1. After(b, 0) \subseteq After(events, i)
        BY <1>1, <1>6, <3>2
      <4>2. events[i] = q[j] /\ q[j] \in Event /\ j \in DOMAIN q
        BY <1>1, <1>3, <3>2
      <4>3. q[j].key \in Keys /\ q[j].key \notin Wheels
        BY <4>2, Sizes DEF Event
      <4>4. ~q[j].pressed => q[j].key \notin Buttons
        BY <4>2, Sizes DEF Orderly
      <4>5. q[j].pressed => q[j].key \in D \cup After(events, i)
        BY <4>1, <4>2 DEF Orderly
      <4> QED
        BY <4>2, <4>3, <4>4, <4>5 DEF Fine
    <3>3. ASSUME NEW j \in 1..Len(b), i = n + j
          PROVE  Fine(r, D \cup After(events, i), B, events[i], enc)
      <4>1. After(b, j) \subseteq After(events, i)
        BY <1>1, <1>6, <3>3
      <4> QED
        BY <1>3, <3>3, <4>1 DEF Fine
    <3> QED
      BY <1>4, <3>1, <3>2, <3>3
  <2>2. DOMAIN events = 1..Len(events)
    BY <1>3
  <2> QED
    BY <2>1, <2>2 DEF AllFine
<1>8. Owned(r, D \cup After(events, 0))
  BY <1>5, OwnedByMore
<1>9. Due(r, B, events, 0)
  <2>1. ASSUME NEW e \in Range(a) \cup Range(q) \cup Range(b)
        PROVE  \E j \in DOMAIN events : j > 0 /\ events[j] = e
    <3>1. ASSUME NEW i \in DOMAIN a PROVE i \in DOMAIN events /\ i > 0 /\ events[i] = a[i]
      BY <1>1, <1>3
    <3>2. ASSUME NEW i \in DOMAIN q PROVE m + i \in DOMAIN events /\ m + i > 0 /\ events[m + i] = q[i]
      BY <1>1, <1>3
    <3>3. ASSUME NEW i \in DOMAIN b PROVE n + i \in DOMAIN events /\ n + i > 0 /\ events[n + i] = b[i]
      BY <1>1, <1>3
    <3> QED
      BY <3>1, <3>2, <3>3 DEF Range
  <2> QED
    BY <2>1 DEF Due
<1>10. Passed(Processed(r, events, enc), r, D, B)
  BY <1>3, <1>7, <1>8, <1>9, ProcessedStep
<1> QED
  BY <1>10 DEF events

\* Nothing around them: what waits is processed, and what was covered stays covered.
LEMMA DrainStep ==
    ASSUME NEW r \in Report, r.btn_release_flag \subseteq r.buttons,
           NEW q \in Seq(Event), NEW d, NEW o, Orderly(q, d), Cover(r, q, d, o),
           NEW x, x = Processed(r, q, FALSE)
    PROVE  /\ x \in Report /\ Kept(r, x) /\ x.btn_release_flag \subseteq x.buttons
           /\ Cover(x, <<>>, d, o)
<1> DEFINE e == <<>>
<1> DEFINE D == d \cup o
<1> DEFINE B == (d \cap Buttons) \ {TapButton}
<1>1. e \in Seq(Record) /\ Len(e) = 0 /\ DOMAIN e = {} /\ Range(e) = {} /\ After(e, 0) = {}
  BY DEF After, Range
<1>2. e \o q \o e = q
  BY EventsAreRecords, ConcatEmptySeq
<1> HIDE DEF e
<1>3. d \subseteq D \cup After(e, 0)
  OBVIOUS
<1>4. Owned(r, D \cup After(e, 0) \cup After(q, 0) \cup After(e, 0))
  BY <1>1 DEF Cover
<1>5. \A k \in B : k \in r.buttons \/ \E f \in Range(e) \cup Range(q) \cup Range(e) : f = Press(k)
  BY DEF Cover, Due, Range
<1>6. (\A i \in 1..Len(e) : Fine(r, D \cup After(e, 0), B, e[i], FALSE))
      /\ (\A i \in 1..Len(e) : Fine(r, D \cup After(e, i), B, e[i], FALSE))
  BY <1>1
<1>7. B \in SUBSET Buttons
  OBVIOUS
<1> HIDE DEF D, B
<1>8. Passed(x, r, D, B)
  <2>1. Passed(Processed(r, e \o q \o e, FALSE), r, D, B)
    BY <1>1, <1>3, <1>4, <1>5, <1>6, <1>7, AroundStep
  <2> QED
    BY <1>2, <2>1
<1>9. Owned(x, d \cup o \cup After(<<>>, 0)) /\ Due(x, (d \cap Buttons) \ {TapButton}, <<>>, 0)
  BY <1>1, <1>8 DEF D, B, Due, e, Passed
<1> QED
  BY <1>8, <1>9 DEF Cover, Passed

\* A click is owned by the scan that ends it.
LEMMA ClickStep ==
    ASSUME NEW r \in Report, NEW P, Owned(r, P),
           r.btn_release_flag \subseteq r.buttons \cap {TapButton}
    PROVE  /\ Click(r) \in Report /\ Owned(Click(r), P)
           /\ Click(r).btn_release_flag \subseteq Click(r).buttons \cap {TapButton}
           /\ r.buttons \subseteq Click(r).buttons
           /\ Click(r).mouse_send_flag /\ ~Slow(Click(r))
<1> DEFINE x == EndEncoder(r)
<1> DEFINE y == Click(r)
<1>1. /\ x \in Report /\ Owned(x, P) /\ ~Slow(x) /\ x.buttons = r.buttons
      /\ x.btn_release_flag = r.btn_release_flag
  BY EndEncoderStep DEF Kept
<1>2. y = [x EXCEPT !.buttons = @ \cup {TapButton}, !.mouse_send_flag = TRUE,
                    !.btn_release_flag = @ \cup {TapButton}]
  BY DEF Click
<1>3. TapButton \in Buttons
  BY KeymapAssumption
<1> HIDE DEF x, y
<1>4. /\ y.mods = x.mods /\ y.encoder_modifier = x.encoder_modifier /\ y.cut = x.cut
      /\ y.elapsed = x.elapsed /\ y.mouse_send_flag
      /\ y.buttons = x.buttons \cup {TapButton}
      /\ y.btn_release_flag = x.btn_release_flag \cup {TapButton}
  BY <1>1, <1>2 DEF Report
<1>5. y \in Report
  BY <1>1, <1>2, <1>3 DEF Report
<1>6. Owned(y, P)
  BY <1>1, <1>4 DEF Owned
<1>7. /\ y.btn_release_flag \subseteq y.buttons \cap {TapButton} /\ ~Slow(y)
      /\ r.buttons \subseteq y.buttons
  BY <1>1, <1>4 DEF Slow
<1> QED
  BY <1>4, <1>5, <1>6, <1>7 DEF y

-----------------------------------------------------------------------------
(* The steps.                                                              *)

Types ==
    /\ pc \in {"custom", "kb", "key", "send"}
    /\ down \subseteq Keys /\ lt \in BOOLEAN /\ interrupted \in BOOLEAN
    /\ tapping \in {"none", "undecided", "tapped", "again"}
    /\ waiting \in Seq(Event) /\ Len(waiting) <= MaxWaiting
    /\ report \in Report /\ shown \subseteq Buttons /\ overtaken \subseteq Keys

\* TypeOK in the names used here.
LEMMA Typed == TypeOK <=> Types
BY DEF TypeOK, Types, Report, Event

\* Events that wait, and one more.
LEMMA AfterAppend ==
    ASSUME NEW q \in Seq(Event), NEW e \in Event
    PROVE  /\ After(<<>>, 0) = {}
           /\ After(Append(q, e), 0) = After(q, 0) \cup {e.key}
           /\ Append(q, e) \in Seq(Event) /\ Len(Append(q, e)) = Len(q) + 1
           /\ \A i \in 1..Len(q) : Append(q, e)[i] = q[i]
           /\ Append(q, e)[Len(q) + 1] = e
           /\ DOMAIN Append(q, e) = 1..(Len(q) + 1)
<1>1. After(<<>>, 0) = {}
  BY DEF After
<1>2. /\ Append(q, e) \in Seq(Event) /\ Len(Append(q, e)) = Len(q) + 1
      /\ \A i \in 1..Len(q) : Append(q, e)[i] = q[i]
      /\ Append(q, e)[Len(q) + 1] = e
      /\ DOMAIN Append(q, e) = 1..(Len(q) + 1)
  OBVIOUS
<1>3. After(Append(q, e), 0) = After(q, 0) \cup {e.key}
  <2> DEFINE a == Append(q, e)
  <2>1. DOMAIN q = 1..Len(q) /\ Len(q) \in Nat
    OBVIOUS
  <2> HIDE DEF a
  <2>2. \A j \in DOMAIN a : j \in DOMAIN q \/ j = Len(q) + 1
    BY <1>2, <2>1 DEF a
  <2>3. \A j \in DOMAIN q : j \in DOMAIN a /\ a[j] = q[j]
    BY <1>2, <2>1 DEF a
  <2>4. Len(q) + 1 \in DOMAIN a /\ Len(q) + 1 > 0 /\ a[Len(q) + 1] = e
    BY <1>2, <2>1 DEF a
  <2> QED
    BY <2>2, <2>3, <2>4 DEF After, a
<1> QED
  BY <1>1, <1>2, <1>3

\* What KInv asks of the report after a step that sends nothing.
Shown(r) ==
    /\ r \in Report /\ r.btn_release_flag \subseteq r.buttons \cap {TapButton}
    /\ ~r.mouse_send_flag => shown = r.buttons

\* Records that send what they change leave nothing the host is not told.
LEMMA KeptShown ==
    ASSUME NEW r, Shown(r), NEW x \in Report, Kept(r, x),
           x.btn_release_flag \subseteq x.buttons
    PROVE  Shown(x)
BY DEF Shown, Kept

\* What is covered does not depend on the rest of the report.
LEMMA CoverSame ==
    ASSUME NEW r, NEW x, NEW q, NEW d, NEW o, Cover(r, q, d, o),
           x.mods \subseteq r.mods, x.encoder_modifier = r.encoder_modifier, x.cut = r.cut,
           x.buttons = r.buttons, x.btn_release_flag = r.btn_release_flag
    PROVE  Cover(x, q, d, o)
BY DEF Cover, Owned, Due

\* Letting go of the modifier of a wheel action, and a click, uncover nothing.
LEMMA CoverClick ==
    ASSUME NEW r, Shown(r), NEW q, NEW d, NEW o, Cover(r, q, d, o)
    PROVE  /\ Shown(EndEncoder(r)) /\ ~Slow(EndEncoder(r)) /\ Cover(EndEncoder(r), q, d, o)
           /\ Shown(Click(r)) /\ ~Slow(Click(r)) /\ Cover(Click(r), q, d, o)
<1>1. r \in Report /\ Owned(r, d \cup o \cup After(q, 0)) /\ Due(r, (d \cap Buttons) \ {TapButton}, q, 0)
  BY DEF Shown, Cover
<1>2. PICK x : x = EndEncoder(r)
  OBVIOUS
<1>3. /\ x \in Report /\ Owned(x, d \cup o \cup After(q, 0)) /\ Kept(r, x) /\ ~Slow(x)
      /\ x.buttons = r.buttons
  BY <1>1, <1>2, EndEncoderStep
<1>4. Shown(x) /\ Cover(x, q, d, o)
  BY <1>1, <1>3 DEF Shown, Kept, Cover, Due
<1>5. PICK y : y = Click(r)
  OBVIOUS
<1>6. /\ y \in Report /\ Owned(y, d \cup o \cup After(q, 0)) /\ ~Slow(y)
      /\ y.btn_release_flag \subseteq y.buttons \cap {TapButton}
      /\ r.buttons \subseteq y.buttons /\ y.mouse_send_flag
  BY <1>1, <1>5, ClickStep DEF Shown
<1>7. Shown(y) /\ Cover(y, q, d, o)
  BY <1>1, <1>6 DEF Shown, Cover, Due
<1> QED
  BY <1>2, <1>3, <1>4, <1>5, <1>6, <1>7

\* What waits is processed: the same, for a report in a round.
LEMMA DrainShown ==
    ASSUME NEW r, Shown(r), NEW q \in Seq(Event), NEW d, NEW o, Orderly(q, d), Cover(r, q, d, o),
           NEW x, x = Processed(r, q, FALSE)
    PROVE  Shown(x) /\ (Slow(x) => Slow(r)) /\ Cover(x, <<>>, d, o)
<1>1. r \in Report /\ r.btn_release_flag \subseteq r.buttons
  BY DEF Shown
<1>2. x \in Report /\ Kept(r, x) /\ x.btn_release_flag \subseteq x.buttons /\ Cover(x, <<>>, d, o)
  BY <1>1, DrainStep
<1>3. Shown(x)
  BY <1>2, KeptShown
<1> QED
  BY <1>2, <1>3 DEF Kept

\* A step of the round that reads keys, from what it does to the report.
LEMMA KeyStep ==
    ASSUME KInv, pc = "key", pc' = "send", shown' = shown, down' \subseteq Keys,
           overtaken' \subseteq Keys, lt' \in BOOLEAN, interrupted' \in BOOLEAN,
           tapping' \in {"none", "undecided", "tapped", "again"},
           waiting' \in Seq(Event), Len(waiting') <= MaxWaiting, Orderly(waiting', down'),
           Shown(report'), ~Slow(report'), Cover(report', waiting', down', overtaken')
    PROVE  KInv'
<1>1. TypeOK'
  <2>1. shown \subseteq Buttons
    BY Typed DEF KInv, Types
  <2>2. Types'
    BY <2>1 DEF Types, Shown
  <2> QED
    BY <2>2, Typed, PTL
<1>2. Clicks'
  BY DEF Clicks, Shown
<1>3. /\ Orderly(waiting, down)'
      /\ Cover(report, waiting, down, overtaken)'
      /\ (pc \in {"key", "send"} => ~Slow(report))'
  BY DEF Cover, Owned, Due, After, Slow, Orderly
<1> QED
  BY <1>1, <1>2, <1>3 DEF KInv

\* What a step may use of the state before it.
LEMMA Before ==
    ASSUME KInv
    PROVE  /\ Types /\ Orderly(waiting, down) /\ Shown(report)
           /\ Cover(report, waiting, down, overtaken)
           /\ pc = "key" => report.btn_release_flag = {} /\ ~Slow(report)
BY Typed DEF KInv, Types, Shown, Clicks

\* Nothing is in the way of an empty buffer.
LEMMA Empty ==
    /\ <<>> \in Seq(Event) /\ Len(<<>>) <= MaxWaiting
    /\ \A d : Orderly(<<>>, d)
    /\ After(<<>>, 0) = {}
BY KeymapAssumption DEF Orderly, After

\* A step out of the round that reads keys, from what it leaves alone.
LEMMA RoundStep ==
    ASSUME Types', Clicks', Orderly(waiting', down'), Cover(report', waiting', down', overtaken'),
           pc' \in {"key", "send"} => ~Slow(report')
    PROVE  KInv'
<1>1. TypeOK'
  BY Typed, PTL
<1>2. /\ Orderly(waiting, down)'
      /\ Cover(report, waiting, down, overtaken)'
      /\ (pc \in {"key", "send"} => ~Slow(report))'
  BY DEF Cover, Owned, Due, After, Slow, Orderly
<1> QED
  BY <1>1, <1>2 DEF KInv

\* matrix_scan_custom.
LEMMA CustomStep ==
    ASSUME KInv, NoReport \/ Move
    PROVE  KInv'
<1>1. PICK r : r = report
  OBVIOUS
<1>2. /\ Types /\ Orderly(waiting, down) /\ Shown(r) /\ Cover(r, waiting, down, overtaken)
      /\ pc' = "kb" /\ waiting' = waiting /\ down' = down /\ shown' = shown
      /\ tapping' = tapping /\ lt' = lt /\ interrupted' = interrupted /\ overtaken' = overtaken
      /\ report' = r \/ report' = [r EXCEPT !.mouse_send_flag = TRUE]
  BY <1>1, Before DEF NoReport, Move
<1>3. /\ report' \in Report /\ report'.mods = r.mods /\ report'.cut = r.cut
      /\ report'.encoder_modifier = r.encoder_modifier
      /\ report'.buttons = r.buttons /\ report'.btn_release_flag = r.btn_release_flag
      /\ ~report'.mouse_send_flag => ~r.mouse_send_flag
  <2>1. CASE report' = r
    BY <1>2, <2>1 DEF Shown
  <2>2. CASE report' = [r EXCEPT !.mouse_send_flag = TRUE]
    BY <1>2, <2>2 DEF Shown, Report
  <2> QED
    BY <1>2, <2>1, <2>2
<1>4. Types'
  BY <1>2, <1>3 DEF Types
<1>5. Clicks'
  BY <1>2, <1>3 DEF Clicks, Shown
<1>6. Cover(report', waiting', down', overtaken')
  BY <1>2, <1>3, CoverSame
<1> QED
  BY <1>2, <1>4, <1>5, <1>6, RoundStep

\* The records of a turn of the wheel, around or behind events that wait: they leave
\* nothing on but the modifier of the wheel action.
LEMMA WheelStep ==
    ASSUME NEW r, Shown(r), NEW q \in Seq(Event), NEW d, NEW o, Orderly(q, d), Cover(r, q, d, o),
           NEW w \in Wheels, NEW x,
           \/ x = Processed(r, q \o <<Press(w), Release(w)>>, TRUE)
           \/ x = Processed(r, <<Press(w)>> \o q \o <<Release(w)>>, TRUE)
    PROVE  Shown(x) /\ Cover(x, <<>>, d, o)
<1> DEFINE D == d \cup o
<1> DEFINE B == (d \cap Buttons) \ {TapButton}
<1>1. /\ Press(w) \in Record /\ Release(w) \in Record /\ Press(w).key = w /\ Release(w).key = w
      /\ Press(w).pressed /\ ~Release(w).pressed /\ w \notin Buttons /\ w \notin B
  BY Sizes DEF Press, Release, Record
<1>2. /\ r \in Report /\ r.btn_release_flag \subseteq r.buttons
      /\ Owned(r, D \cup After(q, 0)) /\ B \in SUBSET Buttons
      /\ \A k \in B : k \in r.buttons \/ \E e \in Range(q) : e = Press(k)
  BY DEF Shown, Cover, Due, Range
<1> HIDE DEF D, B
<1>3. Passed(x, r, D, B)
  <2>1. CASE x = Processed(r, q \o <<Press(w), Release(w)>>, TRUE)
    <3> DEFINE a == <<>>
    <3> DEFINE b == <<Press(w), Release(w)>>
    <3>1. /\ a \in Seq(Record) /\ Len(a) = 0 /\ b \in Seq(Record) /\ Len(b) = 2
          /\ b[1] = Press(w) /\ b[2] = Release(w) /\ DOMAIN b = 1..2
      BY <1>1
    <3>2. a \o q \o b = q \o b
      BY EventsAreRecords, ConcatEmptySeq
    <3> HIDE DEF a, b
    <3>3. w \in After(b, 1) /\ After(b, 1) \subseteq After(b, 0)
      <4>1. 2 \in DOMAIN b /\ 2 > 1 /\ b[2].key = w
        BY <1>1, <3>1
      <4>2. \A j \in DOMAIN b : j > 1 => j > 0
        BY <3>1
      <4> QED
        BY <4>1, <4>2 DEF After
    <3>4. /\ \A i \in 1..Len(a) : Fine(r, D \cup After(b, 0), B, a[i], TRUE)
          /\ \A i \in 1..Len(b) : Fine(r, D \cup After(b, i), B, b[i], TRUE)
      <4>1. \A i \in 1..Len(b) : i = 1 \/ i = 2
        BY <3>1
      <4>2. Fine(r, D \cup After(b, 1), B, b[1], TRUE) /\ Fine(r, D \cup After(b, 2), B, b[2], TRUE)
        BY <1>1, <3>1, <3>3 DEF Fine
      <4>3. \A i \in 1..Len(b) : Fine(r, D \cup After(b, i), B, b[i], TRUE)
        BY <4>1, <4>2
      <4>4. \A i \in 1..Len(a) : FALSE
        BY <3>1
      <4> QED
        BY <4>3, <4>4
    <3>5. Owned(r, D \cup After(a, 0) \cup After(q, 0) \cup After(b, 0))
      BY <1>2, OwnedByMore
    <3>6. \A k \in B : k \in r.buttons \/ \E e \in Range(a) \cup Range(q) \cup Range(b) : e = Press(k)
      BY <1>2
    <3>7. d \subseteq D \cup After(b, 0)
      BY DEF D
    <3>8. x = Processed(r, a \o q \o b, TRUE)
      BY <2>1, <3>2 DEF b
    <3>9. Passed(Processed(r, a \o q \o b, TRUE), r, D, B)
      BY <1>2, <3>1, <3>4, <3>5, <3>6, <3>7, AroundStep
    <3> QED
      BY <3>8, <3>9
  <2>2. CASE x = Processed(r, <<Press(w)>> \o q \o <<Release(w)>>, TRUE)
    <3> DEFINE a == <<Press(w)>>
    <3> DEFINE b == <<Release(w)>>
    <3>1. /\ a \in Seq(Record) /\ Len(a) = 1 /\ a[1] = Press(w)
          /\ b \in Seq(Record) /\ Len(b) = 1 /\ b[1] = Release(w) /\ DOMAIN b = 1..1
      BY <1>1
    <3> HIDE DEF a, b
    <3>2. w \in After(b, 0)
      BY <1>1, <3>1 DEF After
    <3>3. /\ \A i \in 1..Len(a) : Fine(r, D \cup After(b, 0), B, a[i], TRUE)
          /\ \A i \in 1..Len(b) : Fine(r, D \cup After(b, i), B, b[i], TRUE)
      BY <1>1, <3>1, <3>2 DEF Fine
    <3>4. Owned(r, D \cup After(a, 0) \cup After(q, 0) \cup After(b, 0))
      BY <1>2, OwnedByMore
    <3>5. \A k \in B : k \in r.buttons \/ \E e \in Range(a) \cup Range(q) \cup Range(b) : e = Press(k)
      BY <1>2
    <3>6. d \subseteq D \cup After(b, 0)
      BY DEF D
    <3>7. x = Processed(r, a \o q \o b, TRUE)
      BY <2>2 DEF a, b
    <3>8. Passed(Processed(r, a \o q \o b, TRUE), r, D, B)
      BY <1>2, <3>1, <3>3, <3>4, <3>5, <3>6, AroundStep
    <3> QED
      BY <3>7, <3>8
  <2> QED
    BY <2>1, <2>2
<1>4. Shown(x)
  BY <1>3, KeptShown DEF Passed
<1>5. Owned(x, d \cup o \cup After(<<>>, 0)) /\ Due(x, (d \cap Buttons) \ {TapButton}, <<>>, 0)
  BY <1>3, Empty DEF D, B, Due, Passed
<1> QED
  BY <1>4, <1>5 DEF Cover

\* A turn of the wheel.
LEMMA TurnStep ==
    ASSUME KInv, NEW w \in Wheels, Wheel(w)
    PROVE  KInv'
<1>1. PICK q, r : q = waiting /\ r = report
  OBVIOUS
<1>2. PICK x : x = Processed(r, IF tapping = "undecided" THEN q \o <<Press(w), Release(w)>>
                               ELSE <<Press(w)>> \o q \o <<Release(w)>>, TRUE)
  OBVIOUS
<1>3. /\ Types /\ Orderly(q, down) /\ Shown(r) /\ Cover(r, q, down, overtaken) /\ q \in Seq(Event)
  BY <1>1, Before DEF Types
<1>4. Shown(x) /\ Cover(x, <<>>, down, overtaken)
  BY <1>2, <1>3, WheelStep
<1>5. /\ pc' = "kb" /\ waiting' = <<>> /\ down' = down /\ shown' = shown /\ lt' = lt
      /\ overtaken' = overtaken
      /\ tapping' = (IF tapping = "undecided" THEN "none" ELSE tapping)
      /\ interrupted' = (interrupted \/ tapping = "tapped")
      /\ report' = [x EXCEPT !.mouse_send_flag = TRUE]
  BY <1>1, <1>2 DEF Wheel
<1>6. /\ report' \in Report /\ report'.mods = x.mods /\ report'.cut = x.cut
      /\ report'.encoder_modifier = x.encoder_modifier
      /\ report'.buttons = x.buttons /\ report'.btn_release_flag = x.btn_release_flag
      /\ report'.mouse_send_flag
  BY <1>4, <1>5 DEF Report, Shown
<1>7. Types'
  <2>1. interrupted' \in BOOLEAN
    BY <1>5
  <2>2. tapping' \in {"none", "undecided", "tapped", "again"}
    BY <1>3, <1>5 DEF Types
  <2> QED
    BY <1>3, <1>5, <1>6, <2>1, <2>2, Empty DEF Types
<1>8. Clicks'
  BY <1>4, <1>5, <1>6 DEF Clicks, Shown
<1>9. Cover(report', waiting', down', overtaken')
  BY <1>4, <1>5, <1>6, CoverSame
<1> QED
  BY <1>5, <1>7, <1>8, <1>9, Empty, RoundStep

\* matrix_scan_kb ends the clicks and a modifier that outlasted its time.
LEMMA ScanStep ==
    ASSUME KInv, matrix_scan_kb
    PROVE  KInv'
<1>1. PICK r, y : r = report /\ y = TimedOut(report)
  OBVIOUS
<1>2. /\ Types /\ Orderly(waiting, down) /\ Shown(r) /\ Cover(r, waiting, down, overtaken)
  BY <1>1, Before
<1>3. Shown(y) /\ ~Slow(y) /\ Cover(y, waiting, down, overtaken)
  <2>1. CASE Slow(r)
    <3>1. y = EndEncoder(r)
      BY <1>1, <2>1 DEF TimedOut, Slow
    <3> QED
      BY <1>2, <3>1, CoverClick
  <2>2. CASE ~Slow(r)
    <3>1. y = r
      BY <1>1, <2>2 DEF TimedOut, Slow
    <3> QED
      BY <1>2, <2>2, <3>1
  <2> QED
    BY <2>1, <2>2
<1>4. /\ pc' = "key" /\ waiting' = waiting /\ down' = down /\ shown' = shown
      /\ tapping' = tapping /\ lt' = lt /\ interrupted' = interrupted /\ overtaken' = overtaken
      /\ report' = matrix_scan_user(y)
  BY <1>1 DEF matrix_scan_kb
<1>5. report' = [y EXCEPT !.buttons = @ \ y.btn_release_flag, !.btn_release_flag = {},
                          !.mouse_send_flag = @ \/ y.btn_release_flag # {}]
  BY <1>4 DEF matrix_scan_user
<1>6. /\ report'.mods = y.mods /\ report'.cut = y.cut
      /\ report'.encoder_modifier = y.encoder_modifier /\ report'.elapsed = y.elapsed
      /\ report'.buttons = y.buttons \ y.btn_release_flag /\ report'.btn_release_flag = {}
  BY <1>3, <1>5 DEF Shown, Report
<1>7. report'.mouse_send_flag = (y.mouse_send_flag \/ y.btn_release_flag # {})
  BY <1>3, <1>5 DEF Shown, Report
<1>8. report' \in Report
  BY <1>3, <1>5 DEF Shown, Report
<1>9. Types'
  BY <1>2, <1>4, <1>8 DEF Types
<1>10. Clicks'
  <2>1. ~report'.mouse_send_flag => ~y.mouse_send_flag /\ y.btn_release_flag = {}
    BY <1>7
  <2>2. ~report'.mouse_send_flag => shown' = report'.buttons
    BY <1>3, <1>4, <1>6, <2>1 DEF Shown
  <2> QED
    BY <1>4, <1>6, <2>2 DEF Clicks
<1>11. Cover(report', waiting', down', overtaken')
  <2>1. Owned(report', down' \cup overtaken' \cup After(waiting', 0))
    BY <1>3, <1>4, <1>6 DEF Cover, Owned
  <2>2. y.btn_release_flag \subseteq {TapButton}
    BY <1>3 DEF Shown
  <2>3. Due(report', (down' \cap Buttons) \ {TapButton}, waiting', 0)
    BY <1>3, <1>4, <1>6, <2>2 DEF Cover, Due
  <2> QED
    BY <2>1, <2>3 DEF Cover
<1>12. ~Slow(report')
  BY <1>3, <1>6 DEF Slow
<1> QED
  BY <1>2, <1>4, <1>9, <1>10, <1>11, <1>12, RoundStep

\* pointing_device_task tells the host what it was not told.
LEMMA SendStep ==
    ASSUME KInv, NEW delay \in 0..MaxDelay, pointing_device_task(delay)
    PROVE  KInv'
<1>1. PICK r : r = report
  OBVIOUS
<1>2. /\ Types /\ Orderly(waiting, down) /\ Shown(r) /\ Cover(r, waiting, down, overtaken)
      /\ r \in Report /\ pc = "send" /\ ~Slow(r)
  BY <1>1, Before DEF Shown, Types, KInv, pointing_device_task
<1>3. /\ pc' = "custom" /\ waiting' = waiting /\ down' = down /\ tapping' = tapping
      /\ lt' = lt /\ interrupted' = interrupted /\ overtaken' = overtaken
      /\ shown' = (IF r.mouse_send_flag THEN r.buttons ELSE shown)
      /\ report' = [r EXCEPT !.mouse_send_flag = FALSE,
                      !.elapsed = IF r.encoder_modifier = {} THEN 0 ELSE @ + delay]
  BY <1>1 DEF pointing_device_task
<1>4. shown' = r.buttons
  BY <1>2, <1>3 DEF Shown
<1> DEFINE t == IF r.encoder_modifier = {} THEN 0 ELSE r.elapsed + delay
<1>5. t \in 0..(Timeout + MaxDelay)
  <2>1. r.elapsed \in 0..(Timeout + MaxDelay)
    BY <1>2 DEF Report
  <2>2. r.encoder_modifier = {} \/ r.elapsed <= Timeout
    BY <1>2, <2>1, Sizes DEF Slow
  <2>3. r.elapsed <= Timeout => r.elapsed + delay \in 0..(Timeout + MaxDelay)
    BY <2>1, Sizes
  <2> QED
    BY <2>2, <2>3, Sizes
<1>6. report' = [r EXCEPT !.mouse_send_flag = FALSE, !.elapsed = t]
  BY <1>3
<1> HIDE DEF t
<1>7. /\ report'.mods = r.mods /\ report'.cut = r.cut
      /\ report'.encoder_modifier = r.encoder_modifier
      /\ report'.buttons = r.buttons /\ report'.btn_release_flag = r.btn_release_flag
      /\ ~report'.mouse_send_flag /\ report' \in Report
  BY <1>2, <1>5, <1>6 DEF Report
<1>8. Types'
  <2>1. shown' \subseteq Buttons
    BY <1>2, <1>4 DEF Report
  <2> QED
    BY <1>2, <1>3, <1>7, <2>1 DEF Types
<1>9. Clicks'
  BY <1>2, <1>3, <1>4, <1>7 DEF Clicks, Shown
<1>10. Cover(report', waiting', down', overtaken')
  BY <1>2, <1>3, <1>7, CoverSame
<1> QED
  BY <1>2, <1>3, <1>8, <1>9, <1>10, RoundStep

\* A round without a key event processes what a decision has left.
LEMMA TickStep ==
    ASSUME KInv, Tick
    PROVE  KInv'
<1>1. PICK r, q, y : r = report /\ q = waiting /\ y = Processed(report, waiting, FALSE)
  OBVIOUS
<1>2. /\ Types /\ Orderly(q, down) /\ Shown(r) /\ Cover(r, q, down, overtaken) /\ ~Slow(r)
      /\ q \in Seq(Event) /\ Len(q) <= MaxWaiting
  BY <1>1, Before DEF Tick, Types
<1>3. Shown(y) /\ ~Slow(y) /\ Cover(y, <<>>, down, overtaken)
  BY <1>1, <1>2, DrainShown
<1>4. /\ pc = "key" /\ pc' = "send" /\ down' = down /\ shown' = shown
      /\ tapping' = tapping /\ lt' = lt /\ interrupted' = interrupted /\ overtaken' = overtaken
      /\ (waiting' = q /\ report' = r) \/ (waiting' = <<>> /\ report' = y)
  BY <1>1 DEF Tick
<1>5. /\ waiting' \in Seq(Event) /\ Len(waiting') <= MaxWaiting /\ Orderly(waiting', down')
      /\ Shown(report') /\ ~Slow(report') /\ Cover(report', waiting', down', overtaken')
  BY <1>2, <1>3, <1>4, Empty
<1> QED
  BY <1>2, <1>4, <1>5, KeyStep DEF Types

\* The tapping term is over: what waited is processed behind the layer-tap key.
LEMMA TermStep ==
    ASSUME KInv, TermEnds
    PROVE  KInv'
<1>1. PICK r, q, x, y :
        /\ r = report /\ q = waiting
        /\ x = (IF tapping = "undecided" THEN EndEncoder(report) ELSE report)
        /\ y = Processed(IF tapping = "undecided" THEN EndEncoder(report) ELSE report, waiting, FALSE)
  OBVIOUS
<1>2. /\ Types /\ Orderly(q, down) /\ Shown(r) /\ Cover(r, q, down, overtaken) /\ ~Slow(r)
      /\ q \in Seq(Event)
  BY <1>1, Before DEF TermEnds, Types
<1>3. Shown(x) /\ ~Slow(x) /\ Cover(x, q, down, overtaken)
  BY <1>1, <1>2, CoverClick
<1>4. y = Processed(x, q, FALSE)
  BY <1>1
<1>5. Shown(y) /\ ~Slow(y) /\ Cover(y, <<>>, down, overtaken)
  BY <1>2, <1>3, <1>4, DrainShown
<1>6. /\ pc = "key" /\ pc' = "send" /\ waiting' = <<>> /\ down' = down /\ shown' = shown
      /\ tapping' = "none" /\ lt' = lt /\ interrupted' = interrupted /\ overtaken' = overtaken
      /\ report' = y
  BY <1>1 DEF TermEnds
<1> QED
  BY <1>2, <1>5, <1>6, Empty, KeyStep DEF Types

\* Events that wait for the undecided key, or that a decision leaves, stay covered.
LEMMA WaitStep ==
    ASSUME NEW q \in Seq(Event), Wait(q), Shown(report), ~Slow(report),
           NEW d, NEW o, Cover(report, q, d, o)
    PROVE  /\ waiting' = q /\ tapping' \in {"none", "undecided"}
           /\ Shown(report') /\ ~Slow(report') /\ Cover(report', q, d, o)
<1>1. PICK r, x : r = report /\ x = EndEncoder(report)
  OBVIOUS
<1>2. waiting' = q /\ tapping' \in {"none", "undecided"} /\ report' \in {r, x}
  BY <1>1 DEF Wait
<1>3. Shown(x) /\ ~Slow(x) /\ Cover(x, q, d, o)
  BY <1>1, CoverClick
<1>4. Shown(r) /\ ~Slow(r) /\ Cover(r, q, d, o)
  BY <1>1
<1> QED
  BY <1>2, <1>3, <1>4

\* What is covered before an event, and what shall be covered after it, the keys d2 being
\* held then and the keys o2 overtaken.
Comes(r, q, e, d, o, d2, o2) ==
    /\ Cover(r, q, d, o) /\ d \cup o \subseteq d2 \cup o2 \cup {e.key}
    /\ IF e.pressed THEN d2 = d \cup {e.key}
       ELSE d2 = d \ {e.key} /\ r.btn_release_flag = {}

\* What holds of the report x when all events were processed.
Ends(x, r, d, o) == Shown(x) /\ (Slow(x) => Slow(r)) /\ Cover(x, <<>>, d, o)

\* The event is processed first, and what a decision has left behind it: the event may
\* overtake its key's waiting press.
LEMMA ActStep ==
    ASSUME NEW r, Shown(r), NEW q \in Seq(Event), NEW e \in Event, NEW d, NEW o, NEW d2, NEW o2,
           Orderly(q, d), Comes(r, q, e, d, o, d2, o2), d \subseteq d2 \cup o2
           \/ (e.key \notin d2 \cup o2 /\ \A i \in DOMAIN q : q[i] # Press(e.key))
    PROVE  Ends(Processed(r, <<e>> \o q, FALSE), r, d2, o2)
<1> DEFINE x == Processed(r, <<e>> \o q, FALSE)
<1> DEFINE a == <<e>>
<1> DEFINE b == <<>>
<1> DEFINE D == d2 \cup o2
<1> DEFINE B == (d2 \cap Buttons) \ {TapButton}
<1> DEFINE dq == {q[i].key : i \in {j \in DOMAIN q : q[j].pressed}}
<1>1. /\ e \in Record /\ e.key \in Keys /\ e.key \notin Wheels
      /\ e.pressed => e = Press(e.key)
  BY Sizes DEF Event, Record, Press
<1>2. /\ a \in Seq(Record) /\ Len(a) = 1 /\ a[1] = e /\ DOMAIN a = 1..1
      /\ b \in Seq(Record) /\ Len(b) = 0 /\ DOMAIN b = {}
  BY <1>1
<1>3. (a \o q) \o b = a \o q
  BY <1>2, EventsAreRecords, ConcatEmptySeq, ConcatProperties
<1>4. /\ Range(a) = {e} /\ After(a, 0) = {e.key}
  BY <1>2 DEF Range, After
<1> HIDE DEF a, b
<1>5. Orderly(q, dq) /\ dq \subseteq D \cup After(b, 0)
  <2>1. Orderly(q, dq)
    BY DEF Orderly
  <2>2. ASSUME NEW i \in DOMAIN q, q[i].pressed PROVE q[i].key \in D
    <3>1. q[i].key \in d /\ q[i] \in Event
      BY <2>2 DEF Orderly
    <3>2. q[i] = Press(q[i].key)
      BY <2>2, <3>1 DEF Event, Press
    <3> QED
      BY <2>2, <3>1, <3>2 DEF Comes
  <2> QED
    BY <2>1, <2>2
<1>6. Owned(r, D \cup After(a, 0) \cup After(q, 0) \cup After(b, 0))
  <2>1. d \cup o \cup After(q, 0) \subseteq D \cup After(a, 0) \cup After(q, 0) \cup After(b, 0)
    BY <1>4 DEF Comes
  <2> QED
    BY <2>1, OwnedByMore DEF Comes, Cover
<1>7. \A k \in B : k \in r.buttons \/ \E f \in Range(a) \cup Range(q) \cup Range(b) : f = Press(k)
  <2>1. \A k \in B : k \in d \/ (e.pressed /\ k = e.key)
    BY DEF Comes
  <2>2. \A k \in B : k \in d => k \in r.buttons \/ \E f \in Range(q) : f = Press(k)
    BY DEF Comes, Cover, Due, Range
  <2> QED
    BY <1>1, <1>4, <2>1, <2>2
<1>8. Fine(r, D \cup After(b, 0), B, e, FALSE)
  BY <1>1 DEF Fine, Comes
<1>9. (\A i \in 1..Len(a) : Fine(r, D \cup After(b, 0), B, a[i], FALSE))
      /\ (\A i \in 1..Len(b) : Fine(r, D \cup After(b, i), B, b[i], FALSE))
  <2>1. \A i \in 1..Len(a) : i = 1
    BY <1>2
  <2>2. \A i \in 1..Len(b) : FALSE
    BY <1>2
  <2> QED
    BY <1>2, <1>8, <2>1, <2>2
<1>10. B \in SUBSET Buttons /\ r \in Report /\ r.btn_release_flag \subseteq r.buttons
  BY DEF Shown
<1> HIDE DEF D, B, dq, x
<1>11. Passed(Processed(r, a \o q \o b, FALSE), r, D, B)
  BY <1>2, <1>5, <1>6, <1>7, <1>9, <1>10, AroundStep
<1>12. Passed(x, r, D, B)
  BY <1>3, <1>11 DEF a, x
<1>13. Shown(x)
  BY <1>12, KeptShown DEF Passed
<1>14. Owned(x, d2 \cup o2 \cup After(<<>>, 0)) /\ Due(x, (d2 \cap Buttons) \ {TapButton}, <<>>, 0)
  BY <1>12, Empty DEF D, B, Due, Passed
<1> QED
  BY <1>12, <1>13, <1>14 DEF Cover, Passed, Kept, Ends, x

\* What waits is processed first, and the event behind it.
LEMMA DecideStep ==
    ASSUME NEW r, Shown(r), NEW q \in Seq(Event), NEW e \in Event, NEW d, NEW o, NEW d2, NEW o2,
           Orderly(q, d), Comes(r, q, e, d, o, d2, o2)
    PROVE  Ends(Processed(r, Append(q, e), FALSE), r, d2, o2)
<1> DEFINE x == Processed(r, Append(q, e), FALSE)
<1> DEFINE a == <<>>
<1> DEFINE b == <<e>>
<1> DEFINE D == d2 \cup o2
<1> DEFINE B == (d2 \cap Buttons) \ {TapButton}
<1>1. /\ e \in Record /\ e.key \in Keys /\ e.key \notin Wheels
      /\ e.pressed => e = Press(e.key)
  BY Sizes DEF Event, Record, Press
<1>2. /\ b \in Seq(Record) /\ Len(b) = 1 /\ b[1] = e /\ DOMAIN b = 1..1
      /\ a \in Seq(Record) /\ Len(a) = 0 /\ DOMAIN a = {}
  BY <1>1
<1>3. a \o q \o b = Append(q, e)
  BY EventsAreRecords, ConcatEmptySeq, AppendIsConcat
<1>4. /\ Range(b) = {e} /\ After(b, 0) = {e.key}
  BY <1>2 DEF Range, After
<1> HIDE DEF a, b
<1>5. d \subseteq D \cup After(b, 0)
  BY <1>4 DEF Comes
<1>6. Owned(r, D \cup After(a, 0) \cup After(q, 0) \cup After(b, 0))
  <2>1. d \cup o \cup After(q, 0) \subseteq D \cup After(a, 0) \cup After(q, 0) \cup After(b, 0)
    BY <1>4 DEF Comes
  <2> QED
    BY <2>1, OwnedByMore DEF Comes, Cover
<1>7. \A k \in B : k \in r.buttons \/ \E f \in Range(a) \cup Range(q) \cup Range(b) : f = Press(k)
  <2>1. \A k \in B : k \in d \/ (e.pressed /\ k = e.key)
    BY DEF Comes
  <2>2. \A k \in B : k \in d => k \in r.buttons \/ \E f \in Range(q) : f = Press(k)
    BY DEF Comes, Cover, Due, Range
  <2> QED
    BY <1>1, <1>4, <2>1, <2>2
<1>8. Fine(r, D \cup After(b, 1), B, e, FALSE)
  BY <1>1 DEF Fine, Comes
<1>9. (\A i \in 1..Len(a) : Fine(r, D \cup After(b, 0), B, a[i], FALSE))
      /\ (\A i \in 1..Len(b) : Fine(r, D \cup After(b, i), B, b[i], FALSE))
  <2>1. \A i \in 1..Len(b) : i = 1
    BY <1>2
  <2>2. \A i \in 1..Len(a) : FALSE
    BY <1>2
  <2> QED
    BY <1>2, <1>8, <2>1, <2>2
<1>10. B \in SUBSET Buttons /\ r \in Report /\ r.btn_release_flag \subseteq r.buttons
  BY DEF Shown
<1> HIDE DEF D, B, x
<1>11. Passed(Processed(r, a \o q \o b, FALSE), r, D, B)
  BY <1>2, <1>5, <1>6, <1>7, <1>9, <1>10, AroundStep
<1>12. Passed(x, r, D, B)
  BY <1>3, <1>11 DEF x
<1>13. Shown(x)
  BY <1>12, KeptShown DEF Passed
<1>14. Owned(x, d2 \cup o2 \cup After(<<>>, 0)) /\ Due(x, (d2 \cap Buttons) \ {TapButton}, <<>>, 0)
  BY <1>12, Empty DEF D, B, Due, Passed
<1> QED
  BY <1>12, <1>13, <1>14 DEF Cover, Passed, Kept, Ends, x

\* Letting go of the modifier of a wheel action ends no click.
LEMMA EndsNoClick ==
    ASSUME NEW r \in Report
    PROVE  EndEncoder(r).btn_release_flag = r.btn_release_flag
BY DEF EndEncoder, Report

\* One more event that waits is covered when its key was, or comes with it.
LEMMA JoinStep ==
    ASSUME NEW r, NEW q \in Seq(Event), NEW d, NEW o, NEW d2, NEW o2, NEW e \in Event,
           Orderly(q, d), Cover(r, q, d, o), d \cup o \subseteq d2 \cup o2 \cup {e.key},
           \A i \in DOMAIN q : q[i].pressed => q[i].key \in d2,
           IF e.pressed THEN d2 = d \cup {e.key} ELSE d2 \subseteq d /\ Retained(e.key)
    PROVE  Orderly(Append(q, e), d2) /\ Cover(r, Append(q, e), d2, o2)
<1> DEFINE s == Append(q, e)
<1>1. /\ After(s, 0) = After(q, 0) \cup {e.key}
      /\ \A i \in 1..Len(q) : s[i] = q[i]
      /\ s[Len(q) + 1] = e /\ DOMAIN s = 1..(Len(q) + 1) /\ DOMAIN q = 1..Len(q) /\ Len(q) \in Nat
  BY AfterAppend
<1>2. \A i \in DOMAIN s : i \in DOMAIN q \/ i = Len(q) + 1
  BY <1>1
<1>3. \A i \in DOMAIN q : i \in DOMAIN s /\ i > 0
  BY <1>1
<1>4. Len(q) + 1 \in DOMAIN s /\ Len(q) + 1 > 0
  BY <1>1
<1>5. e.pressed => e = Press(e.key)
  BY DEF Event, Press
<1> HIDE DEF s
<1>6. Orderly(s, d2)
  BY <1>1, <1>2 DEF Orderly
<1>7. Owned(r, d2 \cup o2 \cup After(s, 0))
  <2>1. d \cup o \cup After(q, 0) \subseteq d2 \cup o2 \cup After(s, 0)
    BY <1>1
  <2> QED
    BY <2>1, OwnedByMore DEF Cover
<1>8. Due(r, (d2 \cap Buttons) \ {TapButton}, s, 0)
  <2> SUFFICES ASSUME NEW k \in (d2 \cap Buttons) \ {TapButton}, k \notin r.buttons
               PROVE  \E j \in DOMAIN s : j > 0 /\ s[j] = Press(k)
    BY DEF Due
  <2>1. CASE k \in d
    <3>1. PICK j \in DOMAIN q : j > 0 /\ q[j] = Press(k)
      BY <2>1 DEF Cover, Due
    <3> QED
      BY <1>1, <1>3, <3>1
  <2>2. CASE k \notin d
    BY <1>1, <1>4, <1>5, <2>2
  <2> QED
    BY <2>1, <2>2
<1> QED
  BY <1>6, <1>7, <1>8 DEF Cover, s

\* A press waits, or is processed behind or in front of what waits.
LEMMA PressStep ==
    ASSUME KInv, NEW k \in Keys, KeyPress(k)
    PROVE  KInv'
<1>1. PICK r, q, e, x, d, o, d2, o2 :
        /\ r = report /\ q = waiting /\ e = Press(k) /\ x = EndEncoder(report)
        /\ d = down /\ o = overtaken /\ d2 = down' /\ o2 = overtaken'
  OBVIOUS
<1>2. /\ Types /\ Orderly(q, d) /\ Shown(r) /\ Cover(r, q, d, o) /\ ~Slow(r)
      /\ q \in Seq(Event) /\ Len(q) \in Nat
  BY <1>1, Before DEF KeyPress, Types
<1>3. e \in Event /\ e.pressed /\ e.key = k
  BY <1>1 DEF Press, Event
<1>4. /\ pc = "key" /\ pc' = "send" /\ down' = down \cup {k} /\ overtaken' = overtaken \ {k}
      /\ shown' = shown /\ lt' = lt
      /\ interrupted' = (interrupted \/ tapping \in {"undecided", "tapped"})
  BY DEF KeyPress
<1>5. Comes(r, q, e, d, o, d2, o2)
  BY <1>1, <1>2, <1>3, <1>4 DEF Comes
<1>6. /\ waiting' \in Seq(Event) /\ Len(waiting') <= MaxWaiting /\ Orderly(waiting', d2)
      /\ Shown(report') /\ ~Slow(report') /\ Cover(report', waiting', d2, o2)
      /\ tapping' \in {"none", "undecided", "tapped", "again"}
  <2>1. CASE Len(waiting) < MaxWaiting /\ Wait(Append(waiting, Press(k)))
    <3>1. Orderly(Append(q, e), d2) /\ Cover(r, Append(q, e), d2, o2)
      <4>1. \A i \in DOMAIN q : q[i].pressed => q[i].key \in d2
        BY <1>1, <1>2, <1>4 DEF Orderly
      <4> QED
        BY <1>1, <1>2, <1>3, <1>4, <4>1, JoinStep
    <3>2. Append(q, e) \in Seq(Event) /\ Len(Append(q, e)) <= MaxWaiting
      BY <1>1, <1>2, <1>3, <2>1, AfterAppend, KeymapAssumption
    <3>3. /\ waiting' = Append(q, e) /\ tapping' \in {"none", "undecided"}
          /\ Shown(report') /\ ~Slow(report') /\ Cover(report', Append(q, e), d2, o2)
      BY <1>1, <1>2, <2>1, <3>1, <3>2, WaitStep
    <3> QED
      BY <3>1, <3>2, <3>3
  <2>2. CASE Decide(Press(k))
    <3>1. /\ Shown(x) /\ ~Slow(x) /\ Cover(x, q, d, o)
      BY <1>1, <1>2, CoverClick
    <3>2. Comes(x, q, e, d, o, d2, o2)
      BY <1>3, <1>5, <3>1 DEF Comes
    <3>3. /\ tapping' = "none" /\ waiting' = <<>> /\ report' = Processed(x, Append(q, e), FALSE)
      BY <1>1, <2>2 DEF Decide
    <3>4. Ends(Processed(x, Append(q, e), FALSE), x, d2, o2)
      BY <1>2, <1>3, <3>1, <3>2, DecideStep
    <3>5. Shown(report') /\ ~Slow(report') /\ Cover(report', <<>>, d2, o2)
      BY <3>1, <3>3, <3>4 DEF Ends
    <3> QED
      BY <1>1, <3>3, <3>5, Empty
  <2>3. CASE Act(Press(k))
    <3>1. /\ tapping' = tapping /\ waiting' = <<>> /\ report' = Processed(r, <<e>> \o q, FALSE)
      BY <1>1, <2>3 DEF Act
    <3>2. d \subseteq d2 \cup o2
      BY <1>1, <1>4
    <3>3. Ends(Processed(r, <<e>> \o q, FALSE), r, d2, o2)
      BY <1>2, <1>3, <1>5, <3>2, ActStep
    <3>4. Shown(report') /\ ~Slow(report') /\ Cover(report', <<>>, d2, o2)
      BY <1>2, <3>1, <3>3 DEF Ends
    <3> QED
      BY <1>1, <1>2, <3>1, <3>4, Empty DEF Types
  <2> QED
    BY <2>1, <2>2, <2>3 DEF KeyPress
<1>7. down' \subseteq Keys /\ overtaken' \subseteq Keys /\ lt' \in BOOLEAN /\ interrupted' \in BOOLEAN
  BY <1>2, <1>4 DEF Types
<1> QED
  BY <1>1, <1>4, <1>6, <1>7, KeyStep

\* A release is processed around what waits, waits for its turn, or goes in front when
\* nothing of its key waits and it need not wait.
LEMMA ReleaseStep ==
    ASSUME KInv, NEW k \in Keys, KeyRelease(k)
    PROVE  KInv'
<1>1. PICK r, q, e, x, d, o, d2, o2 :
        /\ r = report /\ q = waiting /\ e = Release(k) /\ x = EndEncoder(report)
        /\ d = down /\ o = overtaken /\ d2 = down' /\ o2 = overtaken'
  OBVIOUS
<1>2. /\ Types /\ Orderly(q, d) /\ Shown(r) /\ Cover(r, q, d, o) /\ ~Slow(r)
      /\ q \in Seq(Event) /\ Len(q) \in Nat /\ r \in Report /\ r.btn_release_flag = {}
  BY <1>1, Before DEF KeyRelease, Types
<1>3. e \in Event /\ ~e.pressed /\ e.key = k /\ e \in Record /\ k \notin Wheels
  BY <1>1, Sizes DEF Release, Event, Record
<1>4. /\ pc = "key" /\ pc' = "send" /\ k \in d /\ d2 = d \ {k}
      /\ shown' = shown /\ lt' = lt /\ interrupted' = interrupted
      /\ o2 = o \cup {y \in {k} : tapping # "undecided" /\ Press(k) \in ToSet(q)}
  BY <1>1 DEF KeyRelease
<1>5. d2 \subseteq Keys /\ o2 \subseteq Keys /\ o \subseteq o2
  BY <1>1, <1>2, <1>4 DEF Types
<1>6. Comes(r, q, e, d, o, d2, o2)
  BY <1>2, <1>3, <1>4, <1>5 DEF Comes
<1>7. ASSUME Press(k) \notin ToSet(q)
      PROVE  /\ \A i \in DOMAIN q : q[i] # Press(k)
             /\ \A i \in DOMAIN q : q[i].pressed => q[i].key \in d2
  <2>1. \A i \in DOMAIN q : q[i] # Press(k)
    BY <1>7 DEF ToSet
  <2>2. ASSUME NEW i \in DOMAIN q, q[i].pressed PROVE q[i] = Press(q[i].key)
    <3>1. q[i] \in Event
      BY <1>2
    <3> QED
      BY <2>2, <3>1 DEF Event, Press
  <2>3. \A i \in DOMAIN q : q[i].pressed => q[i].key # k
    BY <2>1, <2>2
  <2> QED
    BY <1>2, <1>4, <2>1, <2>3 DEF Orderly
<1>8. /\ waiting' \in Seq(Event) /\ Len(waiting') <= MaxWaiting /\ Orderly(waiting', d2)
      /\ Shown(report') /\ ~Slow(report') /\ Cover(report', waiting', d2, o2)
      /\ tapping' \in {"none", "undecided", "tapped", "again"}
  <2>1. CASE Decide(Release(k))
    <3>1. Shown(x) /\ ~Slow(x) /\ Cover(x, q, d, o) /\ x.btn_release_flag = {}
      BY <1>1, <1>2, CoverClick, EndsNoClick
    <3>2. Comes(x, q, e, d, o, d2, o2)
      BY <1>3, <1>6, <3>1 DEF Comes
    <3>3. /\ tapping' = "none" /\ waiting' = <<>> /\ report' = Processed(x, Append(q, e), FALSE)
      BY <1>1, <2>1 DEF Decide
    <3>4. Ends(Processed(x, Append(q, e), FALSE), x, d2, o2)
      BY <1>2, <1>3, <3>1, <3>2, DecideStep
    <3>5. Shown(report') /\ ~Slow(report') /\ Cover(report', <<>>, d2, o2)
      BY <3>1, <3>3, <3>4 DEF Ends
    <3> QED
      BY <3>3, <3>5, Empty
  <2>2. CASE Act(Release(k))
    <3>1. /\ tapping' = tapping /\ tapping # "undecided" /\ waiting' = <<>>
          /\ report' = Processed(r, <<e>> \o q, FALSE)
      BY <1>1, <2>2 DEF Act
    <3>2. CASE k \in o2
      <4>1. d \subseteq d2 \cup o2
        BY <1>4, <3>2
      <4> QED
        <5>1. Ends(Processed(r, <<e>> \o q, FALSE), r, d2, o2)
          BY <1>2, <1>3, <1>6, <4>1, ActStep
        <5> QED
          BY <1>2, <3>1, <5>1, Empty DEF Types, Ends
    <3>3. CASE k \notin o2
      <4>1. e.key \notin d2 \cup o2 /\ \A i \in DOMAIN q : q[i] # Press(e.key)
        BY <1>3, <1>4, <1>7, <3>1, <3>3
      <4>2. Ends(Processed(r, <<e>> \o q, FALSE), r, d2, o2)
        BY <1>2, <1>3, <1>6, <4>1, ActStep
      <4> QED
        BY <1>2, <3>1, <4>2, Empty DEF Types, Ends
    <3> QED
      BY <3>2, <3>3
  <2>3. CASE /\ Press(k) \notin ToSet(waiting) /\ Retained(k) /\ Len(waiting) < MaxWaiting
             /\ Wait(Append(waiting, Release(k)))
    <3>1. Orderly(Append(q, e), d2) /\ Cover(r, Append(q, e), d2, o2)
      <4>1. \A i \in DOMAIN q : q[i].pressed => q[i].key \in d2
        BY <1>1, <1>7, <2>3
      <4>2. d \cup o \subseteq d2 \cup o2 \cup {e.key} /\ d2 \subseteq d
        BY <1>3, <1>4, <1>5
      <4> QED
        BY <1>2, <1>3, <2>3, <4>1, <4>2, JoinStep
    <3>2. Append(q, e) \in Seq(Event) /\ Len(Append(q, e)) <= MaxWaiting
      BY <1>1, <1>2, <1>3, <2>3, AfterAppend, KeymapAssumption
    <3>3. /\ waiting' = Append(q, e) /\ tapping' \in {"none", "undecided"}
          /\ Shown(report') /\ ~Slow(report') /\ Cover(report', Append(q, e), d2, o2)
      BY <1>1, <1>2, <2>3, <3>1, <3>2, WaitStep
    <3> QED
      BY <3>1, <3>2, <3>3
  <2>4. CASE /\ tapping = "undecided" /\ Press(k) \notin ToSet(waiting)
             /\ report' = process_record(report, Release(k), FALSE)
             /\ UNCHANGED <<tapping, waiting>>
    <3>1. PICK y : y = process_record(r, e, FALSE)
      OBVIOUS
    <3>2. report' = y /\ waiting' = q /\ tapping' = tapping
      BY <1>1, <2>4, <3>1
    <3>3. PICK P : P = d \cup o \cup After(q, 0)
      OBVIOUS
    <3>4. y \in Report /\ Kept(r, y) /\ Owned(y, P \ {k}) /\ Presses(r, y, e)
      BY <1>2, <1>3, <3>1, <3>3, RecordStep DEF Cover
    <3>5. P \ {k} \subseteq d2 \cup o2 \cup After(q, 0)
      BY <1>4, <1>5, <3>3
    <3>6. Owned(y, d2 \cup o2 \cup After(q, 0))
      BY <3>4, <3>5, OwnedByMore
    <3>7. Due(y, (d2 \cap Buttons) \ {TapButton}, q, 0)
      <4>1. \A j \in (d2 \cap Buttons) \ {TapButton} : j # e.key /\ j \in d
        BY <1>3, <1>4
      <4> QED
        BY <1>2, <3>4, <4>1 DEF Presses, Cover, Due
    <3>8. Shown(y)
      BY <1>2, <3>4, KeptShown DEF Kept
    <3>9. Orderly(q, d2)
      BY <1>1, <1>2, <1>7, <2>4 DEF Orderly
    <3> QED
      BY <1>1, <1>2, <3>2, <3>4, <3>6, <3>7, <3>8, <3>9 DEF Types, Kept, Cover
  <2> QED
    BY <2>1, <2>2, <2>3, <2>4 DEF KeyRelease
<1>9. lt' \in BOOLEAN /\ interrupted' \in BOOLEAN
  BY <1>2, <1>4 DEF Types
<1> QED
  BY <1>1, <1>4, <1>5, <1>8, <1>9, KeyStep

\* The layer-tap key is pressed: its click, or it is undecided and what waits is looked at.
LEMMA TapPressStep ==
    ASSUME KInv, TapPress
    PROVE  KInv'
<1>1. PICK r, q : r = report /\ q = waiting
  OBVIOUS
<1>2. /\ Types /\ Orderly(q, down) /\ Shown(r) /\ Cover(r, q, down, overtaken) /\ ~Slow(r)
      /\ q \in Seq(Event) /\ Len(q) <= MaxWaiting
  BY <1>1, Before DEF TapPress, Types
<1>3. /\ pc = "key" /\ pc' = "send" /\ down' = down /\ overtaken' = overtaken /\ shown' = shown
      /\ lt' \in BOOLEAN /\ interrupted' \in BOOLEAN
  BY DEF TapPress
<1>4. /\ waiting' = q /\ tapping' \in {"none", "undecided", "again"}
      /\ Shown(report') /\ ~Slow(report') /\ Cover(report', q, down, overtaken)
  <2>1. CASE tapping' = "again" /\ report' = Click(report) /\ UNCHANGED waiting
    BY <1>1, <1>2, <2>1, CoverClick
  <2>2. CASE Wait(waiting)
    BY <1>1, <1>2, <2>2, WaitStep
  <2> QED
    BY <2>1, <2>2 DEF TapPress
<1> QED
  BY <1>2, <1>3, <1>4, KeyStep DEF Types

\* The layer-tap key is released: clicks or not, and what waits is processed.
LEMMA TapReleaseStep ==
    ASSUME KInv, TapRelease
    PROVE  KInv'
<1>1. PICK r, q, x, c, u, v :
        /\ r = report /\ q = waiting /\ x = EndEncoder(report) /\ c = Click(report)
        /\ u = Processed(EndEncoder(report), waiting, FALSE)
        /\ v = Processed(Click(report), waiting, FALSE)
  OBVIOUS
<1>2. /\ Types /\ Orderly(q, down) /\ Shown(r) /\ Cover(r, q, down, overtaken) /\ q \in Seq(Event)
  BY <1>1, Before DEF TapRelease, Types
<1>3. /\ Shown(x) /\ ~Slow(x) /\ Cover(x, q, down, overtaken)
      /\ Shown(c) /\ ~Slow(c) /\ Cover(c, q, down, overtaken)
  BY <1>1, <1>2, CoverClick
<1>4. u = Processed(x, q, FALSE) /\ v = Processed(c, q, FALSE)
  BY <1>1
<1>5. /\ Shown(u) /\ ~Slow(u) /\ Cover(u, <<>>, down, overtaken)
      /\ Shown(v) /\ ~Slow(v) /\ Cover(v, <<>>, down, overtaken)
  BY <1>2, <1>3, <1>4, DrainShown
<1>6. /\ Shown(EndEncoder(u)) /\ ~Slow(EndEncoder(u)) /\ Cover(EndEncoder(u), <<>>, down, overtaken)
      /\ Shown(Click(v)) /\ ~Slow(Click(v)) /\ Cover(Click(v), <<>>, down, overtaken)
  BY <1>5, CoverClick
<1>7. /\ pc = "key" /\ pc' = "send" /\ down' = down /\ overtaken' = overtaken /\ shown' = shown
      /\ lt' \in BOOLEAN /\ interrupted' = interrupted /\ waiting' = <<>>
      /\ tapping' \in {"none", "undecided", "tapped", "again"}
      /\ report' \in {u, v, EndEncoder(u), Click(v)}
  BY <1>1, <1>2 DEF TapRelease, Types
<1>8. Shown(report') /\ ~Slow(report') /\ Cover(report', <<>>, down, overtaken)
  BY <1>5, <1>6, <1>7
<1> QED
  BY <1>2, <1>7, <1>8, Empty, KeyStep DEF Types

\* Nothing is held and nothing waits at first.
LEMMA InitInv == Init => KInv
<1> SUFFICES ASSUME Init PROVE KInv
  OBVIOUS
<1>1. Types
  <2>1. report \in Report
    BY Sizes DEF Init, Report
  <2> QED
    BY <2>1, Empty DEF Init, Types
<1>2. Clicks /\ (pc \in {"key", "send"} => ~Slow(report))
  BY DEF Init, Clicks, Slow
<1>3. Orderly(waiting, down)
  BY Empty DEF Init
<1>4. Cover(report, waiting, down, overtaken)
  BY DEF Init, Cover, Owned, Due
<1> QED
  BY <1>1, <1>2, <1>3, <1>4, Typed DEF KInv

\* Every step keeps the owners of what the report shows.
LEMMA StepInv == KInv /\ [Next]_vars => KInv'
<1> SUFFICES ASSUME KInv, [Next]_vars PROVE KInv'
  OBVIOUS
<1>1. CASE UNCHANGED vars
  BY <1>1 DEF vars, KInv, TypeOK, Clicks, Orderly, Cover, Owned, Due, After, Slow
<1>2. CASE NoReport \/ Move
  BY <1>2, CustomStep
<1>3. CASE Turns
  BY <1>3, TurnStep DEF Turns
<1>4. CASE matrix_scan_kb
  BY <1>4, ScanStep
<1>5. CASE Tick
  BY <1>5, TickStep
<1>6. CASE TermEnds
  BY <1>6, TermStep
<1>7. CASE TapPress
  BY <1>7, TapPressStep
<1>8. CASE TapRelease
  BY <1>8, TapReleaseStep
<1>9. CASE \E k \in Keys : KeyPress(k) \/ KeyRelease(k)
  BY <1>9, PressStep, ReleaseStep
<1>10. CASE \E delay \in 0..MaxDelay : pointing_device_task(delay)
  BY <1>10, SendStep
<1> QED
  BY <1>1, <1>2, <1>3, <1>4, <1>5, <1>6, <1>7, <1>8, <1>9, <1>10 DEF Next

\* KInv is an invariant.
LEMMA AlwaysInv == Spec => []KInv
BY InitInv, StepInv, PTL DEF Spec

-----------------------------------------------------------------------------
(* What is promised.                                                       *)

\* Every state is of its type, whatever the keymap: the time of a modifier stays bounded
\* (main.c, matrix_scan_kb) and no button is shown that is not one.
THEOREM KeymapTypes == Spec => []TypeOK
<1>1. KInv => TypeOK
  BY DEF KInv
<1> QED
  BY <1>1, AlwaysInv, PTL

\* No modifier is stuck: each one the report shows belongs to a key that is held, or an
\* event of which still waits, to the wheel action, to a release taken for a part of one,
\* or to a key whose release was processed before its waiting press (action.c, main.c).
THEOREM ModifiersAccounted == Spec => []ModsAccounted
<1>1. KInv => ModsAccounted
  <2> SUFFICES ASSUME KInv PROVE ModsAccounted
    OBVIOUS
  <2> DEFINE K == down \cup {e.key : e \in ToSet(waiting)} \cup overtaken
  <2>1. Types /\ waiting \in Seq(Event)
    BY Before DEF Types
  <2>2. down \cup overtaken \cup After(waiting, 0) \subseteq K
    BY DEF After, ToSet
  <2>3. \A k \in down \cup overtaken \cup After(waiting, 0) : k \in Keys
    <3>1. \A i \in DOMAIN waiting : waiting[i] \in Event
      BY <2>1
    <3>2. \A i \in DOMAIN waiting : waiting[i].key \in Keys
      BY <3>1 DEF Event
    <3> QED
      BY <2>1, <3>2 DEF Types, After
  <2>4. \A k \in Keys : Shows(k) = Held(k)
    BY Sizes DEF Shows
  <2> HIDE DEF K
  <2>5. \A m \in report.mods : m \in report.encoder_modifier \cup report.cut
                               \/ \E k \in K : m \in Held(k)
    BY <2>2, <2>3, <2>4 DEF KInv, Cover, Owned
  <2> QED
    BY <2>5 DEF ModsAccounted, K
<1> QED
  BY <1>1, AlwaysInv, PTL

\* Before a scan the USB driver has the buttons as they are, and they are the held ones:
\* no other is left on but by a click that ends with the scan or by a release processed
\* before its waiting press, and none that is held is left out but for its waiting press
\* or the layer-tap key's own click (keymap.c, matrix_scan_user, pointing_device_task).
THEOREM HostFollowsButtons == Spec => []ButtonsFollow
<1>1. KInv => ButtonsFollow
  <2> SUFFICES ASSUME KInv, pc = "custom"
               PROVE  /\ shown = report.buttons
                      /\ report.btn_release_flag \subseteq shown
                      /\ shown \subseteq down \cup report.btn_release_flag \cup overtaken
                      /\ \A k \in (down \cap Buttons) \ {TapButton} :
                            k \in shown \/ Press(k) \in ToSet(waiting)
    BY DEF ButtonsFollow
  <2>1. shown = report.buttons /\ report.btn_release_flag \subseteq shown
    BY DEF KInv, Clicks
  <2>2. report.buttons \subseteq down \cup overtaken \cup After(waiting, 0) \cup report.btn_release_flag
    BY DEF KInv, Cover, Owned
  <2>3. After(waiting, 0) \cap Buttons \subseteq down
    <3>1. \A i \in DOMAIN waiting : waiting[i].key \in Buttons => waiting[i].key \in down
      BY Sizes DEF KInv, Orderly
    <3> QED
      BY <3>1 DEF After
  <2>4. report.buttons \subseteq Buttons
    BY Before DEF Types, Report
  <2>5. \A k \in (down \cap Buttons) \ {TapButton} : k \in shown \/ Press(k) \in ToSet(waiting)
    BY <2>1 DEF KInv, Cover, Due, ToSet
  <2> QED
    BY <2>1, <2>2, <2>3, <2>4, <2>5
<1> QED
  BY <1>1, AlwaysInv, PTL
=============================================================================
