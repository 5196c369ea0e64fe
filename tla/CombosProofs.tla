---------------------------- MODULE CombosProofs ----------------------------
(***************************************************************************)
(* Every press is in one place, and a combo is registered as long as one   *)
(* of its keys has to be released.                                         *)
(***************************************************************************)
EXTENDS Combos, FiniteSetTheorems, SequenceTheorems, TLAPS

-----------------------------------------------------------------------------
(* The inductive invariant.                                                *)

\* The keys that are kept back.
Kept == {key_buffer[i].key : i \in DOMAIN key_buffer}

\* The key that is going to be.
Pending == IF event.pressed /\ part THEN {event.key} ELSE {}

\* The combos that have their keys in the buffer, before and after apply_combo.
Open == {c \in Range(prepared) \ disabled : step = "apply" => c \in Range(walk)}
New  == active \ fired

\* What the loop of process_combo has taken off the state of combo c.
Lifted(c) == IF ~event.pressed /\ c \notin todo THEN {event.key} ELSE {}

\* Combo c is complete with some entry of the buffer.
Complete(c) == \E i \in Mine(c) : UpTo(c, i) = Chords[c]

Away == Kept \cup registered \cup UNION {state[c] : c \in fired}

\* The event is that of a key whose press or release was the last one, and the
\* loops are where they are.
LoopOK ==
    /\ step = "idle" => event = NoEvent /\ part = FALSE /\ walk = <<>>
    /\ step \in {"idle", "apply"} => todo = {}
    /\ step \in {"single", "overlaps"} => event.key # NoKey
    /\ step = "single" => walk = <<>>
    /\ step = "apply" => ~(event.pressed /\ part)
    /\ event.key = NoKey => event = NoEvent /\ part = FALSE
    /\ event.key # NoKey => (event.pressed <=> event.key \in down)
    /\ event.pressed => event.key \in Keys
    /\ \A c \in todo : event.key \in Chords[c]

\* A key is in at most one place; it is in one if it is down, the key of the event
\* apart.
PlacesOK ==
    /\ \A i, j \in DOMAIN key_buffer : i # j => key_buffer[i].key # key_buffer[j].key
    /\ Kept \cap registered = {}
    /\ \A c \in fired : state[c] \cap (Kept \cup registered) = {}
    /\ \A c, d \in fired : c # d => state[c] \cap state[d] = {}
    /\ \A k \in Keys \ {event.key} : k \in down <=> k \in Away
    /\ event.pressed => event.key \notin Away

\* A combo that is not active knows of no key but those kept back.
StateOK ==
    /\ \A c \in ComboIds : state[c] \subseteq Chords[c]
    /\ \A c \in ComboIds \ active : state[c] \subseteq Kept \cup Pending
    /\ \A c \in active : state[c] # {} \/ Alone(c)
    /\ fired \subseteq active
    /\ step # "apply" => New = {} /\ \A i \in DOMAIN key_buffer :
                                        key_buffer[i].combo = 0 /\ ~key_buffer[i].tick

\* The combos in the ring that did not give way have their keys in the buffer, each
\* its own.
RingOK ==
    /\ prepared # <<>> => enabled
    /\ \A c \in Open :
          /\ c \notin active
          /\ state[c] = Chords[c] \ Lifted(c)
          /\ Chords[c] \subseteq Kept \cup Pending
          /\ Chords[c] \subseteq Kept => Complete(c)
    /\ \A c, d \in Open : c # d => Chords[c] \cap Chords[d] = {}

\* A combo that is complete and did not give way is in the ring, or on its way there.
ReadyOK ==
    step # "apply" => \A c \in ComboIds \ disabled :
        Ready(c) => c \in Range(prepared) \/ (step = "overlaps" /\ Current(c))

\* What a release has found so far.
ReleaseOK ==
    ~event.pressed =>
        /\ \A c \in ComboIds : event.key \in state[c] => c \in todo
        /\ part => event.key \notin registered
        /\ part /\ event.key \in Kept => \E c \in Open \cup New : event.key \in Chords[c]
        /\ ~part => \A c \in (Open \cup New) \ todo : event.key \notin Chords[c]

\* The combo that is on its way into the ring.
OverlapOK ==
    step = "overlaps" =>
        /\ event.pressed /\ part /\ enabled
        /\ \A c \in todo : Current(c) =>
              /\ c \notin disabled /\ c \notin active /\ state[c] = Chords[c]
              /\ \A d \in Open \ Range(walk) : Chords[d] \cap Chords[c] = {}

\* The buffer while the ring is applied.
ApplyOK ==
    step = "apply" =>
        /\ Range(walk) \ disabled \subseteq Range(prepared)
        /\ \A i \in DOMAIN key_buffer :
              LET r == key_buffer[i]
              IN  /\ r.combo # 0 => r.combo \in New /\ ~r.tick /\ r.key \in Chords[r.combo]
                  /\ r.tick => \E c \in New : r.key \in Chords[c]
                  /\ \A c \in New : r.key \in Chords[c] => r.tick \/ r.combo # 0
        /\ \A c \in New :
              /\ \E i \in DOMAIN key_buffer : key_buffer[i].combo = c
              /\ Chords[c] \subseteq Kept /\ state[c] = Chords[c] \ Lifted(c)
              /\ \A d \in Open : Chords[c] \cap Chords[d] = {}
              /\ \A d \in New \ {c} : Chords[c] \cap Chords[d] = {}

CoreInv == PlacesOK /\ StateOK /\ RingOK /\ ReadyOK /\ ReleaseOK /\ OverlapOK /\ ApplyOK

CombosInv == TypeOK /\ LoopOK /\ (~overrun => CoreInv)

-----------------------------------------------------------------------------
(* Sequences.                                                              *)

\* The elements of the empty sequence, of a sequence without its head, of a longer one.
LEMMA RangeEmpty == Range(<<>>) = {}
  BY DEF Range

LEMMA RangeTail ==
  ASSUME NEW S, NEW q \in Seq(S), q # <<>>
  PROVE  /\ Head(q) \in S /\ Tail(q) \in Seq(S)
         /\ Len(q) \in Nat \ {0} /\ Len(Tail(q)) = Len(q) - 1
         /\ Head(q) \in Range(q)
         /\ Range(q) = {Head(q)} \cup Range(Tail(q))
  <1>1. Head(q) \in S /\ Tail(q) \in Seq(S) /\ Len(Tail(q)) = Len(q) - 1
    BY HeadTailProperties
  <1>2. Len(q) \in Nat \ {0} /\ DOMAIN q = 1 .. Len(q) /\ Head(q) = q[1]
    BY EmptySeq, LenProperties
  <1>3. DOMAIN Tail(q) = 1 .. Len(q) - 1
    BY <1>1, LenProperties
  <1>4. \A i \in DOMAIN Tail(q) : Tail(q)[i] = q[i + 1]
    BY <1>1, <1>3, HeadTailProperties
  <1>5. ASSUME NEW x \in Range(q) PROVE x = Head(q) \/ x \in Range(Tail(q))
    <2>1. PICK i \in 1 .. Len(q) : x = q[i]
      BY <1>2 DEF Range
    <2>2. CASE i = 1
      BY <2>1, <2>2, <1>2
    <2>3. CASE i # 1
      <3>1. i - 1 \in DOMAIN Tail(q) /\ (i - 1) + 1 = i
        BY <2>3, <1>2, <1>3
      <3>2. Tail(q)[i - 1] = x
        BY <3>1, <2>1, <1>4
      <3> QED BY <3>1, <3>2 DEF Range
    <2> QED BY <2>2, <2>3
  <1>6. ASSUME NEW x \in Range(Tail(q)) PROVE x \in Range(q)
    <2>1. PICK i \in DOMAIN Tail(q) : x = Tail(q)[i]
      BY DEF Range
    <2>2. i + 1 \in DOMAIN q /\ q[i + 1] = x
      BY <2>1, <1>2, <1>3, <1>4
    <2> QED BY <2>2 DEF Range
  <1>7. Head(q) \in Range(q)
    <2>1. 1 \in DOMAIN q
      BY <1>2
    <2> QED BY <2>1, <1>2 DEF Range
  <1> QED BY <1>1, <1>2, <1>5, <1>6, <1>7

LEMMA RangeAppend ==
  ASSUME NEW S, NEW q \in Seq(S), NEW e \in S
  PROVE  /\ Append(q, e) \in Seq(S) /\ Len(Append(q, e)) = Len(q) + 1
         /\ Len(q) \in Nat /\ DOMAIN q = 1 .. Len(q)
         /\ DOMAIN Append(q, e) = 1 .. Len(q) + 1
         /\ \A i \in DOMAIN q : Append(q, e)[i] = q[i]
         /\ Append(q, e)[Len(q) + 1] = e
         /\ Range(Append(q, e)) = Range(q) \cup {e}
  <1> DEFINE r == Append(q, e)
  <1>1. r \in Seq(S) /\ Len(r) = Len(q) + 1 /\ r[Len(q) + 1] = e
        /\ \A i \in 1 .. Len(q) : r[i] = q[i]
    BY AppendProperties
  <1>2. Len(q) \in Nat /\ DOMAIN q = 1 .. Len(q) /\ DOMAIN r = 1 .. Len(q) + 1
    BY <1>1, LenProperties
  <1>3. ASSUME NEW x \in Range(r) PROVE x \in Range(q) \cup {e}
    <2>1. PICK i \in 1 .. Len(q) + 1 : x = r[i]
      BY <1>2 DEF Range
    <2>2. CASE i = Len(q) + 1
      BY <2>1, <2>2, <1>1
    <2>3. CASE i # Len(q) + 1
      <3>1. i \in 1 .. Len(q)
        BY <2>3, <1>2
      <3> QED BY <3>1, <2>1, <1>1, <1>2 DEF Range
    <2> QED BY <2>2, <2>3
  <1>4. ASSUME NEW x \in Range(q) \cup {e} PROVE x \in Range(r)
    <2>1. CASE x = e
      <3>1. Len(q) + 1 \in DOMAIN r
        BY <1>2
      <3> QED BY <3>1, <2>1, <1>1 DEF Range
    <2>2. CASE x \in Range(q)
      <3>1. PICK i \in DOMAIN q : x = q[i]
        BY <2>2 DEF Range
      <3>2. i \in DOMAIN r /\ r[i] = x
        BY <3>1, <1>1, <1>2
      <3> QED BY <3>2 DEF Range
    <2> QED BY <2>1, <2>2
  <1> QED BY <1>1, <1>2, <1>3, <1>4

-----------------------------------------------------------------------------
(* Combos.                                                                 *)

LEMMA ComboFacts ==
  /\ ComboIds \subseteq Nat \ {0}
  /\ \A c \in ComboIds : Chords[c] \subseteq Keys
  /\ \A c \in ComboIds : Chords[c] # {}
  /\ NoKey \notin Keys /\ NoKey \notin Control
  <1>1. Chords \in Seq(SUBSET Keys)
    BY CombosAssumption
  <1>2. Len(Chords) \in Nat /\ DOMAIN Chords = 1 .. Len(Chords)
        /\ \A c \in 1 .. Len(Chords) : Chords[c] \in SUBSET Keys
    BY <1>1, LenProperties, ElementOfSeq
  <1> QED BY <1>2, CombosAssumption DEF ComboIds

LEMMA DomainFacts ==
  ASSUME TypeOK
  PROVE  /\ DOMAIN key_buffer = 1 .. Len(key_buffer) /\ Len(key_buffer) \in Nat
         /\ \A i \in DOMAIN key_buffer : key_buffer[i] \in Buffered
         /\ Range(prepared) \subseteq ComboIds /\ Range(walk) \subseteq ComboIds
         /\ Len(prepared) \in Nat
  <1>1. key_buffer \in Seq(Buffered) /\ prepared \in Seq(ComboIds) /\ walk \in Seq(ComboIds)
    BY DEF TypeOK
  <1>2. DOMAIN key_buffer = 1 .. Len(key_buffer) /\ Len(key_buffer) \in Nat
        /\ \A i \in 1 .. Len(key_buffer) : key_buffer[i] \in Buffered
    BY <1>1, LenProperties, ElementOfSeq
  <1>3. Len(prepared) \in Nat /\ \A i \in DOMAIN prepared : prepared[i] \in ComboIds
    BY <1>1, LenProperties, ElementOfSeq
  <1>4. \A i \in DOMAIN walk : walk[i] \in ComboIds
    BY <1>1, LenProperties, ElementOfSeq
  <1> QED BY <1>2, <1>3, <1>4 DEF Range

-----------------------------------------------------------------------------
(* Types.                                                                  *)

\* A sequence of nothing.
LEMMA NoSeq == \A S : <<>> \in Seq(S) /\ Len(<<>>) = 0
  BY EmptySeq

LEMMA TypeReturn ==
  ASSUME TypeOK, Return
  PROVE  /\ phase' \in {"task", "event"} /\ step' = "idle" /\ todo' \subseteq ComboIds
         /\ part' \in BOOLEAN /\ walk' \in Seq(ComboIds)
         /\ event' \in [key : Keys \cup Control \cup {NoKey}, pressed : BOOLEAN]
  <1>1. walk' \in Seq(ComboIds)
    BY NoSeq DEF Return
  <1> QED BY <1>1 DEF TypeOK, Return, NoEvent

LEMMA TypeDump ==
  ASSUME TypeOK, dump_key_buffer, event.pressed => event.key \in Keys
  PROVE  /\ key_buffer' \in Seq(Buffered) /\ Len(key_buffer') <= COMBO_KEY_BUFFER_LENGTH
         /\ registered' \subseteq Keys /\ fired' \subseteq ComboIds
  <1> DEFINE going == {r \in Range(key_buffer) : ~r.tick}
             keys  == registered \cup {r.key : r \in {s \in going : s.combo = 0}}
  <1>1. key_buffer' \in Seq(Buffered) /\ Len(key_buffer') <= COMBO_KEY_BUFFER_LENGTH
    <2>1. key_buffer' = <<>>
      BY DEF dump_key_buffer
    <2> QED BY <2>1, NoSeq, CombosAssumption
  <1>2. \A r \in Range(key_buffer) : r \in Buffered
    BY DomainFacts DEF Range
  <1>3. \A r \in going : r.key \in Keys /\ r.combo \in {0} \cup ComboIds
    BY <1>2 DEF Buffered
  <1>4. fired' \subseteq ComboIds
    <2>1. fired' = fired \cup {r.combo : r \in {s \in going : s.combo # 0}}
      BY DEF dump_key_buffer
    <2>2. fired \subseteq ComboIds
      BY DEF TypeOK
    <2> HIDE DEF going
    <2> QED BY <1>3, <2>1, <2>2
  <1>5. keys \subseteq Keys
    <2>1. registered \subseteq Keys
      BY DEF TypeOK
    <2> HIDE DEF going
    <2> QED BY <1>3, <2>1
  <1>6. registered' \subseteq Keys
    <2>1. registered' = IF part THEN keys
                        ELSE IF event.pressed THEN keys \cup {event.key}
                        ELSE keys \ {event.key}
      BY DEF dump_key_buffer
    <2> HIDE DEF keys
    <2> QED BY <1>5, <2>1
  <1> QED BY <1>1, <1>4, <1>6

LEMMA TypeClear ==
  ASSUME TypeOK, clear_combos
  PROVE  /\ longest_term' \in {0, COMBO_TERM} /\ active' \subseteq ComboIds
         /\ disabled' \subseteq ComboIds /\ state' \in [ComboIds -> SUBSET Keys]
  BY DEF TypeOK, clear_combos

LEMMA TypeDrop ==
  ASSUME TypeOK, NEW c \in ComboIds, drop_combo_from_buffer(c)
  PROVE  /\ disabled' \subseteq ComboIds
         /\ prepared' \in Seq(ComboIds) /\ Len(prepared') < COMBO_BUFFER_LENGTH
  <1>0. prepared \in Seq(ComboIds) /\ Len(prepared) < COMBO_BUFFER_LENGTH
        /\ disabled \subseteq ComboIds /\ COMBO_BUFFER_LENGTH \in Nat
    BY CombosAssumption DEF TypeOK
  <1>1. CASE c \notin Range(prepared)
    BY <1>0, <1>1 DEF drop_combo_from_buffer
  <1>2. CASE c \in Range(prepared)
    <2>1. prepared # <<>>
      BY <1>2, RangeEmpty
    <2>2. Tail(prepared) \in Seq(ComboIds) /\ Len(Tail(prepared)) = Len(prepared) - 1
          /\ Len(prepared) \in Nat
      BY <1>0, <2>1, RangeTail
    <2>3. prepared' \in {prepared, Tail(prepared)} /\ disabled' = disabled \cup {c}
      BY <1>2 DEF drop_combo_from_buffer
    <2> QED BY <1>0, <2>2, <2>3
  <1> QED BY <1>1, <1>2

LEMMA TypeNothingPrepared ==
  ASSUME TypeOK, NothingPrepared, event.pressed => event.key \in Keys
  PROVE  TypeOK'
  <1>1. Off \in {Off} \cup Ages
    OBVIOUS
  <1> QED BY <1>1, TypeReturn, TypeDump, TypeClear DEF NothingPrepared, TypeOK

LEMMA TypeApplyCombos ==
  ASSUME TypeOK, apply_combos
  PROVE  TypeOK'
  BY DEF apply_combos, task, clock, sent, TypeOK

LEMMA TypeApplyCombo ==
  ASSUME TypeOK, apply_combo
  PROVE  TypeOK'
  <1> DEFINE c == Head(walk)
  <1>1. c \in ComboIds /\ walk' \in Seq(ComboIds)
    BY RangeTail DEF apply_combo, TypeOK
  <1>2. /\ key_buffer' \in Seq(Buffered) /\ Len(key_buffer') <= COMBO_KEY_BUFFER_LENGTH
        /\ active' \subseteq ComboIds /\ disabled' \subseteq ComboIds
        /\ prepared' \in Seq(ComboIds) /\ Len(prepared') < COMBO_BUFFER_LENGTH
    <2>1. CASE c \in disabled
      BY <2>1 DEF apply_combo, TypeOK
    <2>2. CASE c \notin disabled
      <3>1. active' \subseteq ComboIds
        BY <2>2, <1>1 DEF apply_combo, TypeOK
      <3>2. drop_combo_from_buffer(c)
        BY <2>2 DEF apply_combo
      <3>3. key_buffer' = [i \in DOMAIN key_buffer |-> Replaced(c, i)]
        BY <2>2 DEF apply_combo
      <3>4. \A i \in DOMAIN key_buffer : Replaced(c, i) \in Buffered
        BY <1>1, DomainFacts DEF Replaced, Buffered
      <3>5. key_buffer' \in [1 .. Len(key_buffer) -> Buffered] /\ Len(key_buffer) \in Nat
        BY <3>3, <3>4, DomainFacts
      <3>6. key_buffer' \in Seq(Buffered)
        BY <3>5, SeqDef
      <3>7. Len(key_buffer') = Len(key_buffer)
        BY <3>5, <3>6, LenProperties
      <3> QED BY <3>1, <3>2, <3>6, <3>7, <1>1, TypeDrop DEF TypeOK
    <2> QED BY <2>1, <2>2
  <1> HIDE DEF c
  <1> QED BY <1>1, <1>2 DEF apply_combo, task, clock, sent, TypeOK

LEMMA TypeApplied ==
  ASSUME TypeOK, Applied, event.pressed => event.key \in Keys
  PROVE  TypeOK'
  <1>1. timer' \in {Off} \cup Ages /\ overrun' \in BOOLEAN
    BY DEF Applied, TypeOK
  <1> QED BY <1>1, TypeReturn, TypeDump, TypeClear DEF Applied, TypeOK

LEMMA TypeChordPress ==
  ASSUME TypeOK, NEW c \in todo, ChordPress(c), event.pressed => event.key \in Keys
  PROVE  TypeOK'
  <1>1. c \in ComboIds /\ event.key \in Keys
    BY DEF ChordPress, Taken, TypeOK
  <1>2. state' \in [ComboIds -> SUBSET Keys] /\ longest_term' \in {0, COMBO_TERM}
    BY <1>1 DEF ChordPress, TypeOK
  <1>3. /\ walk' \in Seq(ComboIds) /\ todo' \subseteq ComboIds /\ disabled' \subseteq ComboIds
        /\ step' \in {"single", "overlaps"}
    BY <1>1 DEF ChordPress, TypeOK
  <1> QED BY <1>2, <1>3 DEF ChordPress, task, sent, TypeOK

LEMMA TypeChordRelease ==
  ASSUME TypeOK, NEW c \in todo, ChordRelease(c)
  PROVE  TypeOK'
  <1>1. c \in ComboIds
    BY DEF TypeOK
  <1>2. /\ disabled' \subseteq ComboIds
        /\ prepared' \in Seq(ComboIds) /\ Len(prepared') < COMBO_BUFFER_LENGTH
    <2>1. CASE Ready(c) /\ c \in disabled
      BY <1>1, <2>1, TypeDrop DEF ChordRelease
    <2>2. CASE ~(Ready(c) /\ c \in disabled)
      BY <2>2 DEF ChordRelease, TypeOK
    <2> QED BY <2>1, <2>2
  <1>3. state' \in [ComboIds -> SUBSET Keys] /\ active' \subseteq ComboIds
        /\ fired' \subseteq ComboIds /\ todo' \subseteq ComboIds
    BY <1>1 DEF ChordRelease, TypeOK
  <1>4. part' \in BOOLEAN
    BY DEF ChordRelease
  <1> QED BY <1>2, <1>3, <1>4 DEF ChordRelease, task, clock, TypeOK

LEMMA TypeCompareOverlap ==
  ASSUME TypeOK, NEW c \in todo, CompareOverlap(c)
  PROVE  TypeOK'
  <1> DEFINE older == Head(walk)
             drop  == overlaps(older, c)
  <1>1. /\ c \in ComboIds /\ older \in ComboIds /\ Tail(walk) \in Seq(ComboIds)
        /\ <<>> \in Seq(ComboIds)
    BY RangeTail, NoSeq DEF CompareOverlap, TypeOK
  <1>2. drop \in {0, c, older}
    BY DEF overlaps
  <1>3. disabled' \subseteq ComboIds
    BY <1>1, <1>2 DEF CompareOverlap, TypeOK
  <1>4. walk' \in Seq(ComboIds) /\ todo' \subseteq ComboIds /\ step' \in {"single", "overlaps"}
    BY <1>1 DEF CompareOverlap, TypeOK
  <1>5. prepared' \in Seq(ComboIds) /\ Len(prepared') < COMBO_BUFFER_LENGTH
    <2>1. CASE prepared' = prepared
      BY <2>1 DEF TypeOK
    <2>2. CASE prepared' # prepared
      <3>1. prepared' = Tail(prepared) /\ prepared # <<>>
        BY <2>2 DEF CompareOverlap
      <3>2. COMBO_BUFFER_LENGTH \in Nat /\ prepared \in Seq(ComboIds)
            /\ Len(prepared) < COMBO_BUFFER_LENGTH
        BY CombosAssumption DEF TypeOK
      <3> QED BY <3>1, <3>2, RangeTail
    <2> QED BY <2>1, <2>2
  <1> HIDE DEF older, drop
  <1> QED BY <1>3, <1>4, <1>5 DEF CompareOverlap, task, clock, sent, TypeOK

LEMMA TypePrepare ==
  ASSUME TypeOK, NEW c \in todo, Prepare(c)
  PROVE  TypeOK'
  <1>1. c \in ComboIds /\ prepared \in Seq(ComboIds) /\ Len(prepared) < COMBO_BUFFER_LENGTH
        /\ COMBO_BUFFER_LENGTH \in Nat \ {0}
    BY CombosAssumption DEF TypeOK
  <1>2. prepared' \in Seq(ComboIds) /\ Len(prepared') < COMBO_BUFFER_LENGTH
    <2>1. CASE Len(prepared) + 1 = COMBO_BUFFER_LENGTH
      <3>1. prepared' = <<>>
        BY <2>1 DEF Prepare
      <3> QED BY <3>1, <1>1, NoSeq
    <2>2. CASE Len(prepared) + 1 # COMBO_BUFFER_LENGTH
      <3>1. prepared' = Append(prepared, c)
        BY <2>2 DEF Prepare
      <3> QED BY <3>1, <1>1, <2>2, RangeAppend
    <2> QED BY <2>1, <2>2
  <1>3. todo' \subseteq ComboIds /\ overrun' \in BOOLEAN
    BY DEF Prepare, TypeOK
  <1> QED BY <1>2, <1>3 DEF Prepare, task, clock, sent, TypeOK

LEMMA TypeKeepBack ==
  ASSUME TypeOK, KeepBack, event.pressed => event.key \in Keys
  PROVE  TypeOK'
  <1> DEFINE new == [key |-> event.key, combo |-> 0, tick |-> FALSE]
  <1>1. key_buffer \in Seq(Buffered) /\ Len(key_buffer) <= COMBO_KEY_BUFFER_LENGTH
        /\ COMBO_KEY_BUFFER_LENGTH \in Nat
    BY CombosAssumption DEF TypeOK
  <1>2. new \in Buffered
    BY DEF KeepBack, Buffered
  <1>3. key_buffer' = IF Len(key_buffer) < COMBO_KEY_BUFFER_LENGTH
                      THEN Append(key_buffer, new) ELSE key_buffer
    BY DEF KeepBack
  <1>4. key_buffer' \in Seq(Buffered) /\ Len(key_buffer') <= COMBO_KEY_BUFFER_LENGTH
    <2> HIDE DEF new
    <2> QED BY <1>1, <1>2, <1>3, RangeAppend
  <1>5. timer' \in {Off} \cup Ages /\ overrun' \in BOOLEAN
    BY CombosAssumption DEF KeepBack, Ages, TypeOK
  <1> QED BY <1>4, <1>5, TypeReturn DEF KeepBack, sent, TypeOK

LEMMA TypeEvent ==
  ASSUME TypeOK, Event, event.pressed => event.key \in Keys
  PROVE  TypeOK'
  <1>1. ASSUME NEW k \in Keys \cup Control, NEW b \in BOOLEAN, process_combo(k, b),
               down' \subseteq Keys \cup Control
        PROVE  TypeOK'
    <2>1. event' \in [key : Keys \cup Control \cup {NoKey}, pressed : BOOLEAN]
          /\ todo' \subseteq ComboIds /\ step' = "single"
      BY <1>1 DEF process_combo
    <2> QED BY <1>1, <2>1 DEF process_combo, clock, sent, TypeOK
  <1>2. CASE NoEventComes
    BY <1>2, TypeReturn DEF NoEventComes, clock, sent, TypeOK
  <1>3. ASSUME NEW k \in Keys \cup Control, Press(k) PROVE TypeOK'
    BY <1>1, <1>3 DEF Press, TypeOK
  <1>4. ASSUME NEW k \in Keys \cup Control, Release(k) PROVE TypeOK'
    BY <1>1, <1>4 DEF Release, TypeOK
  <1>5. ASSUME NEW k \in Keys \cup Control, PressControl(k) PROVE TypeOK'
    <2>1. down' \subseteq Keys \cup Control
      BY <1>5 DEF PressControl, TypeOK
    <2>2. CASE combo_enable
      BY <2>1, <2>2, TypeReturn DEF combo_enable, clock, sent, TypeOK
    <2>3. CASE combo_disable
      <3>1. prepared' \in Seq(ComboIds) /\ Len(prepared') < COMBO_BUFFER_LENGTH
        BY <2>3, NoSeq, CombosAssumption DEF combo_disable
      <3> QED BY <2>1, <2>3, <3>1, TypeReturn, TypeDump, TypeClear DEF combo_disable, TypeOK
    <2> QED BY <1>5, <2>2, <2>3 DEF PressControl
  <1> QED BY <1>2, <1>3, <1>4, <1>5 DEF Event

LEMMA TypeNext ==
  ASSUME TypeOK, event.pressed => event.key \in Keys, [Next]_vars
  PROVE  TypeOK'
  <1>1. CASE UNCHANGED vars
    BY <1>1 DEF vars, task, clock, sent, loop, TypeOK
  <1>2. CASE combo_task
    <2>1. CASE apply_combos
      BY <2>1, TypeApplyCombos
    <2>2. CASE NothingPrepared
      BY <2>2, TypeNothingPrepared
    <2>3. CASE ~apply_combos /\ ~NothingPrepared
      BY <1>2, <2>3, TypeReturn DEF combo_task, clock, sent, TypeOK
    <2> QED BY <2>1, <2>2, <2>3
  <1>3. CASE Event
    BY <1>3, TypeEvent
  <1>4. ASSUME NEW c \in todo, process_single_combo(c) PROVE TypeOK'
    BY <1>4, TypeChordPress, TypeChordRelease, TypeCompareOverlap, TypePrepare
       DEF process_single_combo
  <1>5. CASE KeepBack
    BY <1>5, TypeKeepBack
  <1>6. CASE Settle
    BY <1>6, TypeApplyCombos, TypeNothingPrepared DEF Settle
  <1>7. CASE apply_combo
    BY <1>7, TypeApplyCombo
  <1>8. CASE Applied
    BY <1>8, TypeApplied
  <1>9. CASE Tick
    <2>1. timer' \in {Off} \cup Ages
      BY <1>9, CombosAssumption DEF Tick, Ages
    <2> QED BY <1>9, <2>1 DEF Tick, task, sent, loop, TypeOK
  <1> QED BY <1>1, <1>2, <1>3, <1>4, <1>5, <1>6, <1>7, <1>8, <1>9 DEF Next, keyboard_task

-----------------------------------------------------------------------------
(* The loops.                                                              *)

LEMMA LoopReturn ==
  ASSUME Return
  PROVE  LoopOK'
  BY DEF Return, LoopOK, NoEvent

LEMMA LoopApply ==
  ASSUME LoopOK, apply_combos, todo = {}, ~(event.pressed /\ part)
  PROVE  LoopOK'
  BY DEF apply_combos, LoopOK, task

LEMMA LoopSingle ==
  ASSUME TypeOK, LoopOK, NEW c \in todo, process_single_combo(c)
  PROVE  LoopOK'
  <1>1. CASE ChordPress(c)
    BY <1>1 DEF ChordPress, Taken, LoopOK, task, TypeOK
  <1>2. CASE ChordRelease(c)
    BY <1>2 DEF ChordRelease, LoopOK, task, TypeOK
  <1>3. CASE CompareOverlap(c)
    BY <1>3 DEF CompareOverlap, LoopOK, task, TypeOK
  <1>4. CASE Prepare(c)
    BY <1>4 DEF Prepare, LoopOK, task, TypeOK
  <1> QED BY <1>1, <1>2, <1>3, <1>4 DEF process_single_combo

LEMMA LoopEvent ==
  ASSUME TypeOK, LoopOK, Event
  PROVE  LoopOK'
  <1>1. ASSUME NEW k \in Keys \cup Control, NEW b \in BOOLEAN, process_combo(k, b),
               b <=> k \in down', b => k \in Keys
        PROVE  LoopOK'
    <2>1. k # NoKey
      BY ComboFacts
    <2>2. event' = [key |-> k, pressed |-> b] /\ step' = "single" /\ walk' = walk /\ part' = part
          /\ todo' = {c \in ComboIds : k \in Chords[c]} /\ step = "idle"
      BY <1>1 DEF process_combo
    <2> QED BY <1>1, <2>1, <2>2 DEF LoopOK
  <1>2. CASE NoEventComes
    BY <1>2, LoopReturn DEF NoEventComes
  <1>3. ASSUME NEW k \in Keys \cup Control, Press(k) PROVE LoopOK'
    <2>1. k \in Keys /\ k \in down' /\ process_combo(k, TRUE)
      BY <1>3 DEF Press
    <2> QED BY <1>1, <2>1
  <1>4. ASSUME NEW k \in Keys \cup Control, Release(k) PROVE LoopOK'
    <2>1. k \notin down' /\ process_combo(k, FALSE)
      BY <1>4 DEF Release
    <2> QED BY <1>1, <2>1
  <1>5. ASSUME NEW k \in Keys \cup Control, PressControl(k) PROVE LoopOK'
    BY <1>5, LoopReturn DEF PressControl, combo_enable, combo_disable
  <1> QED BY <1>2, <1>3, <1>4, <1>5 DEF Event

LEMMA LoopNext ==
  ASSUME TypeOK, LoopOK, [Next]_vars
  PROVE  LoopOK'
  <1>1. CASE UNCHANGED vars
    BY <1>1 DEF vars, task, loop, LoopOK
  <1>2. CASE combo_task
    BY <1>2, LoopReturn, LoopApply DEF combo_task, NothingPrepared, LoopOK, NoEvent
  <1>3. CASE Event
    BY <1>3, LoopEvent
  <1>4. ASSUME NEW c \in todo, process_single_combo(c) PROVE LoopOK'
    BY <1>4, LoopSingle
  <1>5. CASE KeepBack
    BY <1>5, LoopReturn DEF KeepBack
  <1>6. CASE Settle
    BY <1>6, LoopReturn, LoopApply DEF Settle, NothingPrepared
  <1>7. CASE apply_combo
    BY <1>7 DEF apply_combo, task, LoopOK
  <1>8. CASE Applied
    BY <1>8, LoopReturn DEF Applied
  <1>9. CASE Tick
    BY <1>9 DEF Tick, task, loop, LoopOK
  <1> QED BY <1>1, <1>2, <1>3, <1>4, <1>5, <1>6, <1>7, <1>8, <1>9 DEF Next, keyboard_task

-----------------------------------------------------------------------------
(* The buffer is sent on.                                                  *)

\* What dump_key_buffer finds: the keys that became no combo, and every new combo.
LEMMA Plain ==
  ASSUME TypeOK, CoreInv
  PROVE  LET going == {r \in Range(key_buffer) : ~r.tick}
         IN  /\ \A k : k \in {r.key : r \in {s \in going : s.combo = 0}}
                          <=> k \in Kept /\ \A c \in New : k \notin Chords[c]
             /\ {r.combo : r \in {s \in going : s.combo # 0}} = New
  <1> DEFINE going == {r \in Range(key_buffer) : ~r.tick}
             plain == {r.key : r \in {s \in going : s.combo = 0}}
             whole == {r.combo : r \in {s \in going : s.combo # 0}}
  <1>1. \A i \in DOMAIN key_buffer :
           /\ key_buffer[i].combo # 0 => /\ key_buffer[i].combo \in New /\ ~key_buffer[i].tick
                                         /\ key_buffer[i].key \in Chords[key_buffer[i].combo]
           /\ key_buffer[i].tick => \E c \in New : key_buffer[i].key \in Chords[c]
           /\ \A c \in New : key_buffer[i].key \in Chords[c]
                                => key_buffer[i].tick \/ key_buffer[i].combo # 0
    BY DEF CoreInv, StateOK, ApplyOK
  <1>2. \A c \in New : \E i \in DOMAIN key_buffer : key_buffer[i].combo = c
    BY DEF CoreInv, StateOK, ApplyOK
  <1>3. ASSUME NEW k \in plain PROVE k \in Kept /\ \A c \in New : k \notin Chords[c]
    <2>1. PICK i \in DOMAIN key_buffer :
             key_buffer[i].key = k /\ ~key_buffer[i].tick /\ key_buffer[i].combo = 0
      BY DEF Range
    <2> QED BY <2>1, <1>1 DEF Kept
  <1>4. ASSUME NEW k \in Kept, \A c \in New : k \notin Chords[c] PROVE k \in plain
    <2>1. PICK i \in DOMAIN key_buffer : key_buffer[i].key = k
      BY DEF Kept
    <2>2. ~key_buffer[i].tick /\ key_buffer[i].combo = 0
      BY <2>1, <1>1, <1>4
    <2> QED BY <2>1, <2>2 DEF Range
  <1>5. whole = New
    <2>1. ASSUME NEW c \in whole PROVE c \in New
      <3>1. PICK i \in DOMAIN key_buffer : key_buffer[i].combo = c /\ c # 0
        BY DEF Range
      <3> QED BY <3>1, <1>1
    <2>2. ASSUME NEW c \in New PROVE c \in whole
      <3>1. PICK i \in DOMAIN key_buffer : key_buffer[i].combo = c
        BY <1>2
      <3>2. c # 0
        BY ComboFacts DEF New, TypeOK
      <3>3. ~key_buffer[i].tick
        BY <1>1, <3>1, <3>2
      <3> QED BY <3>1, <3>2, <3>3 DEF Range
    <2> QED BY <2>1, <2>2
  <1> QED BY <1>3, <1>4, <1>5

\* What the new combos are.
LEMMA NewFacts ==
  ASSUME CoreInv, NEW c \in New
  PROVE  /\ c \in active /\ c \notin fired
         /\ Chords[c] \subseteq Kept /\ state[c] = Chords[c] \ Lifted(c)
         /\ \A d \in Open : Chords[c] \cap Chords[d] = {}
         /\ \A d \in New \ {c} : Chords[c] \cap Chords[d] = {}
  BY DEF CoreInv, StateOK, ApplyOK, New

LEMMA CoreReset ==
  ASSUME TypeOK, LoopOK, CoreInv, todo = {}, ~(event.pressed /\ part), part => Open = {},
         dump_key_buffer, clear_combos, Return, prepared' = <<>>,
         \A k \in Keys : k \in down' <=> k \in down
  PROVE  CoreInv'
  <1> DEFINE K == event.key
             going == {r \in Range(key_buffer) : ~r.tick}
             plain == {r.key : r \in {s \in going : s.combo = 0}}
  <1>0. /\ event' = NoEvent /\ event'.key = NoKey /\ event'.pressed = FALSE /\ part' = FALSE
        /\ step' = "idle" /\ todo' = {} /\ walk' = <<>> /\ key_buffer' = <<>>
        /\ active' = active /\ disabled' = disabled \cap active
        /\ state' = [c \in ComboIds |-> IF c \in active THEN state[c] ELSE {}]
    BY DEF Return, dump_key_buffer, clear_combos, NoEvent
  <1>1. \A k : k \in plain <=> k \in Kept /\ \A c \in New : k \notin Chords[c]
    BY Plain
  <1>2. fired' = active
    <2>1. fired' = fired \cup New
      BY Plain DEF dump_key_buffer
    <2> QED BY <2>1 DEF New, CoreInv, StateOK
  <1>3. \A k : k \in registered' <=>
           IF part THEN k \in registered \cup plain
           ELSE IF event.pressed THEN k \in registered \cup plain \cup {K}
           ELSE k \in (registered \cup plain) \ {K}
    <2>1. registered' = IF part THEN registered \cup plain
                        ELSE IF event.pressed THEN registered \cup plain \cup {K}
                        ELSE (registered \cup plain) \ {K}
      BY DEF dump_key_buffer
    <2> HIDE DEF plain
    <2> QED BY <2>1
  <1> HIDE DEF plain, going
  <1>4. /\ DOMAIN key_buffer' = {} /\ Kept' = {} /\ Pending' = {} /\ Open' = {} /\ New' = {}
        /\ Range(prepared') = {}
    <2>1. DOMAIN key_buffer' = {} /\ Range(prepared') = {}
      BY <1>0, RangeEmpty
    <2> QED BY <2>1, <1>0, <1>2 DEF Kept, Pending, Open, New
  <1>5. \A c \in active : c \in ComboIds /\ state'[c] = state[c]
    BY <1>0 DEF TypeOK
  <1>6. \A c \in ComboIds : c \notin active => state'[c] = {}
    BY <1>0
  <1>7. \A c \in New : Lifted(c) = IF event.pressed THEN {} ELSE {K}
    BY DEF Lifted
  <1>8. ASSUME NEW c \in active, NEW k \in state[c] PROVE k \notin registered'
    <2>1. CASE c \in fired
      <3>1. k \notin Kept /\ k \notin registered /\ k \in Away
        BY <2>1, <1>8 DEF CoreInv, PlacesOK, Away
      <3>2. event.pressed => k # K
        BY <3>1 DEF CoreInv, PlacesOK
      <3> QED BY <3>1, <3>2, <1>1, <1>3
    <2>2. CASE c \in New
      <3>1. k \in Chords[c] /\ k \in Kept
        BY <2>2, <1>8, NewFacts
      <3>2. k \notin registered /\ k \notin plain
        BY <3>1, <2>2, <1>1 DEF CoreInv, PlacesOK
      <3>3. event.pressed => k # K
        BY <3>1 DEF CoreInv, PlacesOK, Away
      <3> QED BY <3>2, <3>3, <1>3
    <2> QED BY <2>1, <2>2 DEF New
  <1>9. ASSUME NEW c \in active, NEW d \in active, c # d PROVE state[c] \cap state[d] = {}
    <2>1. CASE c \in fired /\ d \in fired
      BY <2>1, <1>9 DEF CoreInv, PlacesOK
    <2>2. CASE c \in New /\ d \in fired
      <3>1. state[c] \subseteq Kept
        BY <2>2, NewFacts
      <3> QED BY <3>1, <2>2 DEF CoreInv, PlacesOK
    <2>3. CASE c \in fired /\ d \in New
      <3>1. state[d] \subseteq Kept
        BY <2>3, NewFacts
      <3> QED BY <3>1, <2>3 DEF CoreInv, PlacesOK
    <2>4. CASE c \in New /\ d \in New
      <3>1. Chords[c] \cap Chords[d] = {} /\ state[c] \subseteq Chords[c]
        BY <2>4, <1>9, NewFacts
      <3>2. state[d] \subseteq Chords[d]
        BY <2>4, NewFacts
      <3> QED BY <3>1, <3>2
    <2> QED BY <2>1, <2>2, <2>3, <2>4 DEF New
  <1>10. ASSUME NEW k \in Keys
         PROVE  k \in down' <=> k \in registered' \/ \E c \in active : k \in state[c]
    <2>1. CASE k # K
      <3>1. k \in down <=> k \in Kept \/ k \in registered \/ \E c \in fired : k \in state[c]
        BY <2>1 DEF CoreInv, PlacesOK, Away
      <3>2. k \in registered' <=> k \in registered \/ k \in plain
        BY <2>1, <1>3
      <3>3. k \in Kept <=> k \in plain \/ \E c \in New : k \in state[c]
        <4>1. \A c \in New : k \in state[c] <=> k \in Chords[c]
          BY <2>1, <1>7, NewFacts
        <4>2. \A c \in New : k \in Chords[c] => k \in Kept
          BY NewFacts
        <4> QED BY <4>1, <4>2, <1>1
      <3>4. active = fired \cup New
        BY DEF New, CoreInv, StateOK
      <3> QED BY <3>1, <3>2, <3>3, <3>4
    <2>2. CASE k = K /\ event.pressed
      <3>1. k \in down /\ ~part
        BY <2>2, ComboFacts DEF LoopOK
      <3> QED BY <3>1, <2>2, <1>3
    <2>3. CASE k = K /\ ~event.pressed
      <3>1. k \notin down
        BY <2>3, ComboFacts DEF LoopOK
      <3>2. \A c \in active : k \notin state[c]
        BY <2>3 DEF CoreInv, ReleaseOK, TypeOK
      <3>3. CASE ~part
        BY <3>1, <3>2, <3>3, <2>3, <1>3
      <3>4. CASE part
        <4>1. k \notin registered
          BY <2>3, <3>4 DEF CoreInv, ReleaseOK
        <4>2. k \in Kept => \E c \in New : k \in Chords[c]
          BY <2>3, <3>4 DEF CoreInv, ReleaseOK
        <4> QED BY <4>1, <4>2, <3>1, <3>2, <3>4, <1>1, <1>3
      <3> QED BY <3>3, <3>4
    <2> QED BY <2>1, <2>2, <2>3
  <1>11. PlacesOK'
    <2>1. \A c \in fired' : state'[c] \cap (Kept' \cup registered') = {}
      BY <1>2, <1>4, <1>5, <1>8
    <2>2. \A c, d \in fired' : c # d => state'[c] \cap state'[d] = {}
      BY <1>2, <1>5, <1>9
    <2>3. \A k \in Keys : k \in Away' <=> k \in registered' \/ \E c \in active : k \in state[c]
      BY <1>2, <1>4, <1>5 DEF Away
    <2>4. \A k \in Keys \ {event'.key} : k \in down' <=> k \in Away'
      BY <2>3, <1>10
    <2> QED BY <2>1, <2>2, <2>4, <1>0, <1>4 DEF PlacesOK
  <1>12. StateOK'
    <2>1. \A c \in ComboIds : state'[c] \subseteq Chords[c]
      BY <1>5, <1>6 DEF CoreInv, StateOK
    <2>2. \A c \in active' : state'[c] # {} \/ Alone(c)
      BY <1>0, <1>5 DEF CoreInv, StateOK
    <2> QED BY <2>1, <2>2, <1>0, <1>2, <1>4, <1>6 DEF StateOK
  <1>13. RingOK'
    BY <1>4 DEF RingOK
  <1>14. ReadyOK'
    BY <1>0, <1>6, ComboFacts DEF ReadyOK, Ready
  <1>15. ReleaseOK'
    <2>1. \A c \in ComboIds : NoKey \notin state'[c]
      BY <1>12, ComboFacts DEF StateOK
    <2> QED BY <2>1, <1>0, <1>4 DEF ReleaseOK
  <1>16. OverlapOK' /\ ApplyOK'
    BY <1>0 DEF OverlapOK, ApplyOK
  <1> QED BY <1>11, <1>12, <1>13, <1>14, <1>15, <1>16 DEF CoreInv

-----------------------------------------------------------------------------
(* Steps that leave the combos and the buffer alone.                       *)

\* What does not depend on the event, while no new combo is under way.
LEMMA SameStores ==
  ASSUME UNCHANGED <<registered, fired, key_buffer, active, disabled, state, prepared>>
  PROVE  /\ Kept' = Kept /\ New' = New /\ Away' = Away /\ Range(prepared') = Range(prepared)
         /\ \A c \in ComboIds : Complete(c) => Complete(c)'
         /\ \A c : Ready(c)' <=> Ready(c)
         /\ step # "apply" /\ step' # "apply" => Open' = Open
  BY DEF Kept, New, Away, Complete, Mine, UpTo, Ready, Open

LEMMA CoreKept ==
  ASSUME TypeOK, LoopOK, CoreInv, step = "idle", step' = "idle",
         UNCHANGED <<registered, fired, key_buffer, active, disabled, state, prepared, event, part,
                     todo, walk>>,
         enabled => enabled', \A k \in Keys : k \in down' <=> k \in down
  PROVE  CoreInv'
  <1> USE SameStores
  <1>1. PlacesOK'
    BY DEF CoreInv, PlacesOK
  <1>2. StateOK'
    BY DEF CoreInv, StateOK, Pending
  <1>3. RingOK'
    <2>1. \A c \in Open : c \in ComboIds
      BY DomainFacts DEF Open
    <2>2. Open' = Open /\ Pending' = Pending /\ \A c : Lifted(c)' = Lifted(c)
      BY DEF Pending, Lifted
    <2> QED BY <2>1, <2>2 DEF CoreInv, RingOK
  <1>4. ReadyOK'
    BY DEF CoreInv, ReadyOK
  <1>5. ReleaseOK'
    BY DEF CoreInv, ReleaseOK
  <1>6. OverlapOK' /\ ApplyOK'
    BY DEF OverlapOK, ApplyOK
  <1> QED BY <1>1, <1>2, <1>3, <1>4, <1>5, <1>6 DEF CoreInv

\* process_combo begins.
LEMMA CoreStart ==
  ASSUME TypeOK, LoopOK, CoreInv, NEW k \in Keys \cup Control, NEW b \in BOOLEAN,
         process_combo(k, b), b => k \in Keys \ down,
         \A l \in Keys \ {k} : l \in down' <=> l \in down
  PROVE  CoreInv'
  <1>0. /\ step = "idle" /\ step' = "single" /\ event'.key = k /\ event'.pressed = b
        /\ part = FALSE /\ part' = FALSE /\ todo' = {c \in ComboIds : k \in Chords[c]}
        /\ event.key = NoKey /\ event.pressed = FALSE /\ walk' = walk
        /\ UNCHANGED <<registered, fired, key_buffer, active, disabled, state, prepared, enabled>>
    BY DEF process_combo, sent, LoopOK, NoEvent
  <1>a. Pending' = {} /\ Pending = {} /\ Open' = Open /\ New = {}
    BY <1>0, SameStores DEF Pending, CoreInv, StateOK
  <1>b. \A c \in Open : c \in ComboIds
    BY DomainFacts DEF Open
  <1> USE SameStores, <1>0
  <1>1. PlacesOK'
    <2>1. \A l \in Keys : l \in down <=> l \in Away
      BY ComboFacts DEF CoreInv, PlacesOK
    <2>2. b => k \notin Away
      BY <2>1
    <2> QED BY <2>1, <2>2 DEF CoreInv, PlacesOK
  <1>2. StateOK'
    BY <1>a DEF CoreInv, StateOK
  <1>3. RingOK'
    <2>1. \A c \in Open : state'[c] = Chords[c] \ Lifted(c)'
      <3>1. \A c \in ComboIds : Chords[c] \ Lifted(c) = Chords[c]
        BY ComboFacts DEF Lifted
      <3>2. \A c \in ComboIds : Chords[c] \ Lifted(c)' = Chords[c]
        BY DEF Lifted
      <3> QED BY <3>1, <3>2, <1>b DEF CoreInv, RingOK
    <2> QED BY <2>1, <1>a, <1>b DEF CoreInv, RingOK
  <1>4. ReadyOK'
    BY DEF CoreInv, ReadyOK
  <1>5. ReleaseOK'
    <2>1. \A c \in ComboIds : k \in state'[c] => c \in todo'
      BY DEF CoreInv, StateOK
    <2>2. \A c \in Open' \cup New' : c \notin todo' => k \notin Chords[c]
      BY <1>a, <1>b
    <2> QED BY <2>1, <2>2 DEF ReleaseOK
  <1>6. OverlapOK' /\ ApplyOK'
    BY DEF OverlapOK, ApplyOK
  <1> QED BY <1>1, <1>2, <1>3, <1>4, <1>5, <1>6 DEF CoreInv

\* The ring begins to be applied.
LEMMA CoreApplyCombos ==
  ASSUME TypeOK, LoopOK, CoreInv, apply_combos, step \in {"idle", "single"}, todo = {},
         ~(event.pressed /\ part)
  PROVE  CoreInv'
  <1>0. /\ step' = "apply" /\ walk' = prepared
        /\ UNCHANGED <<registered, fired, key_buffer, active, disabled, state, prepared, enabled,
                       event, part, todo, down>>
    BY DEF apply_combos, sent, task
  <1>a. Open' = Open /\ New = {} /\ Pending' = Pending
    BY <1>0 DEF Open, CoreInv, StateOK, Pending
  <1> USE SameStores, <1>0
  <1>1. PlacesOK'
    BY DEF CoreInv, PlacesOK
  <1>2. StateOK'
    BY <1>a DEF CoreInv, StateOK
  <1>3. RingOK'
    <2>1. \A c \in Open : c \in ComboIds /\ Lifted(c)' = Lifted(c)
      BY DomainFacts DEF Open, Lifted
    <2> QED BY <2>1, <1>a DEF CoreInv, RingOK
  <1>4. ReadyOK' /\ OverlapOK'
    BY DEF ReadyOK, OverlapOK
  <1>5. ReleaseOK'
    BY <1>a DEF CoreInv, ReleaseOK
  <1>6. ApplyOK'
    BY <1>a DEF ApplyOK, CoreInv, StateOK
  <1> QED BY <1>1, <1>2, <1>3, <1>4, <1>5, <1>6 DEF CoreInv

\* The key of the event goes into the buffer.
LEMMA CoreKeepBack ==
  ASSUME TypeOK, LoopOK, CoreInv, KeepBack, ~overrun'
  PROVE  CoreInv'
  <1> DEFINE K == event.key
             new == [key |-> K, combo |-> 0, tick |-> FALSE]
  <1>0. /\ step = "single" /\ todo = {} /\ event.pressed /\ part /\ K \in Keys
        /\ event' = NoEvent /\ event'.key = NoKey /\ event'.pressed = FALSE /\ part' = FALSE
        /\ step' = "idle" /\ todo' = {} /\ walk' = <<>> /\ walk = <<>>
        /\ UNCHANGED <<registered, fired, active, disabled, state, prepared, enabled, down>>
    BY DEF KeepBack, Return, sent, LoopOK, NoEvent
  <1>1. key_buffer' = Append(key_buffer, new)
    BY DEF KeepBack
  <1>2. new \in Buffered
    BY <1>0 DEF Buffered
  <1>3. PICK n \in Nat \ {0} :
           /\ DOMAIN key_buffer = 1 .. n - 1 /\ DOMAIN key_buffer' = 1 .. n
           /\ \A i \in DOMAIN key_buffer : key_buffer'[i] = key_buffer[i]
           /\ key_buffer'[n] = new
    <2>1. key_buffer \in Seq(Buffered)
      BY DEF TypeOK
    <2> DEFINE m == Len(key_buffer) + 1
    <2>2. /\ m \in Nat \ {0}
          /\ DOMAIN key_buffer = 1 .. m - 1 /\ DOMAIN key_buffer' = 1 .. m
          /\ \A i \in DOMAIN key_buffer : key_buffer'[i] = key_buffer[i]
          /\ key_buffer'[m] = new
      <3> HIDE DEF new
      <3> QED BY <2>1, <1>1, <1>2, RangeAppend
    <2> HIDE DEF new, m
    <2> QED BY <2>2
  <1>4. key_buffer'[n].key = K /\ key_buffer'[n].combo = 0 /\ ~key_buffer'[n].tick
    BY <1>3
  <1> HIDE DEF new
  <1>5. Kept' = Kept \cup {K} /\ Pending' = {} /\ Pending = {K}
    <2>1. ASSUME NEW k \in Kept' PROVE k \in Kept \cup {K}
      <3>1. PICK i \in DOMAIN key_buffer' : key_buffer'[i].key = k
        BY DEF Kept
      <3>2. CASE i = n
        BY <3>1, <3>2, <1>4
      <3>3. CASE i # n
        <4>1. i \in DOMAIN key_buffer
          BY <3>1, <3>3, <1>3
        <4> QED BY <4>1, <3>1, <1>3 DEF Kept
      <3> QED BY <3>2, <3>3
    <2>2. ASSUME NEW k \in Kept PROVE k \in Kept'
      <3>1. PICK i \in DOMAIN key_buffer : key_buffer[i].key = k
        BY DEF Kept
      <3>2. i \in DOMAIN key_buffer' /\ key_buffer'[i].key = k
        BY <3>1, <1>3
      <3> QED BY <3>2 DEF Kept
    <2>3. n \in DOMAIN key_buffer'
      BY <1>3
    <2>4. K \in Kept'
      BY <2>3, <1>4 DEF Kept
    <2> QED BY <2>1, <2>2, <2>4, <1>0 DEF Pending
  <1>6. K \notin Kept /\ K \notin registered /\ K \notin Away
        /\ \A c \in fired : K \notin state[c]
    BY <1>0 DEF CoreInv, PlacesOK, Away
  <1>7. Open' = Open /\ New' = New /\ New = {}
    BY <1>0 DEF Open, New, CoreInv, StateOK
  <1>8. PlacesOK'
    <2>1. \A i, j \in DOMAIN key_buffer' : i # j => key_buffer'[i].key # key_buffer'[j].key
      <3>1. \A i \in DOMAIN key_buffer : key_buffer[i].key # K
        BY <1>6 DEF Kept
      <3>2. \A i \in DOMAIN key_buffer' : i = n \/ i \in DOMAIN key_buffer
        BY <1>3
      <3> QED BY <3>1, <3>2, <1>3, <1>4 DEF CoreInv, PlacesOK
    <2>2. Kept' \cap registered' = {}
      BY <1>0, <1>5, <1>6 DEF CoreInv, PlacesOK
    <2>3. \A c \in fired' : state'[c] \cap (Kept' \cup registered') = {}
      BY <1>0, <1>5, <1>6 DEF CoreInv, PlacesOK
    <2>4. Away' = Away \cup {K}
      BY <1>0, <1>5 DEF Away
    <2>5. K \in down
      BY <1>0, ComboFacts DEF LoopOK
    <2>6. \A k \in Keys : k \in down' <=> k \in Away'
      BY <2>4, <2>5, <1>0 DEF CoreInv, PlacesOK
    <2> QED BY <2>1, <2>2, <2>3, <2>6, <1>0 DEF CoreInv, PlacesOK
  <1>9. StateOK'
    <2>1. \A i \in DOMAIN key_buffer' : key_buffer'[i].combo = 0 /\ ~key_buffer'[i].tick
      <3>1. \A i \in DOMAIN key_buffer' : i = n \/ i \in DOMAIN key_buffer
        BY <1>3
      <3> QED BY <3>1, <1>0, <1>3, <1>4 DEF CoreInv, StateOK
    <2> QED BY <2>1, <1>0, <1>5, <1>7 DEF CoreInv, StateOK
  <1>10. RingOK'
    <2>1. ASSUME NEW c \in Open
          PROVE  /\ c \in ComboIds /\ c \notin active /\ state[c] = Chords[c]
                 /\ Chords[c] \subseteq Kept \cup {K}
                 /\ Chords[c] \subseteq Kept => Complete(c)
                 /\ Lifted(c)' = {NoKey}
      <3>1. c \in ComboIds
        BY DomainFacts DEF Open
      <3>2. Lifted(c) = {} /\ Lifted(c)' = {NoKey}
        BY <1>0 DEF Lifted
      <3> QED BY <3>1, <3>2, <1>5 DEF CoreInv, RingOK
    <2>2. ASSUME NEW c \in Open PROVE Complete(c)'
      <3>0. /\ Mine(c) = {i \in DOMAIN key_buffer : key_buffer[i].key \in Chords[c]}
            /\ Mine(c)' = {i \in DOMAIN key_buffer' : key_buffer'[i].key \in Chords[c]}
        BY DEF Mine
      <3>1. CASE Chords[c] \subseteq Kept
        <4>1. PICK i \in Mine(c) : UpTo(c, i) = Chords[c]
          BY <2>1, <3>1 DEF Complete
        <4>2. i \in DOMAIN key_buffer /\ i < n /\ i \in Int
          BY <4>1, <3>0, <1>3
        <4>3. i \in Mine(c)'
          BY <4>1, <4>2, <3>0, <1>3
        <4>4. \A j : j \in Mine(c)' /\ j <= i <=> j \in Mine(c) /\ j <= i
          BY <4>2, <3>0, <1>3
        <4>5. \A j \in Mine(c) : key_buffer'[j].key = key_buffer[j].key
          BY <3>0, <1>3
        <4>6. UpTo(c, i)' = UpTo(c, i)
          <5>1. UpTo(c, i) = {key_buffer[j].key : j \in {j \in Mine(c) : j <= i}}
                /\ UpTo(c, i)' = {key_buffer'[j].key : j \in {j \in Mine(c)' : j <= i}}
            BY DEF UpTo
          <5>2. {j \in Mine(c)' : j <= i} = {j \in Mine(c) : j <= i}
            BY <4>4
          <5> QED BY <5>1, <5>2, <4>5
        <4> QED BY <4>1, <4>3, <4>6 DEF Complete
      <3>2. CASE ~(Chords[c] \subseteq Kept)
        <4>1. K \in Chords[c] /\ Chords[c] \subseteq Kept'
          BY <3>2, <2>1, <1>5
        <4>2. n \in Mine(c)'
          BY <4>1, <3>0, <1>3, <1>4
        <4>3. UpTo(c, n)' = Chords[c]
          <5>1. UpTo(c, n)' = {key_buffer'[j].key : j \in {j \in Mine(c)' : j <= n}}
            BY DEF UpTo
          <5>2. {j \in Mine(c)' : j <= n} = Mine(c)'
            BY <3>0, <1>3
          <5>3. {key_buffer'[j].key : j \in Mine(c)'} = Chords[c]
            BY <4>1, <3>0 DEF Kept
          <5> QED BY <5>1, <5>2, <5>3
        <4> QED BY <4>2, <4>3 DEF Complete
      <3> QED BY <3>1, <3>2
    <2>3. \A c \in ComboIds : NoKey \notin Chords[c]
      BY ComboFacts
    <2> QED BY <2>1, <2>2, <2>3, <1>0, <1>5, <1>7 DEF CoreInv, RingOK
  <1>11. ReadyOK'
    BY <1>0 DEF CoreInv, ReadyOK, Ready
  <1>12. ReleaseOK'
    <2>1. \A c \in ComboIds : NoKey \notin Chords[c] /\ NoKey \notin state[c]
      BY ComboFacts DEF CoreInv, StateOK
    <2>2. \A c \in Open : c \in ComboIds
      BY DomainFacts DEF Open
    <2> QED BY <2>1, <2>2, <1>0, <1>7 DEF ReleaseOK
  <1>13. OverlapOK' /\ ApplyOK'
    BY <1>0 DEF OverlapOK, ApplyOK
  <1> QED BY <1>8, <1>9, <1>10, <1>11, <1>12, <1>13 DEF CoreInv

-----------------------------------------------------------------------------
(* The loop over the combos.                                               *)

\* A press that combo c takes part in.
LEMMA CoreChordPress ==
  ASSUME TypeOK, LoopOK, CoreInv, NEW c \in todo, ChordPress(c)
  PROVE  CoreInv'
  <1> DEFINE K == event.key
  <1>0. /\ step = "single" /\ event.pressed /\ c \notin disabled /\ enabled /\ part' = TRUE
        /\ Current(c) /\ c \in ComboIds /\ K \in Chords[c] /\ K \in Keys
        /\ step' \in {"single", "overlaps"}
        /\ state \in [ComboIds -> SUBSET Keys] /\ part \in BOOLEAN
        /\ UNCHANGED <<registered, fired, key_buffer, active, prepared, enabled, event, down>>
    BY DEF ChordPress, Taken, task, sent, LoopOK, TypeOK
  <1>1. /\ state' = IF c \in active THEN state ELSE [state EXCEPT ![c] = @ \cup {K}]
        /\ disabled' \in {disabled, disabled \cup {c}}
        /\ step' = "single" => /\ todo' = todo \ {c} /\ walk' = walk
                               /\ state'[c] = Chords[c] => c \in disabled'
        /\ step' = "overlaps" => /\ todo' = todo /\ walk' = prepared /\ disabled' = disabled
                                 /\ state'[c] = Chords[c]
    BY <1>0 DEF ChordPress
  <1>2. K \notin Away /\ K \notin Kept /\ New = {} /\ New' = {} /\ Kept' = Kept
        /\ \A d \in fired : K \notin state[d]
    BY <1>0 DEF CoreInv, PlacesOK, StateOK, Away, New, Kept
  <1>3. fired = active
    BY <1>0 DEF CoreInv, StateOK, New
  <1>4. /\ Pending \subseteq Pending' /\ Pending' = {K}
        /\ \A d : Lifted(d) = {} /\ Lifted(d)' = {}
        /\ Open' \subseteq Open
        /\ \A d \in ComboIds : Complete(d) => Complete(d)'
    BY <1>0, <1>1 DEF Pending, Lifted, Open, Complete, Mine, UpTo
  <1>5. /\ \A d \in ComboIds : d \in active => state'[d] = state[d]
        /\ \A d \in ComboIds : d # c => state'[d] = state[d]
        /\ c \notin active => state'[c] = state[c] \cup {K}
    BY <1>0, <1>1
  <1>6. PlacesOK'
    <2>1. \A d \in fired : d \in ComboIds /\ state'[d] = state[d]
      BY <1>3, <1>5 DEF TypeOK
    <2>2. Away' = Away
      BY <2>1, <1>0, <1>2 DEF Away
    <2> QED BY <2>1, <2>2, <1>0, <1>2 DEF CoreInv, PlacesOK
  <1>7. StateOK'
    <2>1. \A d \in ComboIds : state'[d] \subseteq Chords[d]
      BY <1>0, <1>5 DEF CoreInv, StateOK
    <2>2. \A d \in ComboIds \ active : state'[d] \subseteq Kept \cup Pending'
      BY <1>4, <1>5 DEF CoreInv, StateOK
    <2>3. \A d \in active : state'[d] # {} \/ Alone(d)
      BY <1>5 DEF CoreInv, StateOK, TypeOK
    <2> QED BY <2>1, <2>2, <2>3, <1>0, <1>2 DEF CoreInv, StateOK
  <1>8. RingOK'
    <2>1. ASSUME NEW d \in Open
          PROVE  /\ d \in ComboIds /\ d \notin active /\ state'[d] = Chords[d]
                 /\ Chords[d] \subseteq Kept \cup Pending
                 /\ Chords[d] \subseteq Kept => Complete(d)
      <3>1. d \in ComboIds
        BY DomainFacts DEF Open
      <3>2. /\ d \notin active /\ state[d] = Chords[d]
            /\ Chords[d] \subseteq Kept \cup Pending
            /\ Chords[d] \subseteq Kept => Complete(d)
        BY <1>4 DEF CoreInv, RingOK
      <3> QED BY <3>1, <3>2, <1>0, <1>5
    <2> QED BY <2>1, <1>0, <1>2, <1>4 DEF CoreInv, RingOK
  <1>9. ReadyOK'
    <2>1. ASSUME NEW d \in ComboIds \ disabled', Ready(d)'
          PROVE  d \in Range(prepared) \/ (step' = "overlaps" /\ Current(d)')
      <3>1. d \notin active /\ state'[d] = Chords[d]
        BY <2>1, <1>0 DEF Ready
      <3>2. CASE d = c
        BY <3>1, <3>2, <1>0, <1>1, <2>1 DEF Current
      <3>3. CASE d # c
        <4>1. Ready(d) /\ d \notin disabled
          BY <3>1, <3>3, <1>1, <1>5, <2>1 DEF Ready
        <4> QED BY <4>1, <1>0 DEF CoreInv, ReadyOK
      <3> QED BY <3>2, <3>3
    <2> QED BY <2>1, <1>0 DEF ReadyOK
  <1>10. ReleaseOK'
    BY <1>0 DEF ReleaseOK
  <1>11. OverlapOK'
    <2>1. ASSUME step' = "overlaps", NEW d \in todo', Current(d)'
          PROVE  /\ d \notin disabled' /\ d \notin active' /\ state'[d] = Chords[d]
                 /\ Open' \ Range(walk)' = {}
      <3>1. todo' = todo /\ d = c
        <4>1. todo' = todo /\ todo \subseteq ComboIds
          BY <1>1, <2>1 DEF TypeOK
        <4>2. c <= d /\ d <= c
          BY <4>1, <2>1, <1>0 DEF Current
        <4>3. c \in Nat /\ d \in Nat
          BY <4>1, <2>1, ComboFacts
        <4>4. d = c
          BY <4>2, <4>3
        <4> QED BY <4>1, <4>4
      <3>2. state'[c] = Chords[c] /\ c \notin disabled' /\ walk' = prepared
        BY <1>0, <1>1, <2>1
      <3>3. c \notin active
        <4>1. c \in active => K \notin state[c] /\ state'[c] = state[c]
          BY <1>0, <1>2, <1>3, <1>5
        <4> QED BY <4>1, <3>2, <1>0
      <3> QED BY <3>1, <3>2, <3>3, <1>0 DEF Open
    <2> QED BY <2>1, <1>0 DEF OverlapOK
  <1>12. ApplyOK'
    BY <1>0 DEF ApplyOK
  <1> QED BY <1>6, <1>7, <1>8, <1>9, <1>10, <1>11, <1>12 DEF CoreInv

\* A disabled combo that leaves the ring is one of those that gave way.
LEMMA DropDisabled ==
  ASSUME TypeOK, NEW c \in ComboIds, c \in disabled, drop_combo_from_buffer(c)
  PROVE  /\ disabled' = disabled
         /\ Range(prepared') \subseteq Range(prepared)
         /\ Range(prepared) \subseteq Range(prepared') \cup {c}
  <1>1. prepared \in Seq(ComboIds) /\ (c \in Range(prepared) => prepared # <<>>)
    BY RangeEmpty DEF TypeOK
  <1> QED BY <1>1, RangeTail DEF drop_combo_from_buffer

LEMMA CoreChordRelease ==
  ASSUME TypeOK, LoopOK, CoreInv, NEW c \in todo, ChordRelease(c)
  PROVE  CoreInv'
  <1> DEFINE K == event.key
  <1>0. /\ step = "single" /\ step' = "single" /\ c \in ComboIds /\ K \in Chords[c]
        /\ ~(event.pressed /\ c \notin disabled /\ enabled)
        /\ todo' = todo \ {c} /\ state' = [state EXCEPT ![c] = @ \ {K}]
        /\ active' = IF LastUp(c) THEN active \ {c} ELSE active
        /\ fired'  = IF LastUp(c) THEN fired \ {c} ELSE fired
        /\ part' = (\/ part
                    \/ Ready(c) /\ c \notin disabled /\ enabled
                    \/ c \in active /\ K \in state[c])
        /\ state \in [ComboIds -> SUBSET Keys] /\ part \in BOOLEAN
        /\ UNCHANGED <<registered, key_buffer, enabled, event, down, walk>>
    BY DEF ChordRelease, Taken, task, LoopOK, TypeOK
  <1>1. disabled' = disabled /\ Range(prepared') \subseteq Range(prepared)
        /\ Range(prepared) \ disabled = Range(prepared') \ disabled
    <2>1. CASE Ready(c) /\ c \in disabled
      BY <2>1, <1>0, DropDisabled DEF ChordRelease
    <2>2. CASE ~(Ready(c) /\ c \in disabled)
      BY <2>2 DEF ChordRelease
    <2> QED BY <2>1, <2>2
  <1>2. Open' = Open /\ Kept' = Kept /\ fired = active /\ New = {} /\ New' = {}
        /\ \A d \in ComboIds : Complete(d) => Complete(d)'
    <2>1. fired = active /\ New = {}
      BY <1>0 DEF New, CoreInv, StateOK
    <2>2. New' = {}
      BY <2>1, <1>0 DEF New
    <2>3. Open' = Open /\ Kept' = Kept
      BY <1>0, <1>1 DEF Open, Kept
    <2>4. \A d \in ComboIds : Complete(d) => Complete(d)'
      BY <1>0 DEF Complete, Mine, UpTo
    <2> QED BY <2>1, <2>2, <2>3, <2>4
  <1>3. prepared # <<>> \/ Range(prepared) = {}
    BY RangeEmpty
  <1>4. ASSUME event.pressed
        PROVE  c \notin Open /\ K \notin Kept /\ \A d \in fired : K \notin state[d]
    <2>1. c \notin Open
      BY <1>0, <1>3, <1>4 DEF Open, CoreInv, RingOK
    <2> QED BY <2>1, <1>4 DEF CoreInv, PlacesOK, Away
  <1>5. \A d \in ComboIds : state'[d] = IF d = c THEN state[d] \ {K} ELSE state[d]
    BY <1>0
  <1>6. /\ \A d \in active' : d \in active /\ d \in ComboIds
        /\ \A d \in active : d \in ComboIds
    BY <1>0 DEF TypeOK
  <1>7. LastUp(c) => c \in active /\ state[c] = {K} /\ ~event.pressed
    <2>1. LastUp(c) => c \in active /\ state[c] = {K}
      BY DEF LastUp
    <2> QED BY <2>1, <1>2, <1>4
  <1>8. PlacesOK'
    <2>1. \A d \in fired' : d \in fired /\ state'[d] \subseteq state[d]
      BY <1>0, <1>2, <1>5, <1>6
    <2>2. \A k : k # K => (k \in Away' <=> k \in Away)
      <3>1. \A k, d : k # K /\ d \in fired /\ k \in state[d] => d \in fired' /\ k \in state'[d]
        BY <1>0, <1>2, <1>5, <1>6, <1>7
      <3> QED BY <3>1, <2>1, <1>0, <1>2 DEF Away
    <2>3. event.pressed => K \notin Away'
      <3>1. Away' \subseteq Away
        BY <2>1, <1>0, <1>2 DEF Away
      <3> QED BY <3>1 DEF CoreInv, PlacesOK
    <2>4. \A i, j \in DOMAIN key_buffer' : i # j => key_buffer'[i].key # key_buffer'[j].key
      BY <1>0 DEF CoreInv, PlacesOK
    <2>5. /\ Kept' \cap registered' = {}
          /\ \A d \in fired' : state'[d] \cap (Kept' \cup registered') = {}
          /\ \A d, e \in fired' : d # e => state'[d] \cap state'[e] = {}
      BY <2>1, <1>0, <1>2 DEF CoreInv, PlacesOK
    <2>6. \A k \in Keys \ {event'.key} : k \in down' <=> k \in Away'
      BY <2>2, <1>0 DEF CoreInv, PlacesOK
    <2> QED BY <2>3, <2>4, <2>5, <2>6, <1>0 DEF PlacesOK
  <1>9. StateOK'
    <2>1. \A d \in ComboIds : state'[d] \subseteq Chords[d]
      BY <1>5 DEF CoreInv, StateOK
    <2>2. Pending \subseteq Pending'
      BY <1>0 DEF Pending
    <2>3. ASSUME NEW d \in ComboIds \ active' PROVE state'[d] \subseteq Kept \cup Pending'
      <3>1. CASE d \notin active
        BY <3>1, <2>2, <1>5 DEF CoreInv, StateOK
      <3>2. CASE d \in active
        <4>1. d = c /\ state[c] = {K}
          BY <3>2, <2>3, <1>0, <1>7
        <4> QED BY <4>1, <1>5
      <3> QED BY <3>1, <3>2
    <2>4. ASSUME NEW d \in active' PROVE state'[d] # {} \/ Alone(d)
      <3>1. /\ d \in active /\ d \in ComboIds /\ ~(d = c /\ LastUp(c))
            /\ state[d] # {} \/ Alone(d)
        BY <1>0, <1>6 DEF CoreInv, StateOK
      <3>2. CASE d = c
        <4>1. state[c] # {K}
          BY <3>1, <3>2 DEF LastUp
        <4> QED BY <4>1, <3>1, <3>2, <1>5
      <3>3. CASE d # c
        BY <3>1, <3>3, <1>5
      <3> QED BY <3>2, <3>3
    <2>5. fired' \subseteq active'
      BY <1>0, <1>2
    <2> QED BY <2>1, <2>3, <2>4, <2>5, <1>0, <1>2 DEF CoreInv, StateOK
  <1>10. RingOK'
    <2>1. ASSUME NEW d \in Open
          PROVE  /\ d \in ComboIds /\ d \notin active' /\ state'[d] = Chords[d] \ Lifted(d)'
                 /\ Chords[d] \subseteq Kept \cup Pending'
                 /\ Chords[d] \subseteq Kept => Complete(d)
      <3>1. /\ d \in ComboIds /\ d \notin active /\ state[d] = Chords[d] \ Lifted(d)
            /\ Chords[d] \subseteq Kept \cup Pending
            /\ Chords[d] \subseteq Kept => Complete(d)
        BY DomainFacts DEF Open, CoreInv, RingOK
      <3>2. Pending \subseteq Pending' /\ active' \subseteq active
        BY <1>0 DEF Pending
      <3>3. state'[d] = Chords[d] \ Lifted(d)'
        <4>1. CASE d # c
          BY <4>1, <3>1, <1>0, <1>5 DEF Lifted
        <4>2. CASE d = c
          <5>1. ~event.pressed /\ Lifted(c) = {} /\ Lifted(c)' = {K}
            BY <4>2, <1>0, <1>4 DEF Lifted
          <5> QED BY <5>1, <4>2, <3>1, <1>5
        <4> QED BY <4>1, <4>2
      <3> QED BY <3>1, <3>2, <3>3
    <2>2. prepared' # <<>> => enabled'
      <3>1. prepared = <<>> => prepared' = <<>>
        BY RangeEmpty DEF ChordRelease, drop_combo_from_buffer
      <3> QED BY <3>1, <1>0 DEF CoreInv, RingOK
    <2> QED BY <2>1, <2>2, <1>2 DEF CoreInv, RingOK
  <1>11. ReadyOK'
    <2>1. ASSUME NEW d \in ComboIds \ disabled', Ready(d)'
          PROVE  d \in Range(prepared')
      <3>1. d \notin active' /\ state'[d] = Chords[d]
        BY <2>1 DEF Ready
      <3>2. d # c
        BY <3>1, <1>0, <1>5
      <3>3. Ready(d) /\ d \notin disabled
        BY <3>1, <3>2, <1>0, <1>1, <1>5, <2>1 DEF Ready
      <3>4. d \in Range(prepared)
        BY <3>3, <1>0 DEF CoreInv, ReadyOK
      <3> QED BY <3>3, <3>4, <1>1
    <2> QED BY <2>1 DEF ReadyOK
  <1>12. ReleaseOK'
    <2> SUFFICES ASSUME ~event.pressed PROVE ReleaseOK'
      BY <1>0 DEF ReleaseOK
    <2>0. Pending = {}
      BY DEF Pending
    <2>1. \A d \in ComboIds : K \in state'[d] => d \in todo'
      BY <1>0, <1>5 DEF CoreInv, ReleaseOK
    <2>2. CASE Ready(c) /\ c \notin disabled
      <3>1. c \in Open /\ c \in Range(prepared)
        BY <2>2, <1>0 DEF CoreInv, ReadyOK, Open
      <3>2. enabled
        BY <3>1, <1>3 DEF CoreInv, RingOK
      <3>3. K \in Kept /\ K \notin registered
        BY <2>2, <2>0, <1>0 DEF Ready, CoreInv, StateOK, PlacesOK
      <3> QED BY <2>1, <2>2, <3>1, <3>2, <3>3, <1>0, <1>2 DEF ReleaseOK
    <2>3. CASE c \in active /\ K \in state[c]
      <3>1. K \notin Kept /\ K \notin registered
        BY <2>3, <1>2 DEF CoreInv, PlacesOK
      <3> QED BY <2>1, <2>3, <3>1, <1>0, <1>2 DEF ReleaseOK
    <2>4. CASE ~(Ready(c) /\ c \notin disabled) /\ ~(c \in active /\ K \in state[c])
      <3>1. part' = part
        BY <2>4, <1>0
      <3>2. c \notin Open
        <4>1. Lifted(c) = {}
          BY DEF Lifted
        <4>2. c \in Open => Ready(c) /\ c \notin disabled
          BY <4>1 DEF CoreInv, RingOK, Ready, Open
        <4> QED BY <4>2, <2>4
      <3> QED BY <2>1, <3>1, <3>2, <1>0, <1>2 DEF CoreInv, ReleaseOK
    <2> QED BY <2>2, <2>3, <2>4
  <1>13. OverlapOK' /\ ApplyOK'
    BY <1>0 DEF OverlapOK, ApplyOK
  <1> QED BY <1>8, <1>9, <1>10, <1>11, <1>12, <1>13 DEF CoreInv

-----------------------------------------------------------------------------
(* The loop over the ring for a combo that is complete.                    *)

LEMMA CoreCompareOverlap ==
  ASSUME TypeOK, LoopOK, CoreInv, NEW c \in todo, CompareOverlap(c)
  PROVE  CoreInv'
  <1> DEFINE older == Head(walk)
             drop  == overlaps(older, c)
  <1>0. /\ step = "overlaps" /\ walk # <<>> /\ Current(c) /\ c \in ComboIds
        /\ event.pressed /\ part /\ enabled
        /\ step' \in {"single", "overlaps"}
        /\ UNCHANGED <<registered, fired, key_buffer, active, state, enabled, event, part, down>>
    BY DEF CompareOverlap, task, sent, TypeOK, CoreInv, OverlapOK
  <1>1. older \in ComboIds /\ Range(walk) = {older} \cup Range(Tail(walk)) /\ older # 0 /\ c # 0
    BY <1>0, RangeTail, ComboFacts DEF TypeOK
  <1>2. /\ drop \in {0, c, older}
        /\ drop = 0 => Chords[older] \cap Chords[c] = {}
    BY <1>1 DEF overlaps
  <1>3. /\ disabled' = IF drop = 0 THEN disabled ELSE disabled \cup {drop}
        /\ drop = c => step' = "single" /\ todo' = todo \ {c} /\ walk' = <<>> /\ prepared' = prepared
        /\ drop # c => /\ step' = "overlaps" /\ todo' = todo /\ walk' = Tail(walk)
                       /\ prepared' = prepared \/ (drop = older /\ prepared' = Tail(prepared)
                                                      /\ walk = prepared)
    BY <1>0 DEF CompareOverlap
  <1> HIDE DEF older, drop
  <1>4. /\ Range(prepared') \subseteq Range(prepared)
        /\ Range(prepared) \ disabled' = Range(prepared') \ disabled'
        /\ prepared' # <<>> => prepared # <<>>
    <2>1. CASE prepared' = prepared
      BY <2>1
    <2>2. CASE prepared' # prepared
      <3>1. drop # c /\ drop = older /\ prepared' = Tail(prepared) /\ walk = prepared
        BY <2>2, <1>3
      <3>2. Range(prepared) = {older} \cup Range(Tail(prepared)) /\ older \in disabled'
        BY <3>1, <1>1, <1>3
      <3> QED BY <3>1, <3>2, <1>0
    <2> QED BY <2>1, <2>2
  <1>5. /\ Open' \subseteq Open /\ \A d \in Open : d \notin disabled' => d \in Open'
        /\ Open' \cap disabled' = {}
        /\ \A d \in Open : d \in ComboIds
    BY <1>0, <1>3, <1>4, DomainFacts DEF Open
  <1>6. /\ Kept' = Kept /\ New' = New /\ New = {} /\ Pending' = Pending /\ Away' = Away
        /\ \A d : Lifted(d) = {} /\ Lifted(d)' = {}
        /\ \A d \in ComboIds : Complete(d) => Complete(d)'
    BY <1>0 DEF Kept, New, Pending, Away, Lifted, Complete, Mine, UpTo, CoreInv, StateOK
  <1>7. PlacesOK' /\ StateOK'
    BY <1>0, <1>6 DEF CoreInv, PlacesOK, StateOK
  <1>8. RingOK'
    BY <1>0, <1>4, <1>5, <1>6 DEF CoreInv, RingOK
  <1>9. ReadyOK'
    <2>1. ASSUME NEW d \in ComboIds \ disabled', Ready(d)'
          PROVE  d \in Range(prepared') \/ (step' = "overlaps" /\ Current(d)')
      <3>1. Ready(d) /\ d \notin disabled
        BY <2>1, <1>0, <1>3 DEF Ready
      <3>2. d \in Range(prepared) \/ Current(d)
        BY <3>1, <1>0 DEF CoreInv, ReadyOK
      <3>3. CASE d \in Range(prepared)
        BY <3>3, <2>1, <1>4
      <3>4. CASE Current(d)
        <4>1. d = c
          <5>1. d <= c /\ c <= d
            BY <3>4, <1>0 DEF Current
          <5> QED BY <5>1, <1>0, ComboFacts
        <4>2. drop # c
          BY <4>1, <2>1, <1>1, <1>3
        <4> QED BY <4>2, <3>4, <1>3 DEF Current
      <3> QED BY <3>2, <3>3, <3>4
    <2> QED BY <2>1 DEF ReadyOK
  <1>10. ReleaseOK'
    BY <1>0 DEF ReleaseOK
  <1>11. OverlapOK'
    <2> SUFFICES ASSUME step' = "overlaps"
                 PROVE  OverlapOK'
      BY DEF OverlapOK
    <2>1. drop # c /\ todo' = todo /\ walk' = Tail(walk)
      BY <1>3
    <2>2. ASSUME NEW d \in todo', Current(d)'
          PROVE  /\ d \notin disabled' /\ d \notin active' /\ state'[d] = Chords[d]
                 /\ \A e \in Open' \ Range(walk') : Chords[e] \cap Chords[d] = {}
      <3>1. Current(d)
        BY <2>1, <2>2 DEF Current
      <3>2. d = c
        <4>1. d <= c /\ c <= d
          BY <3>1, <1>0 DEF Current
        <4> QED BY <4>1, <3>1, <1>0, ComboFacts DEF Current, TypeOK
      <3>3. /\ c \notin disabled /\ c \notin active /\ state[c] = Chords[c]
            /\ \A e \in Open \ Range(walk) : Chords[e] \cap Chords[c] = {}
        BY <1>0 DEF CoreInv, OverlapOK
      <3>4. c \notin disabled'
        <4>1. CASE drop = 0
          BY <4>1, <3>3, <1>3
        <4>2. CASE drop = older
          BY <4>2, <2>1, <3>3, <1>3
        <4> QED BY <4>1, <4>2, <2>1, <1>2
      <3>5. ASSUME NEW e \in Open' \ Range(walk') PROVE Chords[e] \cap Chords[c] = {}
        <4>1. e \in Open /\ e \notin disabled'
          BY <1>5
        <4>2. CASE e \notin Range(walk)
          BY <4>1, <4>2, <3>3
        <4>3. CASE e = older
          <5>1. drop = 0
            BY <4>1, <4>3, <2>1, <1>2, <1>3
          <5> QED BY <5>1, <4>3, <1>2
        <4> QED BY <4>2, <4>3, <2>1, <1>1
      <3> QED BY <3>2, <3>3, <3>4, <3>5, <1>0
    <2> QED BY <2>2, <1>0 DEF OverlapOK
  <1>12. ApplyOK'
    BY <1>0 DEF ApplyOK
  <1> QED BY <1>7, <1>8, <1>9, <1>10, <1>11, <1>12 DEF CoreInv

LEMMA CorePrepare ==
  ASSUME TypeOK, LoopOK, CoreInv, NEW c \in todo, Prepare(c), ~overrun'
  PROVE  CoreInv'
  <1> DEFINE K == event.key
  <1>0. /\ step = "overlaps" /\ step' = "single" /\ walk = <<>> /\ walk' = walk /\ Current(c)
        /\ c \in ComboIds /\ todo' = todo \ {c} /\ K \in Chords[c]
        /\ event.pressed /\ part /\ enabled
        /\ UNCHANGED <<registered, fired, key_buffer, active, disabled, state, enabled, event, part,
                       down>>
    BY DEF Prepare, task, sent, TypeOK, LoopOK, CoreInv, OverlapOK
  <1>1. prepared' = Append(prepared, c)
    BY DEF Prepare
  <1>2. Range(prepared') = Range(prepared) \cup {c}
    BY <1>0, <1>1, RangeAppend DEF TypeOK
  <1>3. /\ c \notin disabled /\ c \notin active /\ state[c] = Chords[c]
        /\ \A d \in Open : Chords[d] \cap Chords[c] = {}
    <2>1. Range(walk) = {}
      BY <1>0, RangeEmpty
    <2> QED BY <2>1, <1>0 DEF CoreInv, OverlapOK
  <1>4. Open' = Open \cup {c} /\ \A d \in Open : d \in ComboIds
    BY <1>0, <1>2, <1>3, DomainFacts DEF Open
  <1>5. /\ Kept' = Kept /\ New' = New /\ New = {} /\ Pending' = Pending /\ Away' = Away
        /\ \A d : Lifted(d) = {} /\ Lifted(d)' = {}
        /\ \A d \in ComboIds : Complete(d) => Complete(d)'
    BY <1>0 DEF Kept, New, Pending, Away, Lifted, Complete, Mine, UpTo, CoreInv, StateOK
  <1>6. PlacesOK' /\ StateOK'
    BY <1>0, <1>5 DEF CoreInv, PlacesOK, StateOK
  <1>7. Chords[c] \subseteq Kept \cup Pending /\ ~(Chords[c] \subseteq Kept)
    <2>1. K \notin Kept
      BY <1>0 DEF CoreInv, PlacesOK, Away
    <2> QED BY <2>1, <1>0, <1>3 DEF CoreInv, StateOK
  <1>8. RingOK'
    <2>1. \A d \in Open' :
             /\ d \notin active' /\ state'[d] = Chords[d] \ Lifted(d)'
             /\ Chords[d] \subseteq Kept' \cup Pending'
             /\ Chords[d] \subseteq Kept' => Complete(d)'
      BY <1>0, <1>3, <1>4, <1>5, <1>7 DEF CoreInv, RingOK
    <2>2. \A d, e \in Open' : d # e => Chords[d] \cap Chords[e] = {}
      BY <1>3, <1>4 DEF CoreInv, RingOK
    <2> QED BY <2>1, <2>2, <1>0 DEF RingOK
  <1>9. ReadyOK'
    <2>1. ASSUME NEW d \in ComboIds \ disabled', Ready(d)'
          PROVE  d \in Range(prepared')
      <3>1. Ready(d) /\ d \notin disabled
        BY <2>1, <1>0 DEF Ready
      <3>2. d \in Range(prepared) \/ Current(d)
        BY <3>1, <1>0 DEF CoreInv, ReadyOK
      <3>3. Current(d) => d = c
        <4>1. Current(d) => d <= c /\ c <= d
          BY <1>0 DEF Current
        <4> QED BY <4>1, <1>0, ComboFacts
      <3> QED BY <3>2, <3>3, <1>2
    <2> QED BY <2>1 DEF ReadyOK
  <1>10. ReleaseOK' /\ OverlapOK' /\ ApplyOK'
    BY <1>0 DEF ReleaseOK, OverlapOK, ApplyOK
  <1> QED BY <1>6, <1>8, <1>9, <1>10 DEF CoreInv

-----------------------------------------------------------------------------
(* A combo of the ring takes its keys.                                     *)

\* A complete combo has one last key, and all its keys are before that.
LEMMA LastKey ==
  ASSUME TypeOK, CoreInv, NEW c \in ComboIds, Complete(c)
  PROVE  \E n \in Mine(c) : Completing(c) = {n} /\ \A i \in Mine(c) : i <= n
  <1>1. PICK n \in Mine(c) : UpTo(c, n) = Chords[c]
    BY DEF Complete
  <1>2. \A i \in Mine(c) : i \in DOMAIN key_buffer /\ i \in Int /\ key_buffer[i].key \in Chords[c]
    BY DomainFacts DEF Mine
  <1>3. \A i, j \in Mine(c) : key_buffer[i].key = key_buffer[j].key => i = j
    BY <1>2 DEF CoreInv, PlacesOK
  <1>4. ASSUME NEW m \in Mine(c), UpTo(c, m) = Chords[c] PROVE \A i \in Mine(c) : i <= m
    <2>1. SUFFICES ASSUME NEW i \in Mine(c) PROVE i <= m
      OBVIOUS
    <2>2. key_buffer[i].key \in UpTo(c, m)
      BY <1>2, <1>4
    <2>3. PICK j \in Mine(c) : j <= m /\ key_buffer[j].key = key_buffer[i].key
      BY <2>2 DEF UpTo
    <2> QED BY <2>3, <1>3
  <1>5. \A m \in Completing(c) : m = n
    <2>1. SUFFICES ASSUME NEW m \in Completing(c) PROVE m = n
      OBVIOUS
    <2>2. m \in Mine(c) /\ UpTo(c, m) = Chords[c]
      BY DEF Completing
    <2>3. n <= m /\ m <= n
      BY <2>2, <1>1, <1>4
    <2> QED BY <2>2, <2>3, <1>2
  <1>6. Completing(c) = {n}
    BY <1>1, <1>5 DEF Completing
  <1> QED BY <1>1, <1>4, <1>6

LEMMA CoreApplyCombo ==
  ASSUME TypeOK, LoopOK, CoreInv, apply_combo
  PROVE  CoreInv'
  <1> DEFINE c == Head(walk)
             K == event.key
  <1>0. /\ step = "apply" /\ step' = "apply" /\ walk # <<>> /\ walk' = Tail(walk) /\ todo = {}
        /\ UNCHANGED <<registered, fired, state, enabled, event, part, todo, down>>
    BY DEF apply_combo, task, sent, LoopOK
  <1>1. c \in ComboIds /\ Range(walk) = {c} \cup Range(walk') /\ Pending = {} /\ Pending' = {}
    BY <1>0, RangeTail DEF TypeOK, LoopOK, Pending
  <1>2. CASE c \in disabled
    <2>1. UNCHANGED <<active, disabled, key_buffer, prepared>>
      BY <1>2 DEF apply_combo
    <2>2. /\ Open' = Open /\ Kept' = Kept /\ New' = New /\ Away' = Away
          /\ \A d : Lifted(d)' = Lifted(d)
          /\ \A d \in ComboIds : Complete(d) => Complete(d)'
      BY <2>1, <1>0, <1>1, <1>2 DEF Open, Kept, New, Away, Lifted, Complete, Mine, UpTo
    <2>3. \A d \in Open : d \in ComboIds
      BY DomainFacts DEF Open
    <2>4. PlacesOK' /\ StateOK'
      BY <2>1, <2>2, <1>0, <1>1 DEF CoreInv, PlacesOK, StateOK
    <2>5. RingOK'
      BY <2>1, <2>2, <2>3, <1>0, <1>1 DEF CoreInv, RingOK
    <2>6. ReadyOK' /\ ReleaseOK' /\ OverlapOK'
      BY <2>1, <2>2, <1>0 DEF CoreInv, ReadyOK, ReleaseOK, OverlapOK
    <2>7. ApplyOK'
      BY <2>1, <2>2, <1>0, <1>1, <1>2 DEF CoreInv, ApplyOK
    <2> QED BY <2>4, <2>5, <2>6, <2>7 DEF CoreInv
  <1>3. CASE c \notin disabled
    <2>1. c \in Open /\ c \in Range(prepared)
      BY <1>0, <1>1, <1>3 DEF CoreInv, ApplyOK, Open
    <2>2. /\ c \notin active /\ state[c] = Chords[c] \ Lifted(c) /\ Chords[c] \subseteq Kept
          /\ Complete(c) /\ \A d \in Open : d # c => Chords[d] \cap Chords[c] = {}
      BY <2>1, <1>1 DEF CoreInv, RingOK
    <2>3. PICK n \in Mine(c) : Completing(c) = {n} /\ \A i \in Mine(c) : i <= n
      BY <2>2, <1>1, LastKey
    <2>4. /\ disabled' = disabled \cup {c} /\ active' = active \cup {c}
          /\ prepared' = IF Head(prepared) = c THEN Tail(prepared) ELSE prepared
          /\ key_buffer' = [i \in DOMAIN key_buffer |-> Replaced(c, i)]
      BY <2>1, <2>3, <1>3 DEF apply_combo, drop_combo_from_buffer
    <2>5. /\ DOMAIN key_buffer' = DOMAIN key_buffer
          /\ \A i \in DOMAIN key_buffer : key_buffer'[i] = Replaced(c, i)
      BY <2>4
    <2>6. \A i \in DOMAIN key_buffer :
             /\ key_buffer[i] \in Buffered
             /\ i \notin Mine(c) => key_buffer'[i] = key_buffer[i]
             /\ i = n => key_buffer'[i] = [key_buffer[i] EXCEPT !.combo = c]
             /\ i \in Mine(c) /\ i # n => key_buffer'[i] = [key_buffer[i] EXCEPT !.tick = TRUE]
      <3>1. \A i \in DOMAIN key_buffer : key_buffer[i] \in Buffered /\ i \in Int
        BY DomainFacts
      <3>2. Mine(c) \subseteq DOMAIN key_buffer
        BY DEF Mine
      <3>3. SUFFICES ASSUME NEW i \in DOMAIN key_buffer
            PROVE  /\ i \notin Mine(c) => Replaced(c, i) = key_buffer[i]
                   /\ i = n => Replaced(c, i) = [key_buffer[i] EXCEPT !.combo = c]
                   /\ i \in Mine(c) /\ i # n
                        => Replaced(c, i) = [key_buffer[i] EXCEPT !.tick = TRUE]
        BY <3>1, <2>5
      <3>4. CASE i \notin Mine(c)
        BY <3>4, <2>3 DEF Replaced
      <3>5. CASE i \in Mine(c)
        <4>1. ~\E j \in Completing(c) : j < i
          BY <3>1, <3>2, <3>5, <2>3
        <4>2. i \in Completing(c) <=> i = n
          BY <2>3
        <4> QED BY <4>1, <4>2, <3>5 DEF Replaced
      <3> QED BY <3>4, <3>5
    <2>7. \A i \in DOMAIN key_buffer :
             /\ key_buffer'[i].key = key_buffer[i].key
             /\ i \notin Mine(c) => /\ key_buffer'[i].combo = key_buffer[i].combo
                                    /\ key_buffer'[i].tick = key_buffer[i].tick
             /\ i = n => /\ key_buffer'[i].combo = c
                         /\ key_buffer'[i].tick = key_buffer[i].tick
             /\ i \in Mine(c) /\ i # n => /\ key_buffer'[i].combo = key_buffer[i].combo
                                          /\ key_buffer'[i].tick = TRUE
      BY <2>6, <2>3 DEF Buffered
    <2> HIDE DEF c
    <2>8. /\ Kept' = Kept /\ New' = New \cup {c} /\ Away' = Away
          /\ \A d : Lifted(d)' = Lifted(d)
      <3>1. Kept' = Kept
        BY <2>5, <2>7 DEF Kept
      <3>2. New' = New \cup {c}
        BY <2>2, <2>4, <1>0 DEF New, CoreInv, StateOK
      <3> QED BY <3>1, <3>2, <1>0 DEF Away, Lifted
    <2>9. \A d \in ComboIds : Complete(d) => Complete(d)'
      <3>1. SUFFICES ASSUME NEW d \in ComboIds, Complete(d) PROVE Complete(d)'
        OBVIOUS
      <3>2. Mine(d)' = Mine(d)
        BY <2>5, <2>7 DEF Mine
      <3>3. \A i \in Mine(d) : UpTo(d, i)' = UpTo(d, i)
        <4>1. SUFFICES ASSUME NEW i \in Mine(d) PROVE UpTo(d, i)' = UpTo(d, i)
          OBVIOUS
        <4>2. /\ UpTo(d, i) = {key_buffer[j].key : j \in {j \in Mine(d) : j <= i}}
              /\ UpTo(d, i)' = {key_buffer'[j].key : j \in {j \in Mine(d) : j <= i}}
          BY <3>2 DEF UpTo
        <4>3. \A j \in Mine(d) : key_buffer'[j].key = key_buffer[j].key
          BY <2>7 DEF Mine
        <4> QED BY <4>2, <4>3
      <3> QED BY <3>1, <3>2, <3>3 DEF Complete
    <2>10. Open' = Open \ {c} /\ \A d \in Open : d \in ComboIds
      <3>1. prepared # <<>> /\ prepared \in Seq(ComboIds)
        BY <2>1, RangeEmpty DEF TypeOK
      <3>2. Range(prepared) \ {c} = Range(prepared') \ {c}
        BY <3>1, <2>4, RangeTail
      <3> QED BY <3>2, <2>4, <1>0, <1>1, DomainFacts DEF Open
    <2>11. PlacesOK'
      BY <2>5, <2>7, <2>8, <1>0 DEF CoreInv, PlacesOK
    <2>12. StateOK'
      <3>1. Lifted(c) \subseteq {K}
        BY DEF Lifted
      <3>2. state[c] # {} \/ Alone(c)
        <4>1. Chords[c] # {} /\ Chords[c] \subseteq Keys
          BY <1>1, ComboFacts
        <4>2. state[c] = Chords[c] \ Lifted(c)
          BY <2>2, <1>1
        <4>3. SUFFICES ASSUME state[c] = {} PROVE Alone(c)
          OBVIOUS
        <4>4. Chords[c] = {K} /\ K \in Keys
          BY <4>1, <4>2, <4>3, <3>1
        <4> QED BY <4>4 DEF Alone
      <3>3. active' = active \cup {c}
        BY <2>4
      <3> QED BY <3>2, <3>3, <2>8, <1>0, <1>1 DEF CoreInv, StateOK
    <2>13. RingOK'
      <3>1. prepared' # <<>> => enabled'
        BY <2>1, <1>0, RangeEmpty DEF CoreInv, RingOK
      <3> QED BY <3>1, <2>4, <2>8, <2>9, <2>10, <1>0, <1>1 DEF CoreInv, RingOK
    <2>14. ReadyOK' /\ OverlapOK'
      BY <1>0 DEF ReadyOK, OverlapOK
    <2>15. ReleaseOK'
      <3>1. Open' \cup New' = Open \cup New
        BY <2>1, <2>8, <2>10
      <3> QED BY <3>1, <2>8, <1>0 DEF CoreInv, ReleaseOK
    <2>16. ApplyOK'
      <3>1. Range(walk') \ disabled' \subseteq Range(prepared')
        <4>1. \A d \in Range(walk') \ disabled' : d \in Open
          BY <2>4, <1>0, <1>1 DEF CoreInv, ApplyOK, Open
        <4>2. \A d \in Range(walk') \ disabled' : d # c
          BY <2>4
        <4> QED BY <4>1, <4>2, <2>10 DEF Open
      <3>2. \A d \in New : d # c /\ Chords[d] \cap Chords[c] = {}
        BY <2>1, <2>2, NewFacts
      <3>3. ASSUME NEW i \in DOMAIN key_buffer'
            PROVE  LET r == key_buffer'[i]
                   IN  /\ r.combo # 0 => r.combo \in New' /\ ~r.tick /\ r.key \in Chords[r.combo]
                       /\ r.tick => \E d \in New' : r.key \in Chords[d]
                       /\ \A d \in New' : r.key \in Chords[d] => r.tick \/ r.combo # 0
        <4>0. i \in DOMAIN key_buffer
          BY <2>5
        <4> DEFINE r == key_buffer[i]
        <4>1. /\ r.combo # 0 => r.combo \in New /\ ~r.tick /\ r.key \in Chords[r.combo]
              /\ r.tick => \E d \in New : r.key \in Chords[d]
              /\ \A d \in New : r.key \in Chords[d] => r.tick \/ r.combo # 0
          BY <4>0, <1>0 DEF CoreInv, ApplyOK
        <4>2. i \in Mine(c) <=> r.key \in Chords[c]
          BY <4>0 DEF Mine
        <4>3. i \in Mine(c) => r.combo = 0 /\ ~r.tick
          BY <4>1, <4>2, <3>2
        <4>4. CASE i \notin Mine(c)
          BY <4>0, <4>1, <4>2, <4>4, <2>7, <2>8
        <4>5. CASE i = n
          BY <4>0, <4>2, <4>3, <4>5, <2>3, <2>7, <2>8, <1>1, ComboFacts
        <4>6. CASE i \in Mine(c) /\ i # n
          BY <4>0, <4>2, <4>3, <4>6, <2>7, <2>8
        <4> QED BY <4>4, <4>5, <4>6, <2>3
      <3>4. ASSUME NEW d \in New'
            PROVE  /\ \E i \in DOMAIN key_buffer' : key_buffer'[i].combo = d
                   /\ Chords[d] \subseteq Kept' /\ state'[d] = Chords[d] \ Lifted(d)'
                   /\ \A e \in Open' : Chords[d] \cap Chords[e] = {}
                   /\ \A e \in New' \ {d} : Chords[d] \cap Chords[e] = {}
        <4>1. CASE d = c
          <5>1. n \in DOMAIN key_buffer
            BY <2>3 DEF Mine
          <5>2. n \in DOMAIN key_buffer' /\ key_buffer'[n].combo = c
            BY <5>1, <2>5, <2>7
          <5> QED BY <5>2, <4>1, <3>2, <2>2, <2>8, <2>10, <1>0
        <4>2. CASE d \in New
          <5>1. PICK i \in DOMAIN key_buffer : key_buffer[i].combo = d
            BY <4>2, <1>0 DEF CoreInv, ApplyOK
          <5>2. d # 0
            BY <4>2, ComboFacts DEF New, TypeOK
          <5>3. key_buffer[i].key \in Chords[d]
            BY <5>1, <5>2, <1>0 DEF CoreInv, ApplyOK
          <5>4. i \notin Mine(c)
            BY <5>3, <4>2, <3>2 DEF Mine
          <5>5. i \in DOMAIN key_buffer' /\ key_buffer'[i].combo = d
            BY <5>1, <5>4, <2>5, <2>7
          <5>6. /\ Chords[d] \subseteq Kept /\ state[d] = Chords[d] \ Lifted(d)
                /\ \A e \in Open : Chords[d] \cap Chords[e] = {}
                /\ \A e \in New \ {d} : Chords[d] \cap Chords[e] = {}
            BY <4>2, NewFacts
          <5> QED BY <5>5, <5>6, <4>2, <3>2, <2>8, <2>10, <1>0
        <4> QED BY <4>1, <4>2, <2>8
      <3> QED BY <3>1, <3>3, <3>4 DEF ApplyOK
    <2> QED BY <2>11, <2>12, <2>13, <2>14, <2>15, <2>16 DEF CoreInv
  <1> QED BY <1>2, <1>3

-----------------------------------------------------------------------------
(* The invariant.                                                          *)

LEMMA InvInit ==
  ASSUME Init
  PROVE  CombosInv
  <1>0. /\ key_buffer = <<>> /\ prepared = <<>> /\ walk = <<>> /\ state = [c \in ComboIds |-> {}]
        /\ down = {} /\ active = {} /\ fired = {} /\ registered = {} /\ disabled = {} /\ todo = {}
        /\ step = "idle" /\ event = NoEvent /\ part = FALSE /\ overrun = FALSE
        /\ event.key = NoKey /\ event.pressed = FALSE
    BY DEF Init, NoEvent
  <1>1. TypeOK
    <2>1. /\ key_buffer \in Seq(Buffered) /\ Len(key_buffer) <= COMBO_KEY_BUFFER_LENGTH
          /\ prepared \in Seq(ComboIds) /\ Len(prepared) < COMBO_BUFFER_LENGTH
          /\ walk \in Seq(ComboIds)
      BY <1>0, NoSeq, CombosAssumption
    <2> QED BY <2>1 DEF Init, TypeOK, NoEvent
  <1>2. LoopOK
    BY <1>0 DEF LoopOK, NoEvent
  <1>3. DOMAIN key_buffer = {} /\ Kept = {} /\ Open = {} /\ New = {} /\ Away = {}
    <2>1. DOMAIN key_buffer = {} /\ Range(prepared) = {}
      BY <1>0, RangeEmpty
    <2> QED BY <2>1, <1>0 DEF Kept, Open, New, Away
  <1>4. PlacesOK
    BY <1>0, <1>3 DEF PlacesOK
  <1>5. StateOK
    BY <1>0, <1>3 DEF StateOK
  <1>6. RingOK
    BY <1>0, <1>3 DEF RingOK
  <1>7. ReadyOK
    BY <1>0, ComboFacts DEF ReadyOK, Ready
  <1>8. ReleaseOK
    BY <1>0, <1>3 DEF ReleaseOK
  <1>9. OverlapOK /\ ApplyOK
    BY <1>0 DEF OverlapOK, ApplyOK
  <1> QED BY <1>1, <1>2, <1>4, <1>5, <1>6, <1>7, <1>8, <1>9 DEF CombosInv, CoreInv

\* What does not depend on the time.
LEMMA CoreUnchanged ==
  ASSUME CoreInv,
         UNCHANGED <<down, enabled, active, disabled, state, key_buffer, prepared, registered, fired,
                     step, event, part, todo, walk>>
  PROVE  CoreInv'
  BY DEF CoreInv, PlacesOK, StateOK, RingOK, ReadyOK, ReleaseOK, OverlapOK, ApplyOK, Kept, Pending,
         Open, New, Lifted, Complete, Away, Mine, UpTo, Ready, Current

LEMMA CoreEvent ==
  ASSUME TypeOK, LoopOK, CoreInv, Event
  PROVE  CoreInv'
  <1>1. CASE NoEventComes
    BY <1>1, CoreKept DEF NoEventComes, Return, sent, LoopOK
  <1>2. ASSUME NEW k \in Keys \cup Control, Press(k) PROVE CoreInv'
    BY <1>2, CoreStart DEF Press
  <1>3. ASSUME NEW k \in Keys \cup Control, Release(k) PROVE CoreInv'
    BY <1>3, CoreStart DEF Release
  <1>4. ASSUME NEW k \in Keys \cup Control, PressControl(k) PROVE CoreInv'
    <2>1. step = "idle" /\ \A l \in Keys : l \in down' <=> l \in down
      BY <1>4, CombosAssumption DEF PressControl
    <2>2. event = NoEvent /\ part = FALSE /\ todo = {} /\ walk = <<>>
      BY <2>1 DEF LoopOK
    <2>3. CASE combo_enable
      BY <2>1, <2>2, <2>3, CoreKept DEF combo_enable, Return, sent
    <2>4. CASE combo_disable
      BY <2>1, <2>2, <2>4, CoreReset DEF combo_disable, NoEvent
    <2> QED BY <1>4, <2>3, <2>4 DEF PressControl
  <1> QED BY <1>1, <1>2, <1>3, <1>4 DEF Event

LEMMA CoreNothingPrepared ==
  ASSUME TypeOK, LoopOK, CoreInv, NothingPrepared, prepared = <<>>, todo = {},
         ~(event.pressed /\ part)
  PROVE  CoreInv'
  <1>1. Open = {}
    BY RangeEmpty DEF Open
  <1> QED BY <1>1, CoreReset DEF NothingPrepared

LEMMA CoreNext ==
  ASSUME TypeOK, LoopOK, CoreInv, [Next]_vars, ~overrun'
  PROVE  CoreInv'
  <1>1. CASE UNCHANGED vars
    BY <1>1, CoreUnchanged DEF vars, task, clock, sent, loop
  <1>2. CASE combo_task
    <2>1. step = "idle" /\ event = NoEvent /\ event.pressed = FALSE /\ part = FALSE
          /\ todo = {} /\ walk = <<>>
      BY <1>2 DEF combo_task, LoopOK, NoEvent
    <2>2. CASE apply_combos
      BY <2>1, <2>2, CoreApplyCombos
    <2>3. CASE NothingPrepared /\ prepared = <<>>
      BY <2>1, <2>3, CoreNothingPrepared
    <2>4. CASE ~apply_combos /\ ~(NothingPrepared /\ prepared = <<>>)
      BY <1>2, <2>1, <2>4, CoreKept DEF combo_task, Return, sent
    <2> QED BY <2>2, <2>3, <2>4
  <1>3. CASE Event
    BY <1>3, CoreEvent
  <1>4. ASSUME NEW c \in todo, process_single_combo(c) PROVE CoreInv'
    BY <1>4, CoreChordPress, CoreChordRelease, CoreCompareOverlap, CorePrepare
       DEF process_single_combo
  <1>5. CASE KeepBack
    BY <1>5, CoreKeepBack
  <1>6. CASE Settle
    <2>1. step = "single" /\ todo = {} /\ ~(event.pressed /\ part)
      BY <1>6 DEF Settle
    <2> QED BY <1>6, <2>1, CoreApplyCombos, CoreNothingPrepared DEF Settle
  <1>7. CASE apply_combo
    BY <1>7, CoreApplyCombo
  <1>8. CASE Applied
    <2>1. step = "apply" /\ walk = <<>> /\ prepared' = prepared /\ prepared = <<>> /\ down' = down
      BY <1>8 DEF Applied
    <2>2. todo = {} /\ ~(event.pressed /\ part)
      BY <2>1 DEF LoopOK
    <2>3. Open = {}
      BY <2>1, RangeEmpty DEF Open
    <2> QED BY <1>8, <2>1, <2>2, <2>3, CoreReset DEF Applied
  <1>9. CASE Tick
    BY <1>9, CoreUnchanged DEF Tick, task, sent, loop
  <1> QED BY <1>1, <1>2, <1>3, <1>4, <1>5, <1>6, <1>7, <1>8, <1>9 DEF Next, keyboard_task

\* Once a buffer was too short nothing more is said.
LEMMA OverrunStays ==
  ASSUME TypeOK, [Next]_vars, overrun
  PROVE  overrun'
  BY DEF TypeOK, Next, keyboard_task, combo_task, Event, Press, Release, PressControl, NoEventComes,
         process_combo, combo_enable, combo_disable, process_single_combo, ChordPress, ChordRelease,
         CompareOverlap, Prepare, KeepBack, Settle, apply_combos, apply_combo, Applied,
         NothingPrepared, Tick, vars

LEMMA InvNext ==
  ASSUME CombosInv, [Next]_vars
  PROVE  CombosInv'
  <1>1. TypeOK /\ LoopOK /\ (event.pressed => event.key \in Keys)
    BY DEF CombosInv, LoopOK
  <1>2. TypeOK' /\ LoopOK'
    BY <1>1, TypeNext, LoopNext
  <1>3. ~overrun' => CoreInv'
    BY <1>1, CoreNext, OverrunStays DEF CombosInv
  <1> QED BY <1>2, <1>3 DEF CombosInv

LEMMA Invariance == Spec => []CombosInv
  <1> QED BY InvInit, InvNext, PTL DEF Spec

-----------------------------------------------------------------------------
(* The theorems.                                                           *)

\* Every variable of the combos has its type: the key buffer and the ring keep to
\* their lengths, whatever the combos of the keymap are.
THEOREM CombosTypes == Spec => []TypeOK
  <1>1. CombosInv => TypeOK
    BY DEF CombosInv
  <1> QED BY <1>1, Invariance, PTL

\* Where a key is, it is once.
LEMMA OneHome ==
  ASSUME CombosInv, step = "idle", ~overrun, NEW k \in Keys
  PROVE  IF k \in down THEN \E x : Homes(k) = {x} ELSE Homes(k) = {}
  <1> DEFINE A == {i \in DOMAIN key_buffer : key_buffer[i].key = k}
             B == IF k \in registered THEN {0} ELSE {}
             C == {-c : c \in {c \in fired : k \in state[c]}}
  <1>0. TypeOK /\ LoopOK /\ PlacesOK /\ event.key = NoKey
    BY DEF CombosInv, CoreInv, LoopOK, NoEvent
  <1>1. k \in down <=> k \in Away
    BY <1>0, ComboFacts DEF PlacesOK
  <1>2. Homes(k) = A \cup B \cup C
    BY DEF Homes
  <1>3. A # {} <=> k \in Kept
    BY DEF Kept
  <1>4. k \in Kept => \E i : A = {i}
    <2>1. SUFFICES ASSUME k \in Kept PROVE \E i : A = {i}
      OBVIOUS
    <2>2. PICK i \in DOMAIN key_buffer : key_buffer[i].key = k
      BY <2>1 DEF Kept
    <2>3. A = {i}
      BY <2>2, <1>0 DEF PlacesOK
    <2> QED BY <2>3
  <1>5. \A c \in fired : k \in state[c] => k \notin Kept /\ k \notin registered
    BY <1>0 DEF PlacesOK
  <1>6. (\E c \in fired : k \in state[c]) => \E x : C = {x}
    <2>1. SUFFICES ASSUME NEW c \in fired, k \in state[c] PROVE \E x : C = {x}
      OBVIOUS
    <2>2. {d \in fired : k \in state[d]} = {c}
      BY <2>1, <1>0 DEF PlacesOK
    <2>3. C = {-c}
      BY <2>2
    <2> QED BY <2>3
  <1>7. (~\E c \in fired : k \in state[c]) => C = {}
    OBVIOUS
  <1>8. k \in Kept => k \notin registered
    BY <1>0 DEF PlacesOK
  <1>9. k \in Away <=> k \in Kept \/ k \in registered \/ \E c \in fired : k \in state[c]
    BY DEF Away
  <1>10. k \in registered => B = {0}
    OBVIOUS
  <1>11. k \notin registered => B = {}
    OBVIOUS
  <1> HIDE DEF A, B, C
  <1>12. CASE k \in Kept
    BY <1>12, <1>1, <1>2, <1>4, <1>5, <1>7, <1>8, <1>9, <1>11
  <1>13. CASE k \notin Kept /\ k \in registered
    BY <1>13, <1>1, <1>2, <1>3, <1>5, <1>7, <1>9, <1>10
  <1>14. CASE k \notin Kept /\ k \notin registered
    BY <1>14, <1>1, <1>2, <1>3, <1>6, <1>7, <1>9, <1>11
  <1> QED BY <1>12, <1>13, <1>14

\* No press is lost, sent twice or left registered between two passes: a key that is
\* down is kept back, sent on or part of a combo that was sent on, and only one of
\* them; a key that is up is in no such place.
THEOREM EveryPressAccounted == Spec => []Accounted
  <1>1. CombosInv => Accounted
    <2>1. SUFFICES ASSUME CombosInv, step = "idle", ~overrun, NEW k \in Keys
                   PROVE  Cardinality(Homes(k)) = IF k \in down THEN 1 ELSE 0
      BY DEF Accounted
    <2>2. CASE k \in down
      <3>1. PICK x : Homes(k) = {x}
        BY <2>1, <2>2, OneHome
      <3>2. Cardinality({x}) = 1
        BY FS_Singleton
      <3> QED BY <2>2, <3>1, <3>2
    <2>3. CASE k \notin down
      <3>1. Homes(k) = {}
        BY <2>1, <2>3, OneHome
      <3> QED BY <2>3, <3>1, FS_EmptySet
    <2> QED BY <2>2, <2>3
  <1> QED BY <1>1, Invariance, PTL

\* A combo that was sent on is released with the last of its keys and not before,
\* whatever other combos share them; one that has no key left and is still registered
\* is a combo of one key.
THEOREM CombosReleased == Spec => []FiredIsActive
  <1>1. CombosInv => FiredIsActive
    BY DEF CombosInv, CoreInv, StateOK, New, FiredIsActive, Alone
  <1> QED BY <1>1, Invariance, PTL
=============================================================================
