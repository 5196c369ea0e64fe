--------------------------- MODULE TappingProofs ----------------------------
(***************************************************************************)
(* Proofs about tap or hold, for every keymap, every buffer and every term. *)
(* The argument follows the events of each key that are not acted on yet:  *)
(* those that wait and the record of the call.  A key whose next event is  *)
(* a release is engaged, and only engaged keys own what is on; what a key  *)
(* owns, a tap or a hold, is what that release will take off.              *)
(***************************************************************************)
EXTENDS Tapping, TLAPS, WellFoundedInduction, FiniteSetTheorems

-----------------------------------------------------------------------------
(* Sequences q of the events of keys, with D the keys that are down behind them. *)

First(q, i, k) ==
  /\ i \in 1..Len(q) /\ q[i].key = k
  /\ \A j \in 1..Len(q) : q[j].key = k => i <= j

Last(q, i, k) ==
  /\ i \in 1..Len(q) /\ q[i].key = k
  /\ \A j \in 1..Len(q) : q[j].key = k => j <= i

Pending(q, k) == \E i \in 1..Len(q) : q[i].key = k

\* The next event of k is a release.
Engaged(q, D, k) == IF Pending(q, k) THEN \E i \in 1..Len(q) : First(q, i, k) /\ ~q[i].pressed
                    ELSE k \in D

\* The presses and the releases of a key take turns.
Alternates(q, D) ==
  /\ \A i \in 1..Len(q) : Last(q, i, q[i].key) => (q[i].pressed <=> q[i].key \in D)
  /\ \A i, j \in 1..Len(q) :
        /\ i < j /\ q[i].key = q[j].key
        /\ \A m \in 1..Len(q) : i < m /\ m < j => q[m].key # q[i].key
        => (q[i].pressed <=> ~q[j].pressed)

\* The next event of k is a release that ends a tap.
NextCounted(q, k) == \E i \in 1..Len(q) : First(q, i, k) /\ ~q[i].pressed /\ q[i].count > 0

\* Only the next release of a key is counted.
Marks(q) == \A i \in 1..Len(q) : q[i].count > 0 => ~q[i].pressed /\ First(q, i, q[i].key)

Sorted(q) == \A i, j \in 1..Len(q) : i < j => q[i].age >= q[j].age

-----------------------------------------------------------------------------
(* The inductive invariant, of a tapping key t and the events q.            *)

Waits(t) == t # None /\ t.pressed /\ t.count = 0
Taken(t) == t # None /\ t.pressed

\* The next release of k ends a tap.
Counted(t, q, k) ==
  IF Taken(t) /\ t.key = k THEN t.count > 0 ELSE NextCounted(q, k)

Own(t, q, c, k) ==
  LET a == Keymap[c[k]][k] IN IF a.taps /\ Counted(t, q, k) THEN a.tap ELSE a.hold

\* What is on belongs to an engaged key, and not to one that is undecided.
Owned(t, q, D, c, O) ==
  \A x \in O : \E k \in Keys :
     Engaged(q, D, k) /\ ~(Waits(t) /\ t.key = k) /\ x = Own(t, q, c, k)

\* No release of an undecided key is counted, and the one that ends the first tap is.
Marked(t, q) ==
  /\ Marks(q)
  /\ Waits(t) => \A i \in 1..Len(q) : q[i].key = t.key => q[i].count = 0
  /\ Taken(t) /\ t.count = 1 => NextCounted(q, t.key)

\* Events wait in the order of their times, an undecided key is the oldest.
Aged(t, q) ==
  /\ Sorted(q)
  /\ Waits(t) => \A i \in 1..Len(q) : t.age >= q[i].age

\* No release that would make a tap of an undecided key waits.
Scanned(t, q) == Waits(t) => \A i \in 1..Len(q) :
                    ~(q[i].key = t.key /\ ~q[i].pressed /\ Within(t, q[i]))

\* Nothing waits for a key that is tapped or released.
Queued ==
  /\ phase \in {"idle", "process"} /\ waiting_buffer # <<>>
        => tapping_key = None \/ Waits(tapping_key)
  /\ phase = "process" /\ record.key # None /\ waiting_buffer # <<>> => Waits(tapping_key)
  /\ phase = "process" => record.age = 0

\* The events that are not acted on.
Events == IF phase = "process" /\ record.key # None THEN Append(waiting_buffer, record)
          ELSE waiting_buffer

\* A key that is tapped or undecided will be released.
Sound(t, q, D) ==
  /\ Alternates(q, D)
  /\ Taken(t) => Engaged(q, D, t.key)
  /\ Marked(t, q) /\ Aged(t, q)

\* What holds unless one of the hazards has struck, a lost layer excepted.
Orderly ==
  /\ Sound(tapping_key, Events, down)
  /\ Scanned(tapping_key, waiting_buffer) /\ Queued

Keyed ==
  /\ tapping_key # None => tapping_key.key \in Keys
  /\ \A i \in 1..Len(waiting_buffer) : waiting_buffer[i].key \in Keys
  /\ record.pressed => record.key \in Keys
  /\ \A k \in Keys : Keymap[source_layers_cache[k]][k] # None

IInv ==
  /\ TypeOK /\ Keyed
  /\ hazards \subseteq {"recached"} => Orderly
  /\ hazards = {} => Owned(tapping_key, Events, down, source_layers_cache, on)

-----------------------------------------------------------------------------
(* Sequences of events.                                                     *)

\* A set of numbers has a least one.
LEMMA LeastOf ==
  ASSUME NEW S, S \subseteq Nat, S # {}
  PROVE  \E i \in S : \A j \in S : i <= j
<1>1. PICK x \in S : \A y \in S : <<y, x>> \notin OpToRel(<, Nat)
  BY NatLessThanWellFounded, WFMin
<1>2. \A y \in S : ~ (y < x)
  BY <1>1, Zenon DEF OpToRel
<1> QED
  BY <1>2

\* A key with an event has a first one, and what it is decides whether it is engaged.
LEMMA FirstExists ==
  ASSUME NEW q, Len(q) \in Nat, NEW k, Pending(q, k)
  PROVE  \E i \in 1..Len(q) : First(q, i, k)
<1> DEFINE S == {i \in 1..Len(q) : q[i].key = k}
<1>1. PICK i \in S : \A j \in S : i <= j
  <2>1. S \subseteq Nat /\ S # {}
    BY DEF Pending
  <2> QED
    BY <2>1, LeastOf
<1> QED
  BY <1>1 DEF First

\* What the first event of a key is decides what the key is.
LEMMA FirstDecides ==
  ASSUME NEW q, NEW i, NEW k, First(q, i, k), Len(q) \in Nat, NEW D
  PROVE  /\ Engaged(q, D, k) <=> ~q[i].pressed
         /\ NextCounted(q, k) <=> ~q[i].pressed /\ q[i].count > 0
<1>1. \A j \in 1..Len(q) : First(q, j, k) => j = i
  BY DEF First
<1>2. Pending(q, k) /\ i \in 1..Len(q)
  BY DEF Pending, First
<1> QED
  BY <1>1, <1>2 DEF Engaged, NextCounted

\* A key without an event is what it is.
LEMMA NoneDecides ==
  ASSUME NEW q, NEW k, ~Pending(q, k), NEW D
  PROVE  (Engaged(q, D, k) <=> k \in D) /\ ~NextCounted(q, k)
BY DEF Engaged, NextCounted, Pending, First

\* p has the events of q, whatever their times and counts.
Same(p, q) ==
  /\ Len(p) = Len(q)
  /\ \A i \in 1..Len(q) : p[i].key = q[i].key /\ p[i].pressed = q[i].pressed

\* Times and counts do not matter to the turns of a key.
LEMMA SameEvents ==
  ASSUME NEW p, NEW q, Same(p, q), NEW D
  PROVE  /\ Alternates(q, D) => Alternates(p, D)
         /\ \A k : Pending(p, k) <=> Pending(q, k)
         /\ \A k : Engaged(p, D, k) <=> Engaged(q, D, k)
         /\ \A i, k : First(p, i, k) <=> First(q, i, k)
<1>1. \A i, k : First(p, i, k) <=> First(q, i, k)
  BY DEF Same, First
<1>2. \A k : Pending(p, k) <=> Pending(q, k)
  BY DEF Same, Pending
<1>3. \A k : Engaged(p, D, k) <=> Engaged(q, D, k)
  BY <1>1, <1>2 DEF Same, Engaged
<1>4. Alternates(q, D) => Alternates(p, D)
  <2>1. \A i, k : Last(p, i, k) <=> Last(q, i, k)
    BY DEF Same, Last
  <2> SUFFICES ASSUME Alternates(q, D) PROVE Alternates(p, D)
    OBVIOUS
  <2>2. ASSUME NEW i \in 1..Len(p), Last(p, i, p[i].key)
        PROVE  p[i].pressed <=> p[i].key \in D
    BY <2>1, <2>2 DEF Alternates, Same
  <2>3. ASSUME NEW i \in 1..Len(p), NEW j \in 1..Len(p), i < j, p[i].key = p[j].key,
               \A m \in 1..Len(p) : i < m /\ m < j => p[m].key # p[i].key
        PROVE  p[i].pressed <=> ~p[j].pressed
    BY <2>3 DEF Alternates, Same
  <2> QED
    BY <2>2, <2>3 DEF Alternates
<1> QED
  BY <1>1, <1>2, <1>3, <1>4

\* One more event, of the key k, that is pressed or released with it.
LEMMA OneMore ==
  ASSUME NEW q \in Seq(Record), NEW r \in Record, NEW D, NEW D2,
         r.pressed <=> r.key \notin D, r.key \in D2 <=> r.key \notin D,
         \A x : x # r.key => (x \in D2 <=> x \in D)
  PROVE  LET p == Append(q, r)
         IN  /\ Alternates(q, D) => Alternates(p, D2)
             /\ \A x : Engaged(p, D2, x) <=> Engaged(q, D, x)
             /\ \A i \in 1..Len(q) : \A x : First(p, i, x) <=> First(q, i, x)
             /\ \A x : First(p, Len(q) + 1, x) <=> x = r.key /\ ~Pending(q, x)
<1> DEFINE p == Append(q, r)
<1> DEFINE n == Len(q)
<1>1. /\ n \in Nat /\ Len(p) = n + 1 /\ \A i \in 1..n : p[i] = q[i]
      /\ p[n + 1] = r
  OBVIOUS
<1>2. \A i \in 1..Len(p) : i \in 1..n \/ i = n + 1
  BY <1>1
<1>3. \A i \in 1..n : i \in 1..Len(p) /\ i < n + 1 /\ i # n + 1
  BY <1>1
<1>4. n + 1 \in 1..Len(p)
  BY <1>1
<1> HIDE DEF p, n
<1>5. \A i \in 1..n : \A x : First(p, i, x) <=> First(q, i, x)
  BY <1>1, <1>2, <1>3 DEF First, n
<1>6. \A x : First(p, n + 1, x) <=> x = r.key /\ ~Pending(q, x)
  <2> TAKE x
  <2>1. ASSUME First(p, n + 1, x) PROVE x = r.key /\ ~Pending(q, x)
    BY <1>1, <1>3, <2>1 DEF First, Pending, n
  <2>2. ASSUME x = r.key, ~Pending(q, x) PROVE First(p, n + 1, x)
    BY <1>1, <1>2, <1>4, <2>2 DEF First, Pending, n
  <2> QED
    BY <2>1, <2>2
<1>7. ASSUME NEW x PROVE Engaged(p, D2, x) <=> Engaged(q, D, x)
  <2>0. Len(p) \in Nat /\ Len(q) \in Nat
    BY <1>1 DEF n
  <2>1. CASE Pending(q, x)
    <3>1. PICK i \in 1..n : First(q, i, x)
      BY <2>0, <2>1, FirstExists DEF n
    <3>2. First(p, i, x) /\ p[i] = q[i]
      BY <1>1, <1>5, <3>1
    <3> QED
      BY <2>0, <3>1, <3>2, FirstDecides
  <2>2. CASE ~Pending(q, x) /\ x = r.key
    <3>1. First(p, n + 1, x)
      BY <1>6, <2>2
    <3>2. (Engaged(p, D2, x) <=> ~r.pressed) /\ (Engaged(q, D, x) <=> x \in D)
      BY <1>1, <2>0, <2>2, <3>1, FirstDecides, NoneDecides
    <3> QED
      BY <2>2, <3>2
  <2>3. CASE ~Pending(q, x) /\ x # r.key
    <3>1. ~Pending(p, x)
      BY <1>1, <1>2, <2>3 DEF Pending, n
    <3> QED
      BY <2>3, <3>1, NoneDecides
  <2> QED
    BY <2>1, <2>2, <2>3
<1>8. ASSUME Alternates(q, D) PROVE Alternates(p, D2)
  <2>1. ASSUME NEW i \in 1..Len(p), Last(p, i, p[i].key)
        PROVE  p[i].pressed <=> p[i].key \in D2
    <3>1. CASE i = n + 1
      BY <1>1, <3>1
    <3>2. CASE i \in 1..n
      <4>1. p[i] = q[i] /\ Last(q, i, q[i].key)
        BY <1>1, <1>3, <2>1, <3>2 DEF Last, n
      <4>2. q[i].pressed <=> q[i].key \in D
        BY <1>8, <3>2, <4>1 DEF Alternates, n
      <4>3. q[i].key # r.key
        BY <1>1, <1>3, <1>4, <2>1, <3>2 DEF Last
      <4> QED
        BY <4>1, <4>2, <4>3
    <3> QED
      BY <1>2, <3>1, <3>2
  <2>2. ASSUME NEW i \in 1..Len(p), NEW j \in 1..Len(p), i < j, p[i].key = p[j].key,
               \A m \in 1..Len(p) : i < m /\ m < j => p[m].key # p[i].key
        PROVE  p[i].pressed <=> ~p[j].pressed
    <3>1. i \in 1..n
      BY <1>1, <1>2, <2>2
    <3>2. CASE j \in 1..n
      BY <1>1, <1>3, <1>8, <2>2, <3>1, <3>2 DEF Alternates, n
    <3>3. CASE j = n + 1
      <4>1. Last(q, i, q[i].key)
        BY <1>1, <1>3, <2>2, <3>1, <3>3 DEF Last, n
      <4>2. q[i].pressed <=> q[i].key \in D
        BY <1>8, <3>1, <4>1 DEF Alternates, n
      <4> QED
        BY <1>1, <2>2, <3>1, <3>3, <4>2
    <3> QED
      BY <1>2, <3>2, <3>3
  <2> QED
    BY <2>1, <2>2 DEF Alternates
<1> QED
  BY <1>5, <1>6, <1>7, <1>8 DEF p, n

\* The ranges of the constants and of the fields of a record.
LEMMA RecordTypes ==
  /\ TimerMod \in Nat \ {0} /\ Term \in Nat \ {0} /\ Term < TimerMod
  /\ BufferSize \in Nat \ {0} /\ MaxTaps \in Nat /\ MaxTaps > 1
  /\ \A r \in Record : /\ r.count \in Nat /\ r.count <= MaxTaps /\ r.age \in 0..(TimerMod - 1)
                        /\ r.key \in Keys \cup {None} /\ r.pressed \in BOOLEAN
                        /\ r.interrupted \in BOOLEAN
<1>1. /\ TimerMod \in Nat \ {0} /\ Term \in Nat \ {0} /\ Term < TimerMod
      /\ BufferSize \in Nat \ {0} /\ MaxTaps \in Nat /\ MaxTaps > 1
  BY TappingAssumption
<1> QED
  BY <1>1 DEF Record

\* p is q without the event e_, the next one of its key.
Removal(q, p, e_, D) ==
  /\ Alternates(p, D)
  /\ Engaged(q, D, e_.key) <=> ~e_.pressed
  /\ Engaged(p, D, e_.key) <=> e_.pressed
  /\ NextCounted(q, e_.key) <=> ~e_.pressed /\ e_.count > 0
  /\ \A x : x # e_.key => /\ Engaged(p, D, x) <=> Engaged(q, D, x)
                          /\ NextCounted(p, x) <=> NextCounted(q, x)
  /\ Marks(q) => Marks(p) /\ \A i \in 1..Len(p) : p[i].key = e_.key => p[i].count = 0
  /\ Sorted(q) => Sorted(p)
  /\ \A i \in 1..Len(p) : \E j \in 1..Len(q) : p[i] = q[j]

\* The head is acted on.
LEMMA TailRemoval ==
  ASSUME NEW q \in Seq(Record), q # <<>>, NEW D, Alternates(q, D)
  PROVE  Removal(q, Tail(q), Head(q), D)
<1> DEFINE p == Tail(q)
<1> DEFINE a == Head(q)
<1> DEFINE n == Len(p)
<1>1. /\ n \in Nat /\ Len(q) = n + 1 /\ \A i \in 1..n : p[i] = q[i + 1]
      /\ a = q[1] /\ 1 \in 1..Len(q) /\ p \in Seq(Record)
  OBVIOUS
<1>2. \A i \in 1..n : i + 1 \in 1..Len(q) /\ 1 < i + 1 /\ i + 1 # 1
  BY <1>1
<1>3. \A j \in 1..Len(q) : j = 1 \/ (j - 1 \in 1..n /\ j = (j - 1) + 1)
  BY <1>1
<1>4. \A i \in 1..n : p[i] \in Record /\ p[i].count \in Nat
  BY <1>1, RecordTypes
<1> HIDE DEF p, a, n
<1>5. First(q, 1, a.key)
  BY <1>1 DEF First
<1>6. \A x : x # a.key => \A i \in 1..n : First(p, i, x) <=> First(q, i + 1, x)
  <2> SUFFICES ASSUME NEW x, x # a.key, NEW i \in 1..n PROVE First(p, i, x) <=> First(q, i + 1, x)
    OBVIOUS
  <2>1. ASSUME First(p, i, x) PROVE First(q, i + 1, x)
    <3>1. ASSUME NEW j \in 1..Len(q), q[j].key = x PROVE i + 1 <= j
      <4>1. j # 1
        BY <1>1, <3>1
      <4>2. j - 1 \in 1..n /\ p[j - 1].key = x
        BY <1>1, <1>3, <3>1, <4>1
      <4>3. i <= j - 1
        BY <2>1, <4>2 DEF First, n
      <4> QED
        BY <1>1, <4>2, <4>3
    <3> QED
      BY <1>1, <1>2, <2>1, <3>1 DEF First
  <2>2. ASSUME First(q, i + 1, x) PROVE First(p, i, x)
    <3>1. ASSUME NEW j \in 1..n, p[j].key = x PROVE i <= j
      <4>1. i + 1 <= j + 1
        BY <1>1, <1>2, <2>2, <3>1 DEF First
      <4> QED
        BY <1>1, <4>1
    <3> QED
      BY <1>1, <1>2, <2>2, <3>1 DEF First, n
  <2> QED
    BY <2>1, <2>2
<1>7. ASSUME NEW x, x # a.key PROVE Pending(p, x) <=> Pending(q, x)
  <2>1. ASSUME NEW i \in 1..n, p[i].key = x PROVE Pending(q, x)
    BY <1>1, <1>2, <2>1 DEF Pending
  <2>2. ASSUME NEW j \in 1..Len(q), q[j].key = x PROVE Pending(p, x)
    <3>1. j - 1 \in 1..n /\ p[j - 1].key = x
      BY <1>1, <1>3, <1>7, <2>2
    <3> QED
      BY <3>1 DEF Pending, n
  <2> QED
    BY <2>1, <2>2 DEF Pending, n
<1>0. Len(p) \in Nat /\ Len(q) \in Nat /\ n = Len(p)
  BY <1>1 DEF n
<1>8. ASSUME NEW x, x # a.key
      PROVE  (Engaged(p, D, x) <=> Engaged(q, D, x)) /\ (NextCounted(p, x) <=> NextCounted(q, x))
  <2>1. CASE Pending(p, x)
    <3>1. PICK i \in 1..n : First(p, i, x)
      BY <1>0, <2>1, FirstExists
    <3>2. First(q, i + 1, x) /\ p[i] = q[i + 1]
      BY <1>1, <1>6, <1>8, <3>1
    <3> QED
      BY <1>0, <3>1, <3>2, FirstDecides
  <2>2. CASE ~Pending(p, x)
    <3>1. ~Pending(q, x)
      BY <1>7, <1>8, <2>2
    <3> QED
      BY <2>2, <3>1, NoneDecides
  <2> QED
    BY <2>1, <2>2
<1>9. (Engaged(q, D, a.key) <=> ~a.pressed) /\ (NextCounted(q, a.key) <=> ~a.pressed /\ a.count > 0)
  BY <1>0, <1>1, <1>5, FirstDecides
<1>10. Engaged(p, D, a.key) <=> a.pressed
  <2>1. CASE Pending(p, a.key)
    <3>1. PICK i \in 1..n : First(p, i, a.key)
      BY <1>0, <2>1, FirstExists
    <3>2. \A m \in 1..Len(q) : 1 < m /\ m < i + 1 => q[m].key # q[1].key
      <4> SUFFICES ASSUME NEW m \in 1..Len(q), 1 < m, m < i + 1, q[m].key = q[1].key PROVE FALSE
        OBVIOUS
      <4>1. m - 1 \in 1..n /\ p[m - 1].key = a.key /\ ~(i <= m - 1)
        BY <1>1, <1>3
      <4> QED
        BY <1>0, <3>1, <4>1 DEF First
    <3>3. q[1].pressed <=> ~q[i + 1].pressed
      <4>1. q[i + 1].key = q[1].key /\ i + 1 \in 1..Len(q) /\ 1 < i + 1
        BY <1>1, <1>2, <3>1 DEF First
      <4> QED
        BY <1>1, <3>2, <4>1 DEF Alternates
    <3> QED
      BY <1>0, <1>1, <3>1, <3>3, FirstDecides
  <2>2. CASE ~Pending(p, a.key)
    <3>1. \A j \in 1..Len(q) : q[j].key = a.key => j = 1
      BY <1>0, <1>1, <1>3, <2>2 DEF Pending
    <3>2. Last(q, 1, q[1].key)
      BY <1>1, <3>1 DEF Last
    <3>3. q[1].pressed <=> a.key \in D
      BY <1>1, <3>2 DEF Alternates
    <3> QED
      BY <1>1, <2>2, <3>3, NoneDecides
  <2> QED
    BY <2>1, <2>2
<1>11. Alternates(p, D)
  <2>1. ASSUME NEW i \in 1..n, Last(p, i, p[i].key)
        PROVE  p[i].pressed <=> p[i].key \in D
    <3>1. ASSUME NEW j \in 1..Len(q), q[j].key = q[i + 1].key PROVE j <= i + 1
      <4>1. CASE j = 1
        BY <1>2, <4>1
      <4>2. CASE j - 1 \in 1..n
        <5>0. p[j - 1].key = p[i].key
          BY <1>1, <1>3, <3>1, <4>2
        <5>1. j - 1 <= i
          BY <1>0, <2>1, <4>2, <5>0 DEF Last
        <5> QED
          BY <1>0, <5>1
      <4> QED
        BY <1>3, <4>1, <4>2
    <3>2. Last(q, i + 1, q[i + 1].key)
      BY <1>2, <3>1 DEF Last
    <3> QED
      BY <1>1, <1>2, <3>2 DEF Alternates
  <2>2. ASSUME NEW i \in 1..n, NEW j \in 1..n, i < j, p[i].key = p[j].key,
               \A m \in 1..n : i < m /\ m < j => p[m].key # p[i].key
        PROVE  p[i].pressed <=> ~p[j].pressed
    <3>1. ASSUME NEW m \in 1..Len(q), i + 1 < m, m < j + 1 PROVE q[m].key # q[i + 1].key
      <4>1. m # 1 /\ i < m - 1 /\ m - 1 < j
        BY <1>0, <3>1
      <4>2. m - 1 \in 1..n /\ p[m - 1] = q[m]
        BY <1>1, <1>3, <4>1
      <4> QED
        BY <1>1, <2>2, <4>1, <4>2
    <3>2. i + 1 < j + 1
      BY <1>0, <2>2
    <3> QED
      BY <1>1, <1>2, <2>2, <3>1, <3>2 DEF Alternates
  <2> QED
    BY <1>0, <2>1, <2>2 DEF Alternates
<1>12. ASSUME Marks(q) PROVE Marks(p) /\ \A i \in 1..n : p[i].key = a.key => p[i].count = 0
  <2>1. ASSUME NEW i \in 1..n, p[i].count > 0 PROVE p[i].key # a.key
    <3>1. First(q, i + 1, q[i + 1].key)
      BY <1>1, <1>2, <1>12, <2>1 DEF Marks
    <3> QED
      BY <1>1, <1>2, <3>1 DEF First
  <2>2. \A i \in 1..n : p[i].key = a.key => p[i].count = 0
    BY <1>4, <2>1
  <2>3. ASSUME NEW i \in 1..n, p[i].count > 0 PROVE ~p[i].pressed /\ First(p, i, p[i].key)
    <3>1. ~q[i + 1].pressed /\ First(q, i + 1, q[i + 1].key)
      BY <1>1, <1>2, <1>12, <2>3 DEF Marks
    <3> QED
      BY <1>1, <1>6, <2>1, <2>3, <3>1
  <2> QED
    BY <1>0, <2>2, <2>3 DEF Marks
<1>13. ASSUME Sorted(q) PROVE Sorted(p)
  <2>1. \A i, j \in 1..n : i < j => i + 1 < j + 1
    BY <1>0
  <2> QED
    BY <1>0, <1>1, <1>2, <1>13, <2>1 DEF Sorted
<1>14. \A i \in 1..n : \E j \in 1..Len(q) : p[i] = q[j]
  BY <1>1, <1>2
<1> QED
  BY <1>0, <1>8, <1>9, <1>10, <1>11, <1>12, <1>13, <1>14 DEF Removal, p, a

\* The last event is acted on before others, of other keys, that wait.
LEMMA LastRemoval ==
  ASSUME NEW p \in Seq(Record), NEW a \in Record, NEW D, Alternates(Append(p, a), D),
         ~Pending(p, a.key)
  PROVE  Removal(Append(p, a), p, a, D)
<1> DEFINE q == Append(p, a)
<1> DEFINE n == Len(p)
<1>1. /\ n \in Nat /\ Len(q) = n + 1 /\ \A i \in 1..n : q[i] = p[i]
      /\ q[n + 1] = a /\ n + 1 \in 1..Len(q)
  OBVIOUS
<1>2. \A i \in 1..n : i \in 1..Len(q) /\ i < n + 1 /\ i # n + 1
  BY <1>1
<1>3. \A i \in 1..Len(q) : i \in 1..n \/ i = n + 1
  BY <1>1
<1>4. \A i \in 1..n : p[i] \in Record /\ p[i].count \in Nat /\ p[i].key # a.key
  BY RecordTypes DEF Pending
<1> HIDE DEF q, n
<1>0. Len(p) \in Nat /\ Len(q) \in Nat /\ n = Len(p)
  BY <1>1 DEF n
<1>5. First(q, n + 1, a.key)
  BY <1>1, <1>3, <1>4 DEF First
<1>6. ASSUME NEW x, x # a.key, NEW i \in 1..n PROVE First(p, i, x) <=> First(q, i, x)
  BY <1>0, <1>1, <1>2, <1>3, <1>6 DEF First
<1>7. ASSUME NEW x, x # a.key PROVE Pending(p, x) <=> Pending(q, x)
  <2>1. ASSUME NEW i \in 1..n, p[i].key = x PROVE Pending(q, x)
    BY <1>1, <1>2, <2>1 DEF Pending
  <2>2. ASSUME NEW j \in 1..Len(q), q[j].key = x PROVE Pending(p, x)
    BY <1>0, <1>1, <1>3, <1>7, <2>2 DEF Pending
  <2> QED
    BY <1>0, <2>1, <2>2 DEF Pending
<1>8. ASSUME NEW x, x # a.key
      PROVE  (Engaged(p, D, x) <=> Engaged(q, D, x)) /\ (NextCounted(p, x) <=> NextCounted(q, x))
  <2>1. CASE Pending(p, x)
    <3>1. PICK i \in 1..n : First(p, i, x)
      BY <1>0, <2>1, FirstExists
    <3>2. First(q, i, x) /\ q[i] = p[i]
      BY <1>1, <1>6, <1>8, <3>1
    <3> QED
      BY <1>0, <3>1, <3>2, FirstDecides
  <2>2. CASE ~Pending(p, x)
    <3>1. ~Pending(q, x)
      BY <1>7, <1>8, <2>2
    <3> QED
      BY <2>2, <3>1, NoneDecides
  <2> QED
    BY <2>1, <2>2
<1>9. (Engaged(q, D, a.key) <=> ~a.pressed) /\ (NextCounted(q, a.key) <=> ~a.pressed /\ a.count > 0)
  BY <1>0, <1>1, <1>5, FirstDecides
<1>10. Engaged(p, D, a.key) <=> a.pressed
  <2>1. Last(q, n + 1, q[n + 1].key)
    BY <1>1, <1>2, <1>3 DEF Last
  <2>2. a.pressed <=> a.key \in D
    BY <1>1, <2>1 DEF Alternates, q
  <2> QED
    BY <2>2, NoneDecides
<1>11. Alternates(p, D)
  <2>0. Alternates(q, D)
    BY DEF q
  <2>1. ASSUME NEW i \in 1..n, Last(p, i, p[i].key)
        PROVE  p[i].pressed <=> p[i].key \in D
    <3>1. Last(q, i, q[i].key)
      BY <1>0, <1>1, <1>2, <1>3, <1>4, <2>1 DEF Last
    <3> QED
      BY <1>1, <1>2, <2>0, <3>1 DEF Alternates
  <2>2. ASSUME NEW i \in 1..n, NEW j \in 1..n, i < j, p[i].key = p[j].key,
               \A m \in 1..n : i < m /\ m < j => p[m].key # p[i].key
        PROVE  p[i].pressed <=> ~p[j].pressed
    <3>1. ASSUME NEW m \in 1..Len(q), i < m, m < j PROVE q[m].key # q[i].key
      <4>1. m \in 1..n
        BY <1>0, <1>3, <3>1
      <4> QED
        BY <1>1, <2>2, <3>1, <4>1
    <3> QED
      BY <1>1, <1>2, <2>0, <2>2, <3>1 DEF Alternates
  <2> QED
    BY <1>0, <2>1, <2>2 DEF Alternates
<1>12. ASSUME Marks(q) PROVE Marks(p) /\ \A i \in 1..n : p[i].key = a.key => p[i].count = 0
  <2>1. ASSUME NEW i \in 1..n, p[i].count > 0 PROVE ~p[i].pressed /\ First(p, i, p[i].key)
    <3>1. ~q[i].pressed /\ First(q, i, q[i].key)
      BY <1>1, <1>2, <1>12, <2>1 DEF Marks
    <3> QED
      BY <1>1, <1>4, <1>6, <2>1, <3>1
  <2> QED
    BY <1>0, <1>4, <2>1 DEF Marks
<1>13. ASSUME Sorted(q) PROVE Sorted(p)
  BY <1>0, <1>1, <1>2, <1>13 DEF Sorted
<1>14. \A i \in 1..n : \E j \in 1..Len(q) : p[i] = q[j]
  BY <1>1, <1>2
<1> QED
  BY <1>0, <1>8, <1>9, <1>10, <1>11, <1>12, <1>13, <1>14 DEF Removal, q

\* p is q with the next release of k counted: it will end a tap.
CountsNext(q, p, m, k) ==
  /\ First(q, m, k) /\ ~q[m].pressed /\ Same(p, q) /\ p[m].count > 0
  /\ \A i \in 1..Len(q) : p[i].age = q[i].age /\ (i # m => p[i].count = q[i].count)

\* A count on the next release of a key changes nothing else.
LEMMA CountMark ==
  ASSUME NEW q \in Seq(Record), NEW p \in Seq(Record), NEW m, NEW k, CountsNext(q, p, m, k), NEW D
  PROVE  /\ Alternates(q, D) => Alternates(p, D)
         /\ \A x : Engaged(p, D, x) <=> Engaged(q, D, x)
         /\ NextCounted(p, k)
         /\ \A x : x # k => (NextCounted(p, x) <=> NextCounted(q, x))
         /\ Marks(q) => Marks(p)
         /\ Sorted(q) => Sorted(p)
<1>0. /\ First(q, m, k) /\ ~q[m].pressed /\ Same(p, q) /\ p[m].count > 0
      /\ \A i \in 1..Len(q) : p[i].age = q[i].age /\ (i # m => p[i].count = q[i].count)
  BY DEF CountsNext
<1>1. /\ Alternates(q, D) => Alternates(p, D)
      /\ \A x : Engaged(p, D, x) <=> Engaged(q, D, x)
      /\ \A i, x : First(p, i, x) <=> First(q, i, x)
  BY <1>0, SameEvents
<1>2. Len(p) = Len(q) /\ \A i \in 1..Len(q) : p[i].key = q[i].key /\ p[i].pressed = q[i].pressed
  BY <1>0 DEF Same
<1>3. m \in 1..Len(q) /\ q[m].key = k
  BY <1>0 DEF First
<1>4. NextCounted(p, k)
  BY <1>0, <1>1, <1>2, <1>3 DEF NextCounted
<1>5. ASSUME NEW x, x # k PROVE NextCounted(p, x) <=> NextCounted(q, x)
  <2>1. \A i \in 1..Len(q) : First(q, i, x) => i # m
    BY <1>3, <1>5 DEF First
  <2> QED
    BY <1>0, <1>1, <1>2, <2>1 DEF NextCounted
<1>6. ASSUME Marks(q) PROVE Marks(p)
  <2>1. ASSUME NEW i \in 1..Len(p), p[i].count > 0 PROVE ~p[i].pressed /\ First(p, i, p[i].key)
    <3>1. CASE i = m
      BY <1>0, <1>1, <1>2, <1>3, <3>1
    <3>2. CASE i # m
      BY <1>0, <1>1, <1>2, <1>6, <2>1, <3>2 DEF Marks
    <3> QED
      BY <3>1, <3>2
  <2> QED
    BY <2>1 DEF Marks
<1>7. Sorted(q) => Sorted(p)
  BY <1>0, <1>2 DEF Sorted
<1> QED
  BY <1>1, <1>4, <1>5, <1>6, <1>7

-----------------------------------------------------------------------------
(* Types.                                                                   *)

\* A key has an action on the layer it is looked up on.
LEMMA LayerFound ==
  ASSUME NEW k \in Keys
  PROVE  SourceLayer(k) \in Layers /\ Keymap[SourceLayer(k)][k] # None
<1> DEFINE S == {0} \cup {l \in Layers : Layer(l) \in on /\ Keymap[l][k] # None}
<1> DEFINE n == Cardinality(Layers)
<1>1. n \in Nat /\ Layers = 0..(n - 1) /\ 0 \in Layers
  <2>0. IsFiniteSet(Layers)
    BY TappingAssumption
  <2>1. n \in Nat
    BY <2>0, FS_CardinalityType
  <2>2. Layers = 0..(n - 1) /\ Layers # {}
    BY TappingAssumption
  <2> HIDE DEF n
  <2> QED
    BY <2>1, <2>2
<1> HIDE DEF n
<1>2. S \subseteq Layers /\ \A l \in S : Keymap[l][k] # None
  BY <1>1, TappingAssumption
<1>3. S # {} /\ S \subseteq Nat /\ \A l \in S : l <= n
  BY <1>1, <1>2
<1> HIDE DEF S
<1>4. \E l \in S : \A y \in S : l >= y
  <2> DEFINE T == {n - l : l \in S}
  <2>0. \A l \in S : n - l \in Nat
    BY <1>1, <1>3
  <2>1. T \subseteq Nat /\ T # {}
    BY <1>3, <2>0
  <2>2. PICK d \in T : \A j \in T : d <= j
    BY <2>1, LeastOf
  <2>3. PICK l \in S : d = n - l
    BY <2>2
  <2>4. ASSUME NEW y \in S PROVE l >= y
    <3>1. n - l <= n - y
      BY <2>2, <2>3
    <3> QED
      BY <1>1, <1>3, <3>1
  <2> QED
    BY <2>4
<1>5. Max(S) \in S
  BY <1>4 DEF Max
<1>6. SourceLayer(k) = Max(S)
  BY DEF SourceLayer, S
<1> QED
  BY <1>2, <1>5, <1>6

Good(c) == c \in [Keys -> Layers] /\ \A k \in Keys : Keymap[c[k]][k] # None

\* What an action registers is an output of the keymap.
LEMMA OutputFound ==
  ASSUME Good(source_layers_cache), NEW r \in Record, r.key \in Keys
  PROVE  /\ Source(r) \in Layers /\ Keymap[Source(r)][r.key] # None
         /\ Output(r) \in Outputs
<1>1. Source(r) \in Layers /\ Keymap[Source(r)][r.key] # None
  BY LayerFound DEF Source, Good
<1>2. Keymap[Source(r)][r.key] \in Actions
  BY <1>1 DEF Actions
<1> QED
  BY <1>1, <1>2 DEF Output, Outputs

\* process_action keeps the cache and the outputs in their ranges.
LEMMA RecordEffect ==
  ASSUME Good(source_layers_cache), on \subseteq Outputs, NEW r \in Record,
         r.pressed => r.key \in Keys
  PROVE  Good(CacheAfter(r)) /\ OnAfter(r) \subseteq Outputs
<1>1. CASE r.key \in Keys
  <2>1. Source(r) \in Layers /\ Keymap[Source(r)][r.key] # None /\ Output(r) \in Outputs
    BY <1>1, OutputFound
  <2>2. Good(CacheAfter(r))
    BY <1>1, <2>1 DEF CacheAfter, Good
  <2>3. OnAfter(r) \subseteq Outputs
    BY <1>1, <2>1 DEF OnAfter
  <2> QED
    BY <2>2, <2>3
<1>2. CASE r.key \notin Keys
  <2>1. r.key = None /\ ~r.pressed
    BY <1>2, RecordTypes
  <2> QED
    BY <2>1 DEF CacheAfter, OnAfter
<1> QED
  BY <1>1, <1>2

\* A TICK is the record of no key.
LEMMA TickIsRecord == TICK \in Record /\ ~TICK.pressed /\ TICK.key = None /\ TICK.age = 0
BY RecordTypes DEF TICK, Event, Record

\* TypeOK and Keyed together.
Types ==
  /\ down \subseteq Keys
  /\ tapping_key # None => tapping_key \in Record /\ tapping_key.key \in Keys
  /\ waiting_buffer \in Seq(Record) /\ Len(waiting_buffer) < BufferSize
  /\ \A i \in 1..Len(waiting_buffer) : waiting_buffer[i].key \in Keys
  /\ record \in Record /\ (record.pressed => record.key \in Keys)
  /\ phase \in {"idle", "process", "drain"}
  /\ Good(source_layers_cache) /\ on \subseteq Outputs
  /\ hazards \subseteq {"recached", "overflow", "overtaking", "wrapped", "unscanned"}

\* The types, as the steps use them.
LEMMA TypesAreTypes == (TypeOK /\ Keyed) <=> Types
<1>1. TypeOK /\ Keyed => Types
  BY DEF TypeOK, Keyed, Types, Good
<1>2. Types => TypeOK /\ Keyed
  BY DEF TypeOK, Keyed, Types, Good
<1> QED
  BY <1>1, <1>2

\* The state behind a branch of process_tapping.
Behind ==
  /\ phase \in {"drain", "idle"}
  /\ hazards \subseteq {"recached"} =>
       /\ Sound(tapping_key, waiting_buffer, down)
       /\ Scanned(tapping_key, waiting_buffer)
       /\ phase = "idle" /\ waiting_buffer # <<>> => tapping_key = None \/ Waits(tapping_key)
  /\ hazards = {} => Owned(tapping_key, waiting_buffer, down, source_layers_cache, on)

\* What holds behind a branch is the invariant.
LEMMA BehindInv ==
  ASSUME Types, Behind
  PROVE  IInv
<1>1. Events = waiting_buffer /\ phase # "process"
  BY DEF Behind, Events
<1>2. TypeOK /\ Keyed
  BY TypesAreTypes
<1>3. hazards \subseteq {"recached"} => Orderly
  BY <1>1 DEF Behind, Orderly, Queued
<1> QED
  BY <1>1, <1>2, <1>3 DEF Behind, IInv

-----------------------------------------------------------------------------
(* The parts of a branch: an event is acted on, a tap is begun or ended.     *)

\* An event of another key is acted on: nothing changes for the tapping key.
LEMMA SoundKept ==
  ASSUME NEW q, NEW p, NEW a, NEW D, NEW t, NEW t2, Sound(t, q, D), Removal(q, p, a, D),
         Taken(t) => a.key # t.key,
         Taken(t2) <=> Taken(t),
         Taken(t) => t2.key = t.key /\ t2.count = t.count /\ t2.age = t.age
  PROVE  /\ Sound(t2, p, D)
         /\ \A x : x # a.key => (Counted(t2, p, x) <=> Counted(t, q, x))
         /\ \A x : Waits(t2) /\ t2.key = x => Waits(t) /\ t.key = x
<1>1. Waits(t2) <=> Waits(t)
  BY DEF Waits, Taken
<1>2. Alternates(p, D)
  BY DEF Removal
<1>3. Taken(t2) => Engaged(p, D, t2.key)
  BY DEF Removal, Sound
<1>4. Marked(t2, p)
  <2>1. Marks(p)
    BY DEF Removal, Sound, Marked
  <2>2. ASSUME Waits(t2), NEW i \in 1..Len(p), p[i].key = t2.key PROVE p[i].count = 0
    <3>1. Waits(t) /\ Taken(t) /\ t2.key = t.key
      BY <1>1, <2>2 DEF Waits, Taken
    <3>2. PICK j \in 1..Len(q) : p[i] = q[j]
      BY DEF Removal
    <3> QED
      BY <2>2, <3>1, <3>2 DEF Sound, Marked
  <2>3. ASSUME Taken(t2), t2.count = 1 PROVE NextCounted(p, t2.key)
    BY <2>3 DEF Removal, Sound, Marked
  <2> QED
    BY <2>1, <2>2, <2>3 DEF Marked
<1>5. Aged(t2, p)
  <2>1. Sorted(p)
    BY DEF Removal, Sound, Aged
  <2>2. ASSUME Waits(t2), NEW i \in 1..Len(p) PROVE t2.age >= p[i].age
    <3>1. Waits(t) /\ Taken(t) /\ t2.age = t.age
      BY <1>1, <2>2 DEF Waits, Taken
    <3>2. PICK j \in 1..Len(q) : p[i] = q[j]
      BY DEF Removal
    <3> QED
      BY <3>1, <3>2 DEF Sound, Aged
  <2> QED
    BY <2>1, <2>2 DEF Aged
<1>6. \A x : x # a.key => (Counted(t2, p, x) <=> Counted(t, q, x))
  BY DEF Removal, Counted
<1>7. \A x : Waits(t2) /\ t2.key = x => Waits(t) /\ t.key = x
  BY <1>1 DEF Waits, Taken
<1> QED
  BY <1>2, <1>3, <1>4, <1>5, <1>6, <1>7 DEF Sound

\* An event is acted on, and no tap key is down and in question behind it.
LEMMA SoundFree ==
  ASSUME NEW q, NEW p, NEW a, NEW D, NEW t, NEW t2, Sound(t, q, D), Removal(q, p, a, D),
         ~Taken(t2)
  PROVE  Sound(t2, p, D)
<1>1. ~Waits(t2)
  BY DEF Waits, Taken
<1> QED
  BY <1>1 DEF Sound, Removal, Marked, Aged

\* A press is acted on and is the tapping key behind it.
LEMMA SoundStarts ==
  ASSUME NEW q, NEW p, NEW a, NEW D, NEW t, NEW t2, Sound(t, q, D), Removal(q, p, a, D),
         a.pressed, t2.key = a.key, t2.age = a.age, t2.count # 1,
         t2.count = 0 => \A i \in 1..Len(p) : a.age >= p[i].age
  PROVE  Sound(t2, p, D)
<1>1. Alternates(p, D) /\ Engaged(p, D, t2.key)
  BY DEF Removal
<1>2. Marked(t2, p)
  BY DEF Removal, Sound, Marked, Taken
<1>3. Aged(t2, p)
  BY DEF Removal, Sound, Aged, Waits
<1> QED
  BY <1>1, <1>2, <1>3 DEF Sound

\* Another tapping key, or none, with the same events.
LEMMA SoundSame ==
  ASSUME NEW q, NEW D, NEW t, NEW t2, Sound(t, q, D),
         \/ ~Taken(t2)
         \/ Taken(t) /\ t2.key = t.key /\ t2.count = t.count /\ t2.age = t.age
  PROVE  Sound(t2, q, D)
<1>1. CASE ~Taken(t2)
  <2>1. ~Waits(t2)
    BY <1>1 DEF Waits, Taken
  <2> QED
    BY <1>1, <2>1 DEF Sound, Marked, Aged
<1>2. CASE Taken(t) /\ t2.key = t.key /\ t2.count = t.count /\ t2.age = t.age
  <2>1. Waits(t2) => Waits(t)
    BY <1>2 DEF Waits, Taken
  <2> QED
    BY <1>2, <2>1 DEF Sound, Marked, Aged
<1> QED
  BY <1>1, <1>2

\* Nothing changes for a key that owns something.
LEMMA OwnSame ==
  ASSUME NEW t, NEW q, NEW D, NEW c, NEW O, Owned(t, q, D, c, O),
         NEW t2, NEW p, NEW D2, NEW c2, NEW O2, O2 \subseteq O,
         \A x \in Keys : Engaged(q, D, x) =>
            /\ Engaged(p, D2, x)
            /\ Counted(t2, p, x) <=> Counted(t, q, x)
            /\ c2[x] = c[x]
            /\ Waits(t2) /\ t2.key = x => Waits(t) /\ t.key = x
  PROVE  Owned(t2, p, D2, c2, O2)
<1> SUFFICES ASSUME NEW y \in O2
             PROVE  \E x \in Keys : Engaged(p, D2, x) /\ ~(Waits(t2) /\ t2.key = x)
                                    /\ y = Own(t2, p, c2, x)
  BY DEF Owned
<1>1. PICK x \in Keys : Engaged(q, D, x) /\ ~(Waits(t) /\ t.key = x) /\ y = Own(t, q, c, x)
  BY DEF Owned
<1>2. Own(t2, p, c2, x) = Own(t, q, c, x)
  BY <1>1 DEF Own
<1> QED
  BY <1>1, <1>2

-----------------------------------------------------------------------------
(* The event e of a branch.                                                 *)

\* What waits when the event is acted on.
Left == IF phase = "process" THEN waiting_buffer ELSE Tail(waiting_buffer)

\* The event of a branch is the record of the call or the head of the buffer.
LEMMA EventTypes ==
  ASSUME Types, Active
  PROVE  /\ e \in Record /\ e.key \in Keys \cup {None} /\ (e.pressed => e.key \in Keys)
         /\ \/ phase = "process" /\ e = record /\ Left = waiting_buffer
            \/ /\ phase = "drain" /\ e = Head(waiting_buffer) /\ Left = Tail(waiting_buffer)
               /\ waiting_buffer # <<>> /\ e = waiting_buffer[1] /\ e.key \in Keys
         /\ None \notin Keys
<1>1. CASE phase = "process"
  <2>1. e = record /\ Left = waiting_buffer
    BY <1>1 DEF e, Left
  <2>2. /\ record \in Record /\ record.key \in Keys \cup {None}
        /\ record.pressed => record.key \in Keys
    BY RecordTypes DEF Types
  <2> QED
    BY <1>1, <2>1, <2>2, TappingAssumption
<1>2. CASE phase # "process"
  <2>1. phase = "drain" /\ waiting_buffer # <<>>
    BY <1>2 DEF Active
  <2>2. e = Head(waiting_buffer) /\ Left = Tail(waiting_buffer)
    BY <1>2 DEF e, Left
  <2>3. /\ waiting_buffer \in Seq(Record)
        /\ \A i \in 1..Len(waiting_buffer) : waiting_buffer[i].key \in Keys
    BY DEF Types
  <2>4. 1 \in 1..Len(waiting_buffer) /\ Head(waiting_buffer) = waiting_buffer[1]
    BY <2>1, <2>3
  <2>5. waiting_buffer[1] \in Record
    BY <2>3, <2>4
  <2> QED
    BY <2>1, <2>2, <2>3, <2>4, <2>5, TappingAssumption
<1> QED
  BY <1>1, <1>2

\* What is left has waited.
LEMMA LeftTypes ==
  ASSUME Types, Active
  PROVE  /\ Left \in Seq(Record) /\ Len(Left) < BufferSize
         /\ \A i \in 1..Len(Left) : \E j \in 1..Len(waiting_buffer) : Left[i] = waiting_buffer[j]
         /\ \A i \in 1..Len(Left) : Left[i].key \in Keys
<1>1. /\ waiting_buffer \in Seq(Record) /\ Len(waiting_buffer) < BufferSize
      /\ \A i \in 1..Len(waiting_buffer) : waiting_buffer[i].key \in Keys
  BY DEF Types
<1>2. CASE Left = waiting_buffer
  BY <1>1, <1>2
<1>3. CASE Left = Tail(waiting_buffer) /\ waiting_buffer # <<>>
  <2>1. /\ Tail(waiting_buffer) \in Seq(Record)
        /\ Len(Tail(waiting_buffer)) = Len(waiting_buffer) - 1
        /\ \A i \in 1..Len(Tail(waiting_buffer)) :
              i + 1 \in 1..Len(waiting_buffer) /\ Tail(waiting_buffer)[i] = waiting_buffer[i + 1]
    BY <1>1, <1>3
  <2>2. Len(waiting_buffer) \in Nat /\ BufferSize \in Nat
    BY <1>1, RecordTypes
  <2> QED
    BY <1>1, <1>3, <2>1, <2>2
<1> QED
  BY <1>2, <1>3, EventTypes

\* The event leaves the events, and a key that is tapped or undecided is not pressed by it.
LEMMA Consumed ==
  ASSUME Types, Orderly, Active, e.key \in Keys,
         phase = "process" => ~Pending(waiting_buffer, e.key)
  PROVE  /\ Removal(Events, Left, e, down)
         /\ Taken(tapping_key) /\ tapping_key.key = e.key => ~e.pressed
<1>1. Alternates(Events, down)
  BY DEF Orderly, Sound
<1>2. e \in Record /\ waiting_buffer \in Seq(Record) /\ None \notin Keys
  BY EventTypes DEF Types
<1>3. Removal(Events, Left, e, down)
  <2>1. CASE phase = "process"
    <3>1. e = record /\ Left = waiting_buffer
      BY <2>1 DEF e, Left
    <3>2. Events = Append(waiting_buffer, e)
      BY <1>2, <2>1, <3>1 DEF Events
    <3> QED
      BY <1>1, <1>2, <2>1, <3>1, <3>2, LastRemoval
  <2>2. CASE phase # "process"
    <3>1. e = Head(waiting_buffer) /\ Left = Tail(waiting_buffer) /\ waiting_buffer # <<>>
      BY <2>2, EventTypes
    <3>2. Events = waiting_buffer
      BY <2>2 DEF Events
    <3> QED
      BY <1>1, <1>2, <3>1, <3>2, TailRemoval
  <2> QED
    BY <2>1, <2>2
<1>4. Taken(tapping_key) /\ tapping_key.key = e.key => ~e.pressed
  BY <1>3 DEF Removal, Orderly, Sound
<1> QED
  BY <1>3, <1>4

\* Only an undecided key makes events wait.
LEMMA QueueEmpty ==
  ASSUME Types, Orderly, Active, e.key \in Keys, ~Waits(tapping_key)
  PROVE  /\ phase = "process" => waiting_buffer = <<>> /\ ~Pending(waiting_buffer, e.key)
         /\ \A i \in 1..Len(Left) : e.age >= Left[i].age
<1>1. ASSUME phase = "process" PROVE waiting_buffer = <<>> /\ ~Pending(waiting_buffer, e.key)
  <2>1. e = record /\ None \notin Keys
    BY <1>1, EventTypes
  <2>2. waiting_buffer = <<>>
    BY <1>1, <2>1 DEF Orderly, Queued
  <2> QED
    BY <2>2 DEF Pending
<1>2. ASSUME NEW i \in 1..Len(Left) PROVE e.age >= Left[i].age
  <2>1. CASE phase = "process"
    BY <1>1, <2>1 DEF Left
  <2>2. CASE phase # "process"
    <3>1. Left = Tail(waiting_buffer) /\ waiting_buffer # <<>> /\ e = waiting_buffer[1]
      BY <2>2, EventTypes
    <3>2. waiting_buffer \in Seq(Record)
      BY DEF Types
    <3>3. i + 1 \in 1..Len(waiting_buffer) /\ Left[i] = waiting_buffer[i + 1] /\ 1 < i + 1
          /\ 1 \in 1..Len(waiting_buffer)
      BY <3>1, <3>2
    <3>4. Sorted(waiting_buffer)
      BY <2>2 DEF Orderly, Sound, Aged, Events
    <3> QED
      BY <3>1, <3>3, <3>4 DEF Sorted
  <2> QED
    BY <2>1, <2>2
<1> QED
  BY <1>1, <1>2

\* What a branch that is done with the event leaves, apart from what it decides.
LEMMA ConsumeTypes ==
  ASSUME Types, Active, NEW buf \in Seq(Record), Len(buf) = Len(waiting_buffer),
         \A i \in 1..Len(buf) : buf[i].key \in Keys,
         Consume(buf), UNCHANGED down,
         tapping_key' # None => tapping_key' \in Record /\ tapping_key'.key \in Keys,
         Good(source_layers_cache'), on' \subseteq Outputs,
         hazards' \subseteq {"recached", "overflow", "overtaking", "wrapped", "unscanned"}
  PROVE  Types'
<1>1. Len(waiting_buffer) \in Nat /\ BufferSize \in Nat /\ Len(waiting_buffer) < BufferSize
  BY RecordTypes DEF Types
<1>2. /\ waiting_buffer' \in Seq(Record) /\ Len(waiting_buffer') < BufferSize
      /\ \A i \in 1..Len(waiting_buffer') : waiting_buffer'[i].key \in Keys
  <2>1. CASE phase = "process"
    BY <1>1, <2>1 DEF Consume
  <2>2. CASE phase # "process"
    <3>1. waiting_buffer' = Tail(buf) /\ waiting_buffer # <<>>
      BY <2>2 DEF Consume, Active
    <3>2. buf # <<>>
      BY <1>1, <3>1 DEF Types
    <3>3. /\ Tail(buf) \in Seq(Record) /\ Len(Tail(buf)) = Len(buf) - 1
          /\ \A i \in 1..Len(Tail(buf)) : i + 1 \in 1..Len(buf) /\ Tail(buf)[i] = buf[i + 1]
      BY <3>2
    <3> QED
      BY <1>1, <3>1, <3>3
  <2> QED
    BY <2>1, <2>2
<1>3. record' \in Record /\ ~record'.pressed
  BY TickIsRecord DEF Consume
<1>4. phase' \in {"idle", "process", "drain"} /\ down' \subseteq Keys
  BY DEF Consume, Types
<1> QED
  BY <1>2, <1>3, <1>4 DEF Types

\* What a branch that refuses the event leaves.
LEMMA RefuseTypes ==
  ASSUME Types, Active, NEW r \in Record, r.key = e.key, r.pressed <=> e.pressed,
         NEW p \in Record, p.pressed => p.key \in Keys,
         NEW t, t # None => t \in Record /\ t.key \in Keys,
         Refuse(r, p, t), UNCHANGED down
  PROVE  Types'
<1>0. /\ Len(waiting_buffer) \in Nat /\ BufferSize \in Nat /\ Len(waiting_buffer) < BufferSize
      /\ waiting_buffer \in Seq(Record) /\ BufferSize > 0
      /\ \A i \in 1..Len(waiting_buffer) : waiting_buffer[i].key \in Keys
  BY RecordTypes DEF Types
<1>1. /\ waiting_buffer' \in Seq(Record) /\ Len(waiting_buffer') < BufferSize
      /\ \A i \in 1..Len(waiting_buffer') : waiting_buffer'[i].key \in Keys
  <2>1. CASE phase = "process" /\ r.key # None /\ ~Overflow(r)
    <3>1. waiting_buffer' = Append(waiting_buffer, r)
      BY <2>1 DEF Refuse
    <3>2. r.key \in Keys /\ Len(waiting_buffer) # BufferSize - 1
      BY <2>1, EventTypes DEF Overflow
    <3> QED
      BY <1>0, <3>1, <3>2
  <2>2. CASE phase = "process" /\ r.key # None /\ Overflow(r)
    <3>1. waiting_buffer' = <<>>
      BY <2>2 DEF Refuse
    <3> QED
      BY <1>0, <3>1
  <2>3. CASE phase = "process" /\ r.key = None
    <3>1. waiting_buffer' = waiting_buffer
      BY <2>3 DEF Refuse, Overflow
    <3> QED
      BY <1>0, <3>1
  <2>4. CASE phase # "process"
    <3>1. phase = "drain" /\ waiting_buffer # <<>> /\ r.key \in Keys
      BY <2>4, EventTypes
    <3>2. waiting_buffer' = [waiting_buffer EXCEPT ![1] = r]
      BY <3>1 DEF Refuse, Overflow
    <3>3. 1 \in 1..Len(waiting_buffer)
      BY <1>0, <3>1
    <3> QED
      BY <1>0, <3>1, <3>2, <3>3
  <2> QED
    BY <2>1, <2>2, <2>3, <2>4
<1>2. Good(source_layers_cache') /\ on' \subseteq Outputs
  <2>1. Good(source_layers_cache) /\ on \subseteq Outputs
    BY DEF Types
  <2>2. Good(CacheAfter(p)) /\ OnAfter(p) \subseteq Outputs
    BY <2>1, RecordEffect
  <2>3. source_layers_cache' = CacheAfter(p) /\ on' \subseteq OnAfter(p)
    BY DEF Refuse
  <2> QED
    BY <2>2, <2>3
<1>3. record' \in Record /\ ~record'.pressed
  BY TickIsRecord DEF Refuse
<1>4. tapping_key' # None => tapping_key' \in Record /\ tapping_key'.key \in Keys
  BY DEF Refuse
<1>5. /\ phase' \in {"idle", "process", "drain"} /\ down' \subseteq Keys
      /\ hazards' \subseteq {"recached", "overflow", "overtaking", "wrapped", "unscanned"}
  BY DEF Refuse, Types
<1> QED
  BY <1>1, <1>2, <1>3, <1>4, <1>5 DEF Types

\* A branch that refuses the event while the buffer has room.
LEMMA RefuseKeeps ==
  ASSUME Types, Active, NEW r \in Record, r.key = e.key, NEW p, NEW t,
         Refuse(r, p, t), "overflow" \notin hazards'
  PROVE  /\ source_layers_cache' = CacheAfter(p) /\ on' = OnAfter(p) /\ tapping_key' = t
         /\ hazards' = hazards /\ phase' \in {"drain", "idle"}
         /\ phase' = "idle" => phase = "drain"
         /\ phase = "process" /\ r.key # None =>
               waiting_buffer' = Append(waiting_buffer, r)
               /\ Len(waiting_buffer') = Len(waiting_buffer) + 1
         /\ r = e => waiting_buffer' = Events
<1>1. ~Overflow(r)
  BY DEF Refuse
<1>2. hazards' = hazards
  BY <1>1 DEF Refuse
<1>3. source_layers_cache' = CacheAfter(p) /\ on' = OnAfter(p) /\ tapping_key' = t
  BY <1>1 DEF Refuse
<1>4. phase' \in {"drain", "idle"} /\ (phase' = "idle" => phase = "drain")
  BY EventTypes DEF Refuse
<1>5. phase = "process" /\ r.key # None => waiting_buffer' = Append(waiting_buffer, r)
  BY <1>1 DEF Refuse
<1>6. ASSUME r = e PROVE waiting_buffer' = Events
  <2>1. CASE phase = "process" /\ r.key # None
    BY <1>5, <1>6, <2>1, EventTypes DEF Events
  <2>2. CASE phase = "process" /\ r.key = None
    BY <1>1, <1>6, <2>2, EventTypes DEF Events, Refuse
  <2>3. CASE phase # "process"
    <3>1. phase = "drain" /\ e = waiting_buffer[1] /\ waiting_buffer # <<>>
      BY <2>3, EventTypes
    <3>2. waiting_buffer' = [waiting_buffer EXCEPT ![1] = waiting_buffer[1]]
      BY <1>6, <3>1 DEF Refuse
    <3>3. waiting_buffer \in Seq(Record)
      BY DEF Types
    <3>4. waiting_buffer' = waiting_buffer
      BY <3>2, <3>3
    <3> QED
      BY <2>3, <3>4 DEF Events
  <2> QED
    BY <2>1, <2>2, <2>3
<1>7. waiting_buffer \in Seq(Record)
  BY DEF Types
<1> QED
  BY <1>2, <1>3, <1>4, <1>5, <1>6, <1>7

\* process_record of the event a, and what is on before and behind it.
LEMMA ProcessOwned ==
  ASSUME Good(source_layers_cache), NEW a \in Record, a.key \in Keys,
         NEW q, NEW p, NEW D, NEW t, NEW t2, NEW O, NEW O2,
         Owned(t, q, D, source_layers_cache, O),
         \A x \in Keys : x # a.key =>
            /\ Engaged(p, D, x) <=> Engaged(q, D, x)
            /\ Counted(t2, p, x) <=> Counted(t, q, x)
            /\ Waits(t2) /\ t2.key = x => Waits(t) /\ t.key = x,
         a.pressed => /\ ~Engaged(q, D, a.key) \/ (Waits(t) /\ t.key = a.key)
                      /\ Engaged(p, D, a.key) /\ ~(Waits(t2) /\ t2.key = a.key)
                      /\ Counted(t2, p, a.key) <=> a.count > 0
                      /\ O2 = O \cup {Output(a)},
         ~a.pressed => /\ Counted(t, q, a.key) <=> a.count > 0
                       /\ O2 = O \ {Output(a)}
  PROVE  Owned(t2, p, D, CacheAfter(a), O2)
<1> DEFINE c == source_layers_cache
<1> DEFINE c2 == CacheAfter(a)
<1>1. \A x \in Keys : x # a.key => c2[x] = c[x]
  BY DEF CacheAfter, Good
<1>2. a.pressed => c2[a.key] = Source(a)
  BY DEF CacheAfter, Good
<1>3. ~a.pressed => Source(a) = c[a.key]
  BY DEF Source
<1>4. a.pressed => Output(a) = Own(t2, p, c2, a.key)
  <2> HIDE DEF c2
  <2> QED
    BY <1>2 DEF Own, Output
<1>5. ~a.pressed => Output(a) = Own(t, q, c, a.key)
  <2> HIDE DEF c
  <2> QED
    BY <1>3 DEF Own, Output
<1> HIDE DEF c2
<1>6. \A x \in Keys : x # a.key =>
            /\ Engaged(p, D, x) <=> Engaged(q, D, x)
            /\ Counted(t2, p, x) <=> Counted(t, q, x)
            /\ c2[x] = c[x]
            /\ Waits(t2) /\ t2.key = x => Waits(t) /\ t.key = x
  BY <1>1
<1> HIDE DEF c
<1>7. ASSUME NEW y \in O2
      PROVE  \E x \in Keys : Engaged(p, D, x) /\ ~(Waits(t2) /\ t2.key = x)
                             /\ y = Own(t2, p, c2, x)
  <2>1. CASE y \in O
    <3>1. PICK x \in Keys : Engaged(q, D, x) /\ ~(Waits(t) /\ t.key = x) /\ y = Own(t, q, c, x)
      BY <2>1 DEF Owned, c
    <3>2. CASE x = a.key
      <4>1. a.pressed
        <5> SUFFICES ASSUME ~a.pressed PROVE FALSE
          OBVIOUS
        <5>1. y = Output(a) /\ y \notin O2
          BY <1>5, <3>1, <3>2
        <5> QED
          BY <5>1
      <4> QED
        BY <3>1, <3>2, <4>1
    <3>3. CASE x # a.key
      <4>1. Own(t2, p, c2, x) = Own(t, q, c, x)
        BY <1>6, <3>3 DEF Own
      <4> QED
        BY <1>6, <3>1, <3>3, <4>1
    <3> QED
      BY <3>2, <3>3
  <2>2. CASE y \notin O
    <3>1. a.pressed /\ y = Output(a)
      BY <2>2
    <3> QED
      BY <1>4, <3>1
  <2> QED
    BY <2>1, <2>2
<1>8. Owned(t2, p, D, c2, O2)
  BY <1>7 DEF Owned
<1> QED
  BY <1>8 DEF c2

\* A press that is not acted on ends no tap.
LEMMA EventFresh ==
  ASSUME Types, Orderly, Active, e.pressed
  PROVE  e.count = 0
<1>1. PICK i \in 1..Len(Events) : Events[i] = e
  <2>0. waiting_buffer \in Seq(Record)
    BY DEF Types
  <2>1. CASE phase = "process"
    <3>1. e = record /\ e.key \in Keys /\ e.key # None
      BY <2>1, EventTypes
    <3>2. Events = Append(waiting_buffer, e)
      BY <2>1, <3>1 DEF Events
    <3>3. Len(Events) \in 1..Len(Events) /\ Events[Len(Events)] = e
      BY <2>0, <3>2
    <3> QED
      BY <3>3
  <2>2. CASE phase # "process"
    <3>1. Events = waiting_buffer /\ waiting_buffer # <<>> /\ e = waiting_buffer[1]
      BY <2>2, EventTypes DEF Events
    <3>2. 1 \in 1..Len(Events)
      BY <2>0, <3>1
    <3> QED
      BY <3>1, <3>2
  <2> QED
    BY <2>1, <2>2
<1>2. ~(e.count > 0)
  BY <1>1 DEF Orderly, Sound, Marked, Marks
<1>3. e.count \in Nat
  BY EventTypes, RecordTypes
<1> QED
  BY <1>2, <1>3

-----------------------------------------------------------------------------
(* The branches of process_tapping.                                         *)

\* The event is processed and changes nothing for the tapping key.
LEMMA ProcessStep ==
  ASSUME IInv, Active, process_record(e), Done(waiting_buffer), UNCHANGED down,
         \/ UNCHANGED tapping_key
         \/ /\ tapping_key # None
            /\ tapping_key' = [tapping_key EXCEPT !.interrupted = @ \/ e.pressed],
         Taken(tapping_key) => ~(e.key = tapping_key.key /\ ~e.pressed),
         Orderly /\ phase = "process" /\ e.key \in Keys => ~Pending(waiting_buffer, e.key)
  PROVE  Types' /\ Behind'
<1> DEFINE t == tapping_key
<1> DEFINE t2 == tapping_key'
<1>0. Types
  BY TypesAreTypes DEF IInv
<1>1. /\ e \in Record /\ e.key \in Keys \cup {None} /\ (e.pressed => e.key \in Keys)
      /\ None \notin Keys
  BY <1>0, EventTypes
<1>2. /\ t2 # None => t2 \in Record /\ t2.key \in Keys
      /\ (Taken(t2) <=> Taken(t)) /\ (Waits(t2) <=> Waits(t))
      /\ t2.key = t.key /\ t2.count = t.count /\ t2.age = t.age
  <2>0. t # None => t \in Record /\ t.key \in Keys
    BY <1>0 DEF Types
  <2>1. CASE UNCHANGED tapping_key
    BY <2>0, <2>1 DEF Taken, Waits
  <2>2. CASE t # None /\ t2 = [t EXCEPT !.interrupted = @ \/ e.pressed]
    <3>1. t \in Record /\ t.key \in Keys
      BY <2>0, <2>2
    <3>2. /\ t2 \in Record /\ t2.key = t.key /\ t2.count = t.count /\ t2.age = t.age
          /\ t2.pressed = t.pressed
      BY <1>1, <2>2, <3>1 DEF Record
    <3>3. t2 # None
      BY <3>2, NoneAssumption
    <3> QED
      BY <2>2, <3>1, <3>2, <3>3 DEF Taken, Waits
  <2> QED
    BY <2>1, <2>2
<1>3. /\ Good(source_layers_cache) /\ on \subseteq Outputs
      /\ waiting_buffer \in Seq(Record)
      /\ \A i \in 1..Len(waiting_buffer) : waiting_buffer[i].key \in Keys
      /\ hazards \subseteq {"recached", "overflow", "overtaking", "wrapped", "unscanned"}
  BY <1>0 DEF Types
<1>4. /\ Consume(waiting_buffer) /\ hazards' = hazards
      /\ source_layers_cache' = CacheAfter(e) /\ on' = OnAfter(e)
  BY DEF Done, process_record
<1>5. Types'
  <2>1. Good(source_layers_cache') /\ on' \subseteq Outputs
    BY <1>1, <1>3, <1>4, RecordEffect
  <2> QED
    BY <1>0, <1>2, <1>3, <1>4, <2>1, ConsumeTypes
<1>6. phase' = "drain" /\ waiting_buffer' = Left /\ down' = down
  BY <1>4 DEF Consume, Left
<1> HIDE DEF t, t2
<1>7. ASSUME hazards \subseteq {"recached"}
      PROVE  /\ Sound(t2, Left, down) /\ Scanned(t2, Left)
             /\ hazards = {} => Owned(t2, Left, down, CacheAfter(e), OnAfter(e))
  <2>1. Orderly /\ Sound(t, Events, down) /\ Scanned(t, waiting_buffer)
    BY <1>7 DEF IInv, Orderly, t
  <2>2. Scanned(t2, Left)
    <3> SUFFICES ASSUME Waits(t2), NEW i \in 1..Len(Left)
                 PROVE  ~(Left[i].key = t2.key /\ ~Left[i].pressed /\ Within(t2, Left[i]))
      BY DEF Scanned
    <3>1. PICK j \in 1..Len(waiting_buffer) : Left[i] = waiting_buffer[j]
      BY <1>0, LeftTypes
    <3> QED
      BY <1>2, <2>1, <3>1 DEF Scanned, Within
  <2>3. CASE e.key = None
    <3>1. Left = Events /\ OnAfter(e) = on /\ CacheAfter(e) = source_layers_cache
      BY <1>0, <1>1, <2>3, EventTypes DEF Left, Events, OnAfter, CacheAfter
    <3>2. Sound(t2, Events, down)
      BY <1>2, <2>1, SoundSame
    <3>3. \A x : Counted(t2, Events, x) <=> Counted(t, Events, x)
      BY <1>2 DEF Counted
    <3>4. hazards = {} => Owned(t2, Events, down, source_layers_cache, on)
      <4> SUFFICES ASSUME hazards = {} PROVE Owned(t2, Events, down, source_layers_cache, on)
        OBVIOUS
      <4>1. Owned(t, Events, down, source_layers_cache, on)
        BY DEF IInv, t
      <4> QED
        BY <1>2, <3>3, <4>1 DEF Owned, Own
    <3> QED
      BY <2>2, <3>1, <3>2, <3>4
  <2>4. CASE e.key \in Keys
    <3>1. /\ Removal(Events, Left, e, down)
          /\ Taken(t) /\ t.key = e.key => ~e.pressed
      BY <1>0, <2>1, <2>4, Consumed DEF t
    <3>2. Taken(t) => e.key # t.key
      BY <3>1 DEF t
    <3>3. /\ Sound(t2, Left, down)
          /\ \A x : x # e.key => (Counted(t2, Left, x) <=> Counted(t, Events, x))
          /\ \A x : Waits(t2) /\ t2.key = x => Waits(t) /\ t.key = x
      BY <1>2, <2>1, <3>1, <3>2, SoundKept
    <3>4. ASSUME hazards = {} PROVE Owned(t2, Left, down, CacheAfter(e), OnAfter(e))
      <4>1. Owned(t, Events, down, source_layers_cache, on)
        BY <3>4 DEF IInv, t
      <4>2. \A x \in Keys : x # e.key =>
              /\ Engaged(Left, down, x) <=> Engaged(Events, down, x)
              /\ Counted(t2, Left, x) <=> Counted(t, Events, x)
              /\ Waits(t2) /\ t2.key = x => Waits(t) /\ t.key = x
        BY <3>1, <3>3 DEF Removal
      <4>3. ASSUME e.pressed
            PROVE  /\ ~Engaged(Events, down, e.key) /\ Engaged(Left, down, e.key)
                   /\ ~(Waits(t2) /\ t2.key = e.key)
                   /\ Counted(t2, Left, e.key) <=> e.count > 0
                   /\ OnAfter(e) = on \cup {Output(e)}
        <5>1. e.count = 0
          BY <1>0, <2>1, <4>3, EventFresh
        <5>2. ~Engaged(Events, down, e.key) /\ Engaged(Left, down, e.key)
          BY <3>1, <4>3 DEF Removal
        <5>3. ~NextCounted(Left, e.key)
          BY <2>1, <3>1 DEF Removal, Sound, Marked, NextCounted, First
        <5>4. ~(Taken(t2) /\ t2.key = e.key) /\ (Waits(t2) => Taken(t2))
          BY <1>2, <3>2 DEF Waits, Taken
        <5>5. OnAfter(e) = on \cup {Output(e)}
          BY <1>1, <2>4, <4>3 DEF OnAfter
        <5>6. ~Counted(t2, Left, e.key)
          BY <5>3, <5>4 DEF Counted
        <5> QED
          BY <5>1, <5>2, <5>4, <5>5, <5>6
      <4>4. ASSUME ~e.pressed
            PROVE  (Counted(t, Events, e.key) <=> e.count > 0) /\ OnAfter(e) = on \ {Output(e)}
        <5>1. NextCounted(Events, e.key) <=> e.count > 0
          BY <3>1, <4>4 DEF Removal
        <5>2. OnAfter(e) = on \ {Output(e)}
          BY <1>1, <2>4, <4>4 DEF OnAfter
        <5> QED
          BY <3>2, <5>1, <5>2 DEF Counted
      <4> QED
        BY <1>1, <1>3, <2>4, <4>1, <4>2, <4>3, <4>4, ProcessOwned
    <3> QED
      BY <2>2, <3>3, <3>4
  <2> QED
    BY <1>1, <2>3, <2>4
<1>8. Behind'
  BY <1>4, <1>6, <1>7 DEF Behind, t2
<1> QED
  BY <1>5, <1>8

\* The press of a tap key, whose release is not waiting.
LEMMA StartUndecided ==
  ASSUME Types, Active, Orderly, ~Waits(tapping_key), e.pressed, Taps(e) = {}
  PROVE  /\ Sound(e, Left, down) /\ Scanned(e, Left)
         /\ \A c, O : Owned(None, Events, down, c, O) => Owned(e, Left, down, c, O)
<1>1. e \in Record /\ e.key \in Keys /\ None \notin Keys
  BY EventTypes
<1>2. Removal(Events, Left, e, down)
  BY <1>1, QueueEmpty, Consumed
<1>3. e.count = 0 /\ \A i \in 1..Len(Left) : e.age >= Left[i].age
  BY <1>1, EventFresh, QueueEmpty
<1>4. Sound(e, Left, down)
  BY <1>2, <1>3, SoundStarts DEF Orderly
<1>5. Scanned(e, Left)
  <2> SUFFICES ASSUME NEW i \in 1..Len(Left), Left[i].key = e.key, ~Left[i].pressed,
                      Within(e, Left[i])
               PROVE  FALSE
    BY DEF Scanned
  <2>1. PICK j \in 1..Len(waiting_buffer) : Left[i] = waiting_buffer[j]
    BY LeftTypes
  <2>2. waiting_buffer \in Seq(Record)
    BY DEF Types
  <2>3. j \in Taps(e)
    BY <2>1, <2>2 DEF Taps
  <2> QED
    BY <2>3
<1>6. ASSUME NEW c, NEW O, Owned(None, Events, down, c, O) PROVE Owned(e, Left, down, c, O)
  <2>1. ~Taken(None) /\ ~Waits(None)
    BY DEF Taken, Waits
  <2>2. ASSUME NEW x \in Keys, Engaged(Events, down, x)
        PROVE  /\ Engaged(Left, down, x)
               /\ Counted(e, Left, x) <=> Counted(None, Events, x)
               /\ ~(Waits(e) /\ e.key = x)
    <3>1. x # e.key
      BY <1>2, <2>2 DEF Removal
    <3>2. Engaged(Left, down, x) /\ (NextCounted(Left, x) <=> NextCounted(Events, x))
      BY <1>2, <2>2, <3>1 DEF Removal
    <3> QED
      BY <2>1, <3>1, <3>2 DEF Counted
  <2> QED
    BY <1>6, <2>2, OwnSame
<1> QED
  BY <1>4, <1>5, <1>6

\* What the press of a tap key leaves.
LEMMA StartTypes ==
  ASSUME Types, Active, StartsTap, NEW o, o \subseteq Outputs, StartTap(e, o), UNCHANGED down
  PROVE  Types' /\ phase' = "drain" /\ hazards' = hazards
<1>1. e \in Record /\ e.key \in Keys /\ e.pressed /\ e # None
  BY EventTypes, NoneAssumption DEF StartsTap
<1>2. /\ Good(source_layers_cache) /\ waiting_buffer \in Seq(Record)
      /\ \A i \in 1..Len(waiting_buffer) : waiting_buffer[i].key \in Keys
      /\ hazards \subseteq {"recached", "overflow", "overtaking", "wrapped", "unscanned"}
  BY DEF Types
<1>3. CASE Taps(e) = {}
  <2>1. /\ tapping_key' = e /\ on' = o /\ source_layers_cache' = source_layers_cache
        /\ Consume(waiting_buffer) /\ hazards' = hazards
    BY <1>3 DEF StartTap, Done
  <2>2. Types'
    BY <1>1, <1>2, <2>1, ConsumeTypes
  <2> QED
    BY <2>1, <2>2 DEF Consume
<1>4. CASE Taps(e) # {}
  <2> DEFINE tap == [e EXCEPT !.count = 1]
  <2> DEFINE m == Min(Taps(e))
  <2> DEFINE buf == [waiting_buffer EXCEPT ![m].count = 1]
  <2>1. /\ tapping_key' = tap /\ on' = o \cup {Output(tap)}
        /\ source_layers_cache' = CacheAfter(tap)
        /\ Consume(buf) /\ hazards' = hazards
    BY <1>4 DEF StartTap, Done
  <2>2. tap \in Record /\ tap.key = e.key /\ tap.pressed /\ 1 \in 0..MaxTaps
    BY <1>1, RecordTypes DEF Record
  <2>3. /\ Len(buf) = Len(waiting_buffer) /\ buf \in Seq(Record)
        /\ \A i \in 1..Len(buf) : buf[i].key \in Keys
    <3> HIDE DEF m
    <3>1. \A r \in Record : [r EXCEPT !.count = 1] \in Record /\ [r EXCEPT !.count = 1].key = r.key
      BY <2>2 DEF Record
    <3>2. \A i \in 1..Len(waiting_buffer) : waiting_buffer[i] \in Record
      BY <1>2
    <3>3. /\ DOMAIN buf = 1..Len(waiting_buffer)
          /\ \A i \in 1..Len(waiting_buffer) :
                buf[i] = IF i = m THEN [waiting_buffer[i] EXCEPT !.count = 1] ELSE waiting_buffer[i]
      BY <1>2
    <3> HIDE DEF buf
    <3>4. \A i \in 1..Len(waiting_buffer) : buf[i] \in Record /\ buf[i].key \in Keys
      BY <1>2, <3>1, <3>2, <3>3
    <3>5. Len(waiting_buffer) \in Nat
      BY <1>2
    <3>6. buf = [i \in 1..Len(waiting_buffer) |-> buf[i]]
      <4>1. waiting_buffer = [i \in 1..Len(waiting_buffer) |-> waiting_buffer[i]]
        BY <1>2
      <4> QED
        BY <4>1 DEF buf
    <3>7. buf \in Seq(Record) /\ Len(buf) = Len(waiting_buffer)
      BY <3>4, <3>5, <3>6
    <3> QED
      BY <3>4, <3>7
  <2> HIDE DEF buf, tap
  <2>4. Good(CacheAfter(tap)) /\ Output(tap) \in Outputs
    <3>1. Output(tap) \in Outputs
      BY <1>1, <1>2, <2>2, OutputFound
    <3>2. Source(tap) \in Layers /\ Keymap[Source(tap)][tap.key] # None
      BY <1>1, <1>2, <2>2, OutputFound
    <3> QED
      BY <1>1, <1>2, <2>2, <3>1, <3>2 DEF CacheAfter, Good
  <2>5. Types'
    BY <1>1, <1>2, <2>1, <2>2, <2>3, <2>4, ConsumeTypes
  <2> QED
    BY <2>1, <2>5 DEF Consume
<1> QED
  BY <1>3, <1>4

\* What is younger than one event within the term is within the term.
LEMMA WithinYounger ==
  ASSUME NEW t \in Record, NEW r \in Record, NEW s \in Record,
         t.age >= r.age, r.age >= s.age, Within(t, s)
  PROVE  Within(t, r)
<1>1. /\ t.age \in 0..(TimerMod - 1) /\ r.age \in 0..(TimerMod - 1) /\ s.age \in 0..(TimerMod - 1)
      /\ TimerMod \in Nat \ {0} /\ Term \in Nat
  BY RecordTypes
<1>2. (t.age - s.age) % TimerMod = t.age - s.age /\ (t.age - r.age) % TimerMod = t.age - r.age
  BY <1>1
<1> QED
  BY <1>1, <1>2 DEF Within

\* The press of a tap key, whose release is waiting: a tap.
LEMMA StartDecided ==
  ASSUME Types, Active, Orderly, ~Waits(tapping_key), StartsTap, NEW o, StartTap(e, o),
         Taps(e) # {}
  PROVE  /\ Sound(tapping_key', waiting_buffer', down) /\ Scanned(tapping_key', waiting_buffer')
         /\ Owned(None, Events, down, source_layers_cache, o)
              => Owned(tapping_key', waiting_buffer', down, source_layers_cache', on')
<1> DEFINE tap == [e EXCEPT !.count = 1]
<1> DEFINE m == Min(Taps(e))
<1> DEFINE L == Left
<1> DEFINE p == waiting_buffer'
<1>1. e \in Record /\ e.key \in Keys /\ e.pressed /\ None \notin Keys
  BY EventTypes DEF StartsTap
<1>2. /\ Removal(Events, L, e, down)
      /\ \A i \in 1..Len(L) : e.age >= L[i].age
  BY <1>1, QueueEmpty, Consumed
<1>3. /\ waiting_buffer \in Seq(Record) /\ Good(source_layers_cache)
      /\ L \in Seq(Record)
  BY LeftTypes DEF Types
<1>4. m \in Taps(e) /\ \A j \in Taps(e) : m <= j
  <2>1. Taps(e) \subseteq Nat
    BY <1>3 DEF Taps
  <2>2. \E i \in Taps(e) : \A j \in Taps(e) : i <= j
    BY <2>1, LeastOf
  <2> QED
    BY <2>2 DEF Min
<1> HIDE DEF m
<1>5. phase = "drain" /\ e = waiting_buffer[1] /\ L = Tail(waiting_buffer) /\ waiting_buffer # <<>>
  <2>1. phase # "process"
    <3> SUFFICES ASSUME phase = "process" PROVE FALSE
      OBVIOUS
    <3>1. waiting_buffer = <<>>
      BY <1>1, QueueEmpty
    <3> QED
      BY <1>4, <3>1 DEF Taps
  <2> QED
    BY <2>1, EventTypes
<1>6. /\ tapping_key' = tap /\ on' = o \cup {Output(tap)} /\ source_layers_cache' = CacheAfter(tap)
      /\ waiting_buffer' = Tail([waiting_buffer EXCEPT ![m].count = 1])
  BY <1>5 DEF StartTap, Done, Consume, m
<1>7. tap \in Record /\ tap.key = e.key /\ tap.pressed /\ tap.count = 1 /\ tap # None
  BY <1>1, RecordTypes, NoneAssumption DEF Record
<1>8. /\ m \in 1..Len(waiting_buffer) /\ waiting_buffer[m].key = e.key
      /\ ~waiting_buffer[m].pressed /\ Within(e, waiting_buffer[m])
  BY <1>3, <1>4 DEF Taps
<1>9. m # 1
  BY <1>1, <1>5, <1>8
<1>10. /\ Len(L) = Len(waiting_buffer) - 1
       /\ \A i \in 1..Len(L) : L[i] = waiting_buffer[i + 1] /\ i + 1 \in 1..Len(waiting_buffer)
       /\ Len(L) \in Nat
  BY <1>3, <1>5
<1>11. m - 1 \in 1..Len(L) /\ L[m - 1] = waiting_buffer[m]
  BY <1>3, <1>8, <1>9, <1>10
<1>12. /\ p \in Seq(Record) /\ Same(p, L)
       /\ p[m - 1].count = 1
       /\ \A i \in 1..Len(L) : p[i].age = L[i].age /\ (i # m - 1 => p[i].count = L[i].count)
  <2> DEFINE buf == [waiting_buffer EXCEPT ![m].count = 1]
  <2>0. 1 \in 0..MaxTaps
    BY RecordTypes
  <2>1. \A r \in Record : /\ [r EXCEPT !.count = 1] \in Record /\ [r EXCEPT !.count = 1].key = r.key
                          /\ [r EXCEPT !.count = 1].pressed = r.pressed
                          /\ [r EXCEPT !.count = 1].age = r.age
                          /\ [r EXCEPT !.count = 1].count = 1
    BY <2>0 DEF Record
  <2>2. /\ buf \in Seq(Record) /\ Len(buf) = Len(waiting_buffer)
        /\ \A i \in 1..Len(waiting_buffer) :
              buf[i] = IF i = m THEN [waiting_buffer[i] EXCEPT !.count = 1] ELSE waiting_buffer[i]
    BY <1>3, <1>8, <2>1
  <2> HIDE DEF buf
  <2>3. buf # <<>>
    BY <1>3, <1>5, <2>2
  <2>4. p = Tail(buf)
    BY <1>6 DEF buf
  <2>5. p \in Seq(Record) /\ Len(p) = Len(L) /\ \A i \in 1..Len(L) : p[i] = buf[i + 1]
    BY <1>10, <2>2, <2>3, <2>4
  <2>6. \A i \in 1..Len(L) : L[i] \in Record
    BY <1>3
  <2>7. ASSUME NEW i \in 1..Len(L)
        PROVE  p[i] = IF i = m - 1 THEN [L[i] EXCEPT !.count = 1] ELSE L[i]
    <3>1. i + 1 = m <=> i = m - 1
      BY <1>8
    <3> QED
      BY <1>10, <2>2, <2>5, <3>1
  <2> HIDE DEF p, L
  <2>8. \A i \in 1..Len(L) : /\ p[i].key = L[i].key /\ p[i].pressed = L[i].pressed
                            /\ p[i].age = L[i].age /\ (i # m - 1 => p[i].count = L[i].count)
    BY <2>1, <2>6, <2>7
  <2>9. p[m - 1].count = 1
    <3>1. L[m - 1] \in Record /\ p[m - 1] = [L[m - 1] EXCEPT !.count = 1]
      BY <1>11, <2>6, <2>7
    <3> QED
      BY <2>1, <3>1
  <2>10. Same(p, L)
    BY <2>5, <2>8 DEF Same
  <2> QED
    BY <2>5, <2>8, <2>9, <2>10
<1> HIDE DEF p, L, tap
<1>13. First(L, m - 1, e.key) /\ ~L[m - 1].pressed
  <2>1. Pending(L, e.key)
    BY <1>8, <1>11 DEF Pending
  <2>2. PICK i \in 1..Len(L) : First(L, i, e.key)
    BY <1>10, <2>1, FirstExists
  <2>3. ~L[i].pressed /\ L[i].key = e.key
    <3>1. Engaged(L, down, e.key)
      BY <1>1, <1>2 DEF Removal
    <3> QED
      BY <1>10, <2>2, <3>1, FirstDecides DEF First
  <2>4. i <= m - 1
    BY <1>8, <1>11, <2>2 DEF First
  <2>5. Sorted(L)
    BY <1>2 DEF Removal, Orderly, Sound, Aged
  <2>6. L[i].age >= L[m - 1].age
    <3>1. CASE i = m - 1
      <4>1. L[i].age \in Nat
        BY <1>3, RecordTypes
      <4> QED
        BY <3>1, <4>1
    <3>2. CASE i # m - 1
      <4>1. i < m - 1
        BY <1>8, <2>4, <3>2
      <4> QED
        BY <1>11, <2>5, <4>1 DEF Sorted
    <3> QED
      BY <3>1, <3>2
  <2>7. Within(e, L[i])
    <3>1. L[i] \in Record /\ L[m - 1] \in Record /\ e.age >= L[i].age
      BY <1>2, <1>3, <1>11
    <3> QED
      BY <1>1, <1>8, <1>11, <2>6, <3>1, WithinYounger
  <2>8. i + 1 \in Taps(e)
    BY <1>3, <1>10, <2>3, <2>7 DEF Taps
  <2>9. i = m - 1
    <3>1. m <= i + 1 /\ m \in Nat
      BY <1>4, <1>8, <2>8
    <3> QED
      BY <2>4, <3>1
  <2> QED
    BY <2>2, <2>3, <2>9
<1>14. /\ Alternates(L, down) => Alternates(p, down)
       /\ \A x : Engaged(p, down, x) <=> Engaged(L, down, x)
       /\ NextCounted(p, e.key)
       /\ \A x : x # e.key => (NextCounted(p, x) <=> NextCounted(L, x))
       /\ Marks(L) => Marks(p)
       /\ Sorted(L) => Sorted(p)
  <2>1. p[m - 1].count > 0
    BY <1>12
  <2>2. CountsNext(L, p, m - 1, e.key)
    BY <1>12, <1>13, <2>1 DEF CountsNext
  <2>3. L \in Seq(Record) /\ p \in Seq(Record)
    BY <1>3, <1>12
  <2> QED
    BY <2>2, <2>3, CountMark
<1>15. ~Waits(tap) /\ Taken(tap) /\ ~Taken(None)
  BY <1>7 DEF Waits, Taken
<1>16. Sound(tap, p, down)
  BY <1>1, <1>2, <1>7, <1>14, <1>15 DEF Sound, Marked, Aged, Removal, Orderly
<1>17. Scanned(tap, p)
  BY <1>15 DEF Scanned
<1>18. ASSUME Owned(None, Events, down, source_layers_cache, o)
       PROVE  Owned(tap, p, down, CacheAfter(tap), o \cup {Output(tap)})
  <2>1. ASSUME NEW x \in Keys, x # tap.key
        PROVE  /\ Engaged(p, down, x) <=> Engaged(Events, down, x)
               /\ Counted(tap, p, x) <=> Counted(None, Events, x)
               /\ Waits(tap) /\ tap.key = x => Waits(None) /\ None.key = x
    BY <1>2, <1>7, <1>14, <1>15, <2>1 DEF Removal, Counted
  <2>2. /\ ~Engaged(Events, down, tap.key) /\ Engaged(p, down, tap.key)
        /\ ~(Waits(tap) /\ tap.key = tap.key)
        /\ Counted(tap, p, tap.key) <=> tap.count > 0
    BY <1>1, <1>2, <1>7, <1>14, <1>15 DEF Removal, Counted
  <2> QED
    BY <1>1, <1>3, <1>7, <1>18, <2>1, <2>2, ProcessOwned
<1> QED
  BY <1>6, <1>16, <1>17, <1>18 DEF p

\* The press of a tap key becomes the tapping key, with o being on.
LEMMA StartStep ==
  ASSUME IInv, Active, ~Waits(tapping_key), StartsTap, NEW o, o \subseteq Outputs,
         StartTap(e, o), UNCHANGED down,
         hazards = {} => Owned(None, Events, down, source_layers_cache, o)
  PROVE  Types' /\ Behind'
<1>0. Types
  BY TypesAreTypes DEF IInv
<1>1. Types' /\ phase' = "drain" /\ hazards' = hazards /\ down' = down
  BY <1>0, StartTypes
<1>2. ASSUME hazards \subseteq {"recached"}
      PROVE  /\ Sound(tapping_key', waiting_buffer', down) /\ Scanned(tapping_key', waiting_buffer')
             /\ hazards = {} =>
                  Owned(tapping_key', waiting_buffer', down, source_layers_cache', on')
  <2>1. Orderly
    BY <1>2 DEF IInv
  <2>2. CASE Taps(e) = {}
    <3>1. /\ tapping_key' = e /\ on' = o /\ source_layers_cache' = source_layers_cache
          /\ waiting_buffer' = Left
      BY <2>2 DEF StartTap, Done, Consume, Left
    <3>2. e.pressed
      BY DEF StartsTap
    <3> QED
      BY <1>0, <2>1, <2>2, <3>1, <3>2, StartUndecided
  <2>3. CASE Taps(e) # {}
    BY <1>0, <2>1, <2>3, StartDecided
  <2> QED
    BY <2>2, <2>3
<1>3. Behind'
  BY <1>1, <1>2 DEF Behind
<1> QED
  BY <1>1, <1>3

\* A key that is not down, or not in question, is no owner of its own.
LEMMA OwnedFree ==
  ASSUME NEW t, NEW q, NEW D, NEW c, NEW O, Owned(t, q, D, c, O), ~Waits(t),
         Taken(t) => (t.count > 0 <=> NextCounted(q, t.key))
  PROVE  Owned(None, q, D, c, O)
<1>1. ~Taken(None) /\ ~Waits(None)
  BY DEF Taken, Waits
<1>2. \A x : Counted(None, q, x) <=> Counted(t, q, x)
  BY <1>1 DEF Counted
<1> QED
  BY <1>1, <1>2, OwnSame

\* No tapping key: a press of a tap key becomes it, what else comes is processed.
LEMMA NoTapStep ==
  ASSUME IInv, NoTap
  PROVE  Types' /\ Behind'
<1>0. Active /\ tapping_key = None /\ UNCHANGED down /\ ~Taken(None) /\ ~Waits(None)
  BY DEF NoTap, Taken, Waits
<1>1. CASE StartsTap /\ StartTap(e, on)
  <2>1. on \subseteq Outputs
    BY DEF IInv, TypeOK
  <2>2. hazards = {} => Owned(None, Events, down, source_layers_cache, on)
    BY <1>0 DEF IInv
  <2> QED
    BY <1>0, <1>1, <2>1, <2>2, StartStep
<1>2. CASE ~StartsTap /\ process_record(e) /\ Done(waiting_buffer) /\ UNCHANGED tapping_key
  <2>1. Types
    BY TypesAreTypes DEF IInv
  <2>2. Orderly /\ phase = "process" /\ e.key \in Keys => ~Pending(waiting_buffer, e.key)
    BY <1>0, <2>1, QueueEmpty
  <2> QED
    BY <1>0, <1>2, <2>2, ProcessStep
<1> QED
  BY <1>1, <1>2 DEF NoTap

\* Another tap key is pressed after a tap: what the last one owns is still taken off.
LEMMA NewTapStep ==
  ASSUME IInv, NewTap
  PROVE  Types' /\ Behind'
<1> DEFINE t == tapping_key
<1> DEFINE up == [t EXCEPT !.pressed = FALSE]
<1> DEFINE o == IF t.count = 1 THEN on ELSE OnAfter(up)
<1>0. Types
  BY TypesAreTypes DEF IInv
<1>1. /\ Active /\ StartsTap /\ StartTap(e, o) /\ UNCHANGED down
      /\ t # None /\ t.pressed /\ t.count > 0
  BY DEF NewTap, Tapped, Pressed
<1>2. /\ t \in Record /\ t.key \in Keys /\ Good(source_layers_cache) /\ on \subseteq Outputs
      /\ None \notin Keys
  BY <1>0, <1>1, TappingAssumption DEF Types
<1>3. ~Waits(t) /\ Taken(t) /\ ~Taken(None) /\ ~Waits(None)
  BY <1>1 DEF Waits, Taken
<1>4. up \in Record /\ up.key = t.key /\ up.count = t.count /\ ~up.pressed
  BY <1>2 DEF Record
<1>5. /\ OnAfter(up) = on \ {Output(up)} /\ CacheAfter(up) = source_layers_cache
  BY <1>2, <1>4 DEF OnAfter, CacheAfter
<1>6. o \subseteq Outputs
  BY <1>2, <1>5
<1> HIDE DEF t, up
<1>7. hazards = {} => Owned(None, Events, down, source_layers_cache, o)
  <2> SUFFICES ASSUME hazards = {} PROVE Owned(None, Events, down, source_layers_cache, o)
    OBVIOUS
  <2>1. Owned(t, Events, down, source_layers_cache, on) /\ Marked(t, Events)
    BY DEF IInv, Orderly, Sound, t
  <2>2. CASE t.count = 1
    <3>1. NextCounted(Events, t.key)
      BY <1>3, <2>1, <2>2 DEF Marked
    <3> QED
      BY <1>1, <1>3, <2>1, <2>2, <3>1, OwnedFree
  <2>3. CASE t.count # 1
    <3>1. ASSUME NEW x \in Keys, x # up.key
          PROVE  /\ Engaged(Events, down, x) <=> Engaged(Events, down, x)
                 /\ Counted(None, Events, x) <=> Counted(t, Events, x)
                 /\ Waits(None) /\ None.key = x => Waits(t) /\ t.key = x
      BY <1>3, <1>4, <3>1 DEF Counted
    <3>2. Counted(t, Events, up.key) <=> up.count > 0
      BY <1>1, <1>3, <1>4 DEF Counted
    <3>3. Owned(None, Events, down, CacheAfter(up), OnAfter(up))
      BY <1>2, <1>4, <1>5, <2>1, <3>1, <3>2, ProcessOwned
    <3> QED
      BY <1>5, <2>3, <3>3
  <2> QED
    BY <2>2, <2>3
<1> HIDE DEF o
<1> QED
  BY <1>1, <1>3, <1>6, <1>7, StartStep DEF t

\* Another tap key is pressed after a release.
LEMMA OtherTapAfterStep ==
  ASSUME IInv, OtherTapAfter
  PROVE  Types' /\ Behind'
<1>1. /\ Active /\ StartsTap /\ StartTap(e, on) /\ UNCHANGED down
      /\ ~Taken(tapping_key) /\ ~Waits(tapping_key)
  BY DEF OtherTapAfter, Released, Taken, Waits
<1>2. on \subseteq Outputs
  BY DEF IInv, TypeOK
<1>3. hazards = {} => Owned(None, Events, down, source_layers_cache, on)
  BY <1>1, OwnedFree DEF IInv
<1> QED
  BY <1>1, <1>2, <1>3, StartStep

\* An interrupted tap key is pressed again, as a new one.
LEMMA RestartTapStep ==
  ASSUME IInv, RestartTap
  PROVE  Types' /\ Behind'
<1>0. Types
  BY TypesAreTypes DEF IInv
<1>1. /\ Active /\ e.pressed /\ UNCHANGED <<down, on, source_layers_cache>>
      /\ ~Taken(tapping_key) /\ ~Waits(tapping_key)
      /\ tapping_key' = e /\ Consume(waiting_buffer)
      /\ hazards' = hazards \cup {h \in {"unscanned"} : Taps(e) # {}}
  BY DEF RestartTap, Again, Released, Nothing, Taken, Waits
<1>2. /\ e \in Record /\ e.key \in Keys
      /\ Good(source_layers_cache) /\ on \subseteq Outputs /\ waiting_buffer \in Seq(Record)
      /\ \A i \in 1..Len(waiting_buffer) : waiting_buffer[i].key \in Keys
      /\ hazards \subseteq {"recached", "overflow", "overtaking", "wrapped", "unscanned"}
  BY <1>0, <1>1, EventTypes DEF Types
<1>3. Types'
  <2>1. hazards' \subseteq {"recached", "overflow", "overtaking", "wrapped", "unscanned"}
    BY <1>1, <1>2
  <2> QED
    BY <1>0, <1>1, <1>2, <2>1, ConsumeTypes
<1>4. waiting_buffer' = Left /\ phase' = "drain"
  BY <1>1 DEF Consume, Left
<1>5. ASSUME hazards' \subseteq {"recached"}
      PROVE  /\ Sound(e, Left, down) /\ Scanned(e, Left)
             /\ hazards' = {} => Owned(e, Left, down, source_layers_cache, on)
  <2>1. Taps(e) = {} /\ hazards' = hazards
    BY <1>1, <1>5
  <2>2. Orderly
    BY <1>5, <2>1 DEF IInv
  <2>3. hazards = {} => Owned(None, Events, down, source_layers_cache, on)
    BY <1>1, OwnedFree DEF IInv
  <2> QED
    BY <1>0, <1>1, <2>1, <2>2, <2>3, StartUndecided
<1>6. Behind'
  BY <1>1, <1>4, <1>5 DEF Behind
<1> QED
  BY <1>3, <1>6

\* Another key during a tap is processed.
LEMMA OtherDuringTapStep ==
  ASSUME IInv, OtherDuringTap
  PROVE  Types' /\ Behind'
<1>0. Types
  BY TypesAreTypes DEF IInv
<1>1. /\ Active /\ process_record(e) /\ Done(waiting_buffer) /\ UNCHANGED <<down, tapping_key>>
      /\ ~(e.key = tapping_key.key /\ ~e.pressed) /\ tapping_key # None /\ tapping_key.count > 0
  BY DEF OtherDuringTap, Tapped, Pressed, ReleasesTap, IsTapping
<1>2. ~Waits(tapping_key)
  <2>1. tapping_key \in Record
    BY <1>0, <1>1 DEF Types
  <2> QED
    BY <1>1, <2>1, RecordTypes DEF Waits
<1>3. Orderly /\ phase = "process" /\ e.key \in Keys => ~Pending(waiting_buffer, e.key)
  BY <1>0, <1>1, <1>2, QueueEmpty
<1> QED
  BY <1>1, <1>3, ProcessStep

\* Another key after a tap is processed.
LEMMA OtherAfterStep ==
  ASSUME IInv, OtherAfter
  PROVE  Types' /\ Behind'
<1>0. Types
  BY TypesAreTypes DEF IInv
<1>1. /\ Active /\ process_record(e) /\ Done(waiting_buffer) /\ UNCHANGED down
      /\ tapping_key # None /\ tapping_key' = [tapping_key EXCEPT !.interrupted = @ \/ e.pressed]
      /\ ~Waits(tapping_key) /\ ~Taken(tapping_key)
  BY DEF OtherAfter, Released, Waits, Taken
<1>2. Orderly /\ phase = "process" /\ e.key \in Keys => ~Pending(waiting_buffer, e.key)
  BY <1>0, <1>1, QueueEmpty
<1> QED
  BY <1>1, <1>2, ProcessStep

\* A key with events has a last one.
LEMMA LastExists ==
  ASSUME NEW q, Len(q) \in Nat, NEW k, Pending(q, k)
  PROVE  \E i \in 1..Len(q) : Last(q, i, k)
<1> DEFINE S == {Len(q) - i : i \in {j \in 1..Len(q) : q[j].key = k}}
<1>1. PICK d \in S : \A x \in S : d <= x
  <2>1. S \subseteq Nat /\ S # {}
    BY DEF Pending
  <2> HIDE DEF S
  <2> QED
    BY <2>1, LeastOf
<1>2. PICK i \in 1..Len(q) : q[i].key = k /\ d = Len(q) - i
  BY <1>1
<1>3. ASSUME NEW j \in 1..Len(q), q[j].key = k PROVE j <= i
  <2>1. Len(q) - i <= Len(q) - j
    BY <1>1, <1>2, <1>3
  <2> QED
    BY <1>2, <2>1
<1> QED
  BY <1>2, <1>3 DEF Last

\* A release whose press is not waiting is the next event of its key.
LEMMA NotTyped ==
  ASSUME Types, Orderly, phase = "process", record.key \in Keys, ~record.pressed, ~Typed(record)
  PROVE  ~Pending(waiting_buffer, record.key)
<1> SUFFICES ASSUME Pending(waiting_buffer, record.key) PROVE FALSE
  OBVIOUS
<1> DEFINE k == record.key
<1> DEFINE n == Len(waiting_buffer)
<1>1. waiting_buffer \in Seq(Record) /\ record \in Record /\ None \notin Keys
  BY TappingAssumption DEF Types
<1>2. PICK i \in 1..n : Last(waiting_buffer, i, k)
  BY <1>1, LastExists
<1>3. Events = Append(waiting_buffer, record)
  BY <1>1 DEF Events
<1>4. /\ n \in Nat /\ Len(Events) = n + 1 /\ \A j \in 1..n : Events[j] = waiting_buffer[j]
      /\ Events[n + 1] = record
  BY <1>1, <1>3
<1>5. \A m \in 1..Len(Events) : i < m /\ m < n + 1 => Events[m].key # Events[i].key
  <2> SUFFICES ASSUME NEW m \in 1..Len(Events), i < m, m < n + 1, Events[m].key = Events[i].key
               PROVE  FALSE
    OBVIOUS
  <2>1. m \in 1..n
    BY <1>4
  <2> QED
    BY <1>2, <1>4, <2>1 DEF Last
<1>6. Events[i].pressed <=> ~record.pressed
  <2>1. i \in 1..Len(Events) /\ n + 1 \in 1..Len(Events) /\ i < n + 1
    BY <1>4
  <2>2. Events[i].key = Events[n + 1].key
    BY <1>2, <1>4 DEF Last
  <2> QED
    BY <1>4, <1>5, <2>1, <2>2 DEF Orderly, Sound, Alternates
<1>7. waiting_buffer[i].pressed # record.pressed /\ waiting_buffer[i].key = record.key
  <2>1. waiting_buffer[i] \in Record
    BY <1>1
  <2> QED
    BY <1>1, <1>2, <1>4, <1>6, <2>1, RecordTypes DEF Last
<1> QED
  BY <1>1, <1>7 DEF Typed

\* The event waits, and the tapping key with it, but for the mark of an interruption.
LEMMA WaitStep ==
  ASSUME IInv, Undecided, ~ReleasesTap, NEW t2 \in Record, Refuse(e, TICK, t2), UNCHANGED down,
         t2.key = tapping_key.key, t2.pressed = tapping_key.pressed,
         t2.count = tapping_key.count, t2.age = tapping_key.age
  PROVE  Types' /\ Behind'
<1> DEFINE t == tapping_key
<1>0. Types
  BY TypesAreTypes DEF IInv
<1>1. /\ Active /\ Waits(t) /\ Taken(t) /\ e \in Record /\ TICK \in Record /\ ~TICK.pressed
      /\ TICK.key = None /\ t2 # None
  BY <1>0, EventTypes, TickIsRecord, NoneAssumption DEF Undecided, Pressed, Waits, Taken
<1>2. t.key \in Keys
  BY <1>0, <1>1 DEF Types, Waits
<1>3. Types'
  BY <1>0, <1>1, <1>2, RefuseTypes
<1>4. ASSUME "overflow" \notin hazards'
      PROVE  /\ source_layers_cache' = source_layers_cache /\ on' = on /\ tapping_key' = t2
             /\ hazards' = hazards /\ phase' \in {"drain", "idle"} /\ waiting_buffer' = Events
  <2>1. /\ source_layers_cache' = CacheAfter(TICK) /\ on' = OnAfter(TICK) /\ tapping_key' = t2
        /\ hazards' = hazards /\ phase' \in {"drain", "idle"} /\ waiting_buffer' = Events
    BY <1>0, <1>1, <1>4, RefuseKeeps
  <2> QED
    BY <1>1, <2>1 DEF CacheAfter, OnAfter
<1>5. phase' \in {"drain", "idle"}
  BY <1>0, <1>1, EventTypes DEF Refuse
<1>6. Waits(t2) /\ Taken(t2)
  BY <1>1 DEF Waits, Taken
<1>7. ASSUME hazards' \subseteq {"recached"}
      PROVE  Sound(t2, Events, down) /\ Scanned(t2, Events)
  <2>1. Orderly
    BY <1>4, <1>7 DEF IInv
  <2>2. Sound(t2, Events, down)
    BY <1>1, <2>1, SoundSame DEF Orderly
  <2>3. \A r : Within(t2, r) <=> Within(t, r)
    BY DEF Within
  <2>4. ASSUME NEW i \in 1..Len(Events), Events[i].key = t2.key, ~Events[i].pressed,
               Within(t2, Events[i])
        PROVE  FALSE
    <3>1. CASE i \in 1..Len(waiting_buffer) /\ Events[i] = waiting_buffer[i]
      BY <1>1, <2>1, <2>3, <2>4, <3>1 DEF Orderly, Scanned
    <3>2. CASE Events[i] = e
      BY <2>4, <3>2 DEF ReleasesTap, IsTapping
    <3>3. waiting_buffer \in Seq(Record)
      BY <1>0 DEF Types
    <3>4. CASE phase = "process" /\ record.key # None
      <4>1. Events = Append(waiting_buffer, record) /\ e = record
        BY <3>4 DEF Events, e
      <4>2. i \in 1..Len(waiting_buffer) \/ i = Len(waiting_buffer) + 1
        BY <3>3, <4>1
      <4> QED
        BY <3>1, <3>2, <3>3, <4>1, <4>2
    <3>5. CASE ~(phase = "process" /\ record.key # None)
      BY <3>1, <3>5 DEF Events
    <3> QED
      BY <3>4, <3>5
  <2> QED
    BY <2>2, <2>4 DEF Scanned
<1>8. ASSUME hazards' = {} PROVE Owned(t2, Events, down, source_layers_cache, on)
  <2>1. hazards = {}
    BY <1>4, <1>8
  <2>2. Owned(t, Events, down, source_layers_cache, on)
    BY <2>1 DEF IInv
  <2>3. \A x : Counted(t2, Events, x) <=> Counted(t, Events, x)
    BY <1>1, <1>6 DEF Counted
  <2> QED
    BY <1>1, <2>2, <2>3, OwnSame
<1>9. Behind'
  <2>1. ASSUME hazards' \subseteq {"recached"}
        PROVE  /\ Sound(tapping_key', waiting_buffer', down')
               /\ Scanned(tapping_key', waiting_buffer')
               /\ Waits(tapping_key')
    BY <1>4, <1>6, <1>7, <2>1
  <2>2. ASSUME hazards' = {}
        PROVE  Owned(tapping_key', waiting_buffer', down', source_layers_cache', on')
    BY <1>4, <1>8, <2>2
  <2> QED
    BY <1>5, <2>1, <2>2 DEF Behind
<1> QED
  BY <1>3, <1>9

\* A press, or nothing, while a tap key is undecided.
LEMMA TheWaitStep ==
  ASSUME IInv, Wait
  PROVE  Types' /\ Behind'
<1> DEFINE t2 == [tapping_key EXCEPT !.interrupted = @ \/ e.pressed]
<1>1. Undecided /\ ~IsRelease /\ Refuse(e, TICK, t2) /\ UNCHANGED down
  BY DEF Wait
<1>2. Types /\ Active /\ tapping_key # None
  BY <1>1, TypesAreTypes DEF IInv, Undecided, Pressed
<1>3. tapping_key \in Record /\ tapping_key.key \in Keys /\ None \notin Keys /\ e \in Record
  BY <1>2, EventTypes DEF Types
<1>4. ~ReleasesTap
  BY <1>1, <1>3 DEF ReleasesTap, IsRelease, IsTapping
<1>5. /\ t2 \in Record /\ t2.key = tapping_key.key /\ t2.pressed = tapping_key.pressed
      /\ t2.count = tapping_key.count /\ t2.age = tapping_key.age
  BY <1>3 DEF Record
<1> HIDE DEF t2
<1> QED
  BY <1>1, <1>4, <1>5, WaitStep

\* The release of a key that was down before the tap key.
LEMMA EarlierReleaseStep ==
  ASSUME IInv, EarlierRelease
  PROVE  Types' /\ Behind'
<1>0. /\ Undecided /\ ~ReleasesTap /\ IsRelease /\ ~Typed(e) /\ UNCHANGED down
  BY DEF EarlierRelease
<1>1. Types /\ Active /\ tapping_key \in Record /\ e.key \in Keys /\ ~e.pressed
  <2>1. Types /\ Active /\ tapping_key # None
    BY <1>0, TypesAreTypes DEF IInv, Undecided, Pressed
  <2> QED
    BY <1>0, <2>1, EventTypes DEF Types, IsRelease
<1>2. CASE Refuse(e, TICK, tapping_key)
  BY <1>0, <1>1, <1>2, WaitStep
<1>3. CASE process_record(e) /\ Done(waiting_buffer) /\ UNCHANGED tapping_key
  <2>1. Orderly /\ phase = "process" /\ e.key \in Keys => ~Pending(waiting_buffer, e.key)
    <3> SUFFICES ASSUME Orderly, phase = "process" PROVE ~Pending(waiting_buffer, e.key)
      OBVIOUS
    <3>1. e = record
      BY <1>1, EventTypes
    <3> QED
      BY <1>0, <1>1, <3>1, NotTyped
  <2>2. ~(e.key = tapping_key.key /\ ~e.pressed)
    BY <1>0 DEF ReleasesTap, IsTapping
  <2> QED
    BY <1>0, <1>1, <1>3, <2>1, <2>2, ProcessStep
<1> QED
  BY <1>2, <1>3 DEF EarlierRelease

\* A tap key that is undecided is held: its press is processed, the event waits.
LEMMA HoldStep ==
  ASSUME IInv, Pressed, tapping_key.count = 0, Refuse(e, tapping_key, None), UNCHANGED down
  PROVE  Types' /\ Behind'
<1> DEFINE t == tapping_key
<1>0. Types
  BY TypesAreTypes DEF IInv
<1>1. /\ Active /\ Waits(t) /\ Taken(t) /\ e \in Record /\ t \in Record /\ t.key \in Keys
      /\ t.pressed /\ None \notin Keys /\ Good(source_layers_cache)
  BY <1>0, EventTypes DEF Pressed, Waits, Taken, Types
<1>2. Types'
  BY <1>0, <1>1, RefuseTypes
<1>3. ASSUME "overflow" \notin hazards'
      PROVE  /\ source_layers_cache' = CacheAfter(t) /\ on' = OnAfter(t) /\ tapping_key' = None
             /\ hazards' = hazards /\ waiting_buffer' = Events
  BY <1>0, <1>1, <1>3, RefuseKeeps
<1>4. phase' \in {"drain", "idle"}
  BY <1>0, <1>1, EventTypes DEF Refuse
<1>5. ~Waits(None) /\ ~Taken(None)
  BY DEF Waits, Taken
<1> HIDE DEF t
<1>6. ASSUME hazards' \subseteq {"recached"}
      PROVE  /\ Sound(None, Events, down) /\ Scanned(None, Events)
             /\ Engaged(Events, down, t.key) /\ ~NextCounted(Events, t.key)
  <2>1. Orderly
    BY <1>3, <1>6 DEF IInv
  <2>2. Sound(None, Events, down)
    BY <1>5, <2>1, SoundSame DEF Orderly
  <2>3. Engaged(Events, down, t.key)
    BY <1>1, <2>1 DEF Orderly, Sound, t
  <2>4. ~NextCounted(Events, t.key)
    BY <1>1, <2>1 DEF Orderly, Sound, Marked, NextCounted, First, t
  <2> QED
    BY <1>5, <2>2, <2>3, <2>4 DEF Scanned
<1>7. ASSUME hazards' = {} PROVE Owned(None, Events, down, CacheAfter(t), OnAfter(t))
  <2>0. hazards = {}
    BY <1>3, <1>7
  <2>1. Owned(t, Events, down, source_layers_cache, on)
    BY <2>0 DEF IInv, t
  <2>2. ASSUME NEW x \in Keys, x # t.key
        PROVE  /\ Engaged(Events, down, x) <=> Engaged(Events, down, x)
               /\ Counted(None, Events, x) <=> Counted(t, Events, x)
               /\ Waits(None) /\ None.key = x => Waits(t) /\ t.key = x
    BY <1>5, <2>2 DEF Counted
  <2>3. /\ Waits(t) /\ t.key = t.key
        /\ Engaged(Events, down, t.key) /\ ~(Waits(None) /\ None.key = t.key)
        /\ ~Counted(None, Events, t.key) /\ ~(t.count > 0)
    BY <1>1, <1>5, <1>6, <1>7 DEF Counted, Waits
  <2>4. OnAfter(t) = on \cup {Output(t)}
    BY <1>1 DEF OnAfter
  <2> QED
    BY <1>1, <2>1, <2>2, <2>3, <2>4, ProcessOwned
<1>8. Behind'
  <2>1. ASSUME hazards' \subseteq {"recached"}
        PROVE  /\ Sound(tapping_key', waiting_buffer', down')
               /\ Scanned(tapping_key', waiting_buffer')
               /\ tapping_key' = None
    BY <1>3, <1>6, <2>1
  <2>2. ASSUME hazards' = {}
        PROVE  Owned(tapping_key', waiting_buffer', down', source_layers_cache', on')
    BY <1>3, <1>7, <2>2
  <2> QED
    BY <1>4, <2>1, <2>2 DEF Behind
<1> QED
  BY <1>2, <1>8

\* The term after a release is over.
LEMMA AfterTimeoutStep ==
  ASSUME IInv, AfterTimeout
  PROVE  Types' /\ Behind'
<1>0. Types
  BY TypesAreTypes DEF IInv
<1>1. /\ Active /\ ~Waits(tapping_key) /\ ~Taken(tapping_key) /\ e \in Record
      /\ TICK \in Record /\ ~TICK.pressed /\ TICK.key = None
      /\ Refuse(e, TICK, None) /\ UNCHANGED down
  BY <1>0, EventTypes, TickIsRecord DEF AfterTimeout, Released, Waits, Taken
<1>2. Types'
  BY <1>0, <1>1, RefuseTypes
<1>3. ASSUME "overflow" \notin hazards'
      PROVE  /\ source_layers_cache' = source_layers_cache /\ on' = on /\ tapping_key' = None
             /\ hazards' = hazards /\ waiting_buffer' = Events
  <2>1. /\ source_layers_cache' = CacheAfter(TICK) /\ on' = OnAfter(TICK) /\ tapping_key' = None
        /\ hazards' = hazards /\ waiting_buffer' = Events
    BY <1>0, <1>1, <1>3, RefuseKeeps
  <2> QED
    BY <1>1, <2>1 DEF CacheAfter, OnAfter
<1>4. phase' \in {"drain", "idle"}
  BY <1>0, <1>1, EventTypes DEF Refuse
<1>5. ~Waits(None) /\ ~Taken(None)
  BY DEF Waits, Taken
<1>6. ASSUME hazards' \subseteq {"recached"}
      PROVE  /\ Sound(tapping_key', waiting_buffer', down')
             /\ Scanned(tapping_key', waiting_buffer')
             /\ tapping_key' = None
  <2>1. Orderly
    BY <1>3, <1>6 DEF IInv
  <2>2. Sound(None, Events, down)
    BY <1>5, <2>1, SoundSame DEF Orderly
  <2> QED
    BY <1>1, <1>3, <1>5, <1>6, <2>2 DEF Scanned
<1>7. ASSUME hazards' = {}
      PROVE  Owned(tapping_key', waiting_buffer', down', source_layers_cache', on')
  <2>1. Owned(tapping_key, Events, down, source_layers_cache, on)
    BY <1>3, <1>7 DEF IInv
  <2> QED
    BY <1>1, <1>3, <1>7, <2>1, OwnedFree
<1>8. Behind'
  BY <1>4, <1>6, <1>7 DEF Behind
<1> QED
  BY <1>2, <1>8

\* A tap is released, and takes off what it owns.
LEMMA TapReleaseStep ==
  ASSUME IInv, TapRelease
  PROVE  Types' /\ Behind'
<1> DEFINE t == tapping_key
<1> DEFINE t2 == tapping_key'
<1> DEFINE r == [e EXCEPT !.count = t.count, !.interrupted = t.interrupted]
<1>0. Types
  BY TypesAreTypes DEF IInv
<1>1. /\ Active /\ t # None /\ t.pressed /\ t.count > 0 /\ e.key = t.key /\ ~e.pressed
      /\ process_record(r) /\ Done(waiting_buffer) /\ UNCHANGED down
      /\ t2 = r \/ t2 = None
  BY DEF TapRelease, Tapped, Pressed, ReleasesTap, IsTapping
<1>2. /\ e \in Record /\ t \in Record /\ t.key \in Keys /\ None \notin Keys
      /\ Good(source_layers_cache) /\ on \subseteq Outputs /\ waiting_buffer \in Seq(Record)
      /\ \A i \in 1..Len(waiting_buffer) : waiting_buffer[i].key \in Keys
      /\ hazards \subseteq {"recached", "overflow", "overtaking", "wrapped", "unscanned"}
  BY <1>0, <1>1, EventTypes DEF Types
<1>3. r \in Record /\ r.key = t.key /\ ~r.pressed /\ r.count = t.count
  BY <1>1, <1>2 DEF Record
<1>4. /\ Consume(waiting_buffer) /\ hazards' = hazards
      /\ source_layers_cache' = CacheAfter(r) /\ on' = OnAfter(r)
  BY <1>1 DEF Done, process_record
<1> HIDE DEF t, t2, r
<1>5. ~Taken(t2) /\ ~Waits(t2) /\ Taken(t) /\ ~Waits(t)
  BY <1>1, <1>3 DEF Taken, Waits
<1>6. Types'
  <2>1. Good(source_layers_cache') /\ on' \subseteq Outputs
    BY <1>2, <1>3, <1>4, RecordEffect
  <2>2. t2 # None => t2 \in Record /\ t2.key \in Keys
    BY <1>1, <1>2, <1>3
  <2> QED
    BY <1>0, <1>1, <1>2, <1>4, <2>1, <2>2, ConsumeTypes DEF t2
<1>7. waiting_buffer' = Left /\ phase' = "drain" /\ OnAfter(r) = on \ {Output(r)}
  BY <1>2, <1>3, <1>4 DEF Consume, Left, OnAfter
<1>8. ASSUME hazards \subseteq {"recached"}
      PROVE  /\ Sound(t2, Left, down) /\ Scanned(t2, Left)
             /\ hazards = {} => Owned(t2, Left, down, CacheAfter(r), OnAfter(r))
  <2>1. Orderly
    BY <1>8 DEF IInv
  <2>2. Removal(Events, Left, e, down)
    BY <1>0, <1>1, <1>2, <1>5, <2>1, QueueEmpty, Consumed DEF t
  <2>3. Sound(t2, Left, down)
    BY <1>5, <2>1, <2>2, SoundFree DEF Orderly
  <2>4. Scanned(t2, Left)
    BY <1>5 DEF Scanned
  <2>5. ASSUME hazards = {} PROVE Owned(t2, Left, down, CacheAfter(r), OnAfter(r))
    <3>1. Owned(t, Events, down, source_layers_cache, on)
      BY <2>5 DEF IInv, t
    <3>2. ASSUME NEW x \in Keys, x # r.key
          PROVE  /\ Engaged(Left, down, x) <=> Engaged(Events, down, x)
                 /\ Counted(t2, Left, x) <=> Counted(t, Events, x)
                 /\ Waits(t2) /\ t2.key = x => Waits(t) /\ t.key = x
      BY <1>1, <1>3, <1>5, <2>2, <3>2 DEF Removal, Counted
    <3>3. Counted(t, Events, r.key) <=> r.count > 0
      BY <1>3, <1>5 DEF Counted
    <3> QED
      BY <1>2, <1>3, <1>7, <3>1, <3>2, <3>3, ProcessOwned
  <2> QED
    BY <2>3, <2>4, <2>5
<1>9. Behind'
  BY <1>1, <1>4, <1>7, <1>8 DEF Behind, t2
<1> QED
  BY <1>6, <1>9

\* A tap follows a tap.
LEMMA SequentialTapStep ==
  ASSUME IInv, SequentialTap
  PROVE  Types' /\ Behind'
<1> DEFINE t == tapping_key
<1> DEFINE r == [e EXCEPT !.count = IF t.count < MaxTaps THEN t.count + 1 ELSE t.count,
                          !.interrupted = t.interrupted]
<1>0. Types
  BY TypesAreTypes DEF IInv
<1>1. /\ Active /\ t # None /\ ~t.pressed /\ t.count > 0 /\ e.key = t.key /\ e.pressed
      /\ process_record(r) /\ tapping_key' = r /\ Done(waiting_buffer) /\ UNCHANGED down
  BY DEF SequentialTap, Again, Repeats, Released, IsTapping
<1>2. /\ e \in Record /\ t \in Record /\ t.key \in Keys /\ None \notin Keys
      /\ Good(source_layers_cache) /\ on \subseteq Outputs /\ waiting_buffer \in Seq(Record)
      /\ \A i \in 1..Len(waiting_buffer) : waiting_buffer[i].key \in Keys
      /\ hazards \subseteq {"recached", "overflow", "overtaking", "wrapped", "unscanned"}
  BY <1>0, <1>1, EventTypes DEF Types
<1>3. r \in Record /\ r.key = e.key /\ r.pressed /\ r.age = e.age /\ r.count > 1 /\ r # None
  <2>1. t.count \in 0..MaxTaps /\ MaxTaps \in Nat /\ MaxTaps > 1
    BY <1>2, RecordTypes
  <2>2. r \in Record /\ r.key = e.key /\ r.pressed /\ r.age = e.age
        /\ r.count = IF t.count < MaxTaps THEN t.count + 1 ELSE t.count
    <3> DEFINE n == IF t.count < MaxTaps THEN t.count + 1 ELSE t.count
    <3>1. n \in 0..MaxTaps
      BY <2>1
    <3> HIDE DEF n
    <3>2. t.interrupted \in BOOLEAN
      BY <1>2 DEF Record
    <3>3. r = [e EXCEPT !.count = n, !.interrupted = t.interrupted]
      BY DEF n, r
    <3> HIDE DEF r
    <3>4. r \in Record /\ r.key = e.key /\ r.pressed /\ r.age = e.age /\ r.count = n
      BY <1>1, <1>2, <3>1, <3>2, <3>3 DEF Record
    <3> QED
      BY <3>4 DEF n
  <2> QED
    BY <1>1, <2>1, <2>2, NoneAssumption
<1>4. /\ Consume(waiting_buffer) /\ hazards' = hazards
      /\ source_layers_cache' = CacheAfter(r) /\ on' = OnAfter(r)
  BY <1>1 DEF Done, process_record
<1> HIDE DEF t, r
<1>5. Taken(r) /\ ~Waits(r) /\ ~Taken(t) /\ ~Waits(t)
  BY <1>1, <1>3 DEF Taken, Waits
<1>6. Types'
  <2>1. Good(source_layers_cache') /\ on' \subseteq Outputs
    BY <1>1, <1>2, <1>3, <1>4, RecordEffect
  <2> QED
    BY <1>0, <1>1, <1>2, <1>3, <1>4, <2>1, ConsumeTypes
<1>7. waiting_buffer' = Left /\ phase' = "drain" /\ OnAfter(r) = on \cup {Output(r)}
  BY <1>1, <1>2, <1>3, <1>4 DEF Consume, Left, OnAfter
<1>8. ASSUME hazards \subseteq {"recached"}
      PROVE  /\ Sound(r, Left, down) /\ Scanned(r, Left)
             /\ hazards = {} => Owned(r, Left, down, CacheAfter(r), OnAfter(r))
  <2>1. Orderly
    BY <1>8 DEF IInv
  <2>2. Removal(Events, Left, e, down)
    BY <1>0, <1>1, <1>2, <1>5, <2>1, QueueEmpty, Consumed DEF t
  <2>3. Sound(r, Left, down)
    BY <1>1, <1>3, <2>1, <2>2, SoundStarts DEF Orderly
  <2>4. Scanned(r, Left)
    BY <1>5 DEF Scanned
  <2>5. ASSUME hazards = {} PROVE Owned(r, Left, down, CacheAfter(r), OnAfter(r))
    <3>1. Owned(t, Events, down, source_layers_cache, on)
      BY <2>5 DEF IInv, t
    <3>2. ASSUME NEW x \in Keys, x # r.key
          PROVE  /\ Engaged(Left, down, x) <=> Engaged(Events, down, x)
                 /\ Counted(r, Left, x) <=> Counted(t, Events, x)
                 /\ Waits(r) /\ r.key = x => Waits(t) /\ t.key = x
      BY <1>3, <1>5, <2>2, <3>2 DEF Removal, Counted
    <3>3. /\ ~Engaged(Events, down, r.key) /\ Engaged(Left, down, r.key)
          /\ ~(Waits(r) /\ r.key = r.key)
          /\ Counted(r, Left, r.key) <=> r.count > 0
      BY <1>1, <1>3, <1>5, <2>2 DEF Removal, Counted
    <3> QED
      BY <1>1, <1>2, <1>3, <1>7, <3>1, <3>2, <3>3, ProcessOwned
  <2> QED
    BY <2>3, <2>4, <2>5
<1>9. Behind'
  BY <1>1, <1>4, <1>7, <1>8 DEF Behind
<1> QED
  BY <1>6, <1>9

\* The release of an undecided key, which is the next event of the key: a tap.
LEMMA FirstTapStep ==
  ASSUME IInv, FirstTap
  PROVE  Types' /\ Behind'
<1> DEFINE t == tapping_key
<1> DEFINE tap == [t EXCEPT !.count = 1]
<1> DEFINE r == [e EXCEPT !.count = 1, !.interrupted = tap.interrupted]
<1> DEFINE n == Len(waiting_buffer)
<1> DEFINE q == Events
<1> DEFINE p == Append(waiting_buffer, r)
<1>0. Types
  BY TypesAreTypes DEF IInv
<1>1. /\ Active /\ t # None /\ t.pressed /\ t.count = 0 /\ e.key = t.key /\ ~e.pressed
      /\ Within(t, e) /\ Refuse(r, tap, tap) /\ UNCHANGED down
  BY DEF FirstTap, Undecided, Pressed, ReleasesTap, IsTapping
<1>2. /\ e \in Record /\ t \in Record /\ t.key \in Keys /\ None \notin Keys
      /\ Good(source_layers_cache) /\ waiting_buffer \in Seq(Record)
      /\ t.interrupted \in BOOLEAN /\ 1 \in 0..MaxTaps
  BY <1>0, <1>1, EventTypes, RecordTypes DEF Types
<1>3. /\ tap \in Record /\ tap.key = t.key /\ tap.pressed /\ tap.count = 1 /\ tap.age = t.age
      /\ tap.interrupted \in BOOLEAN /\ tap # None
  BY <1>1, <1>2, NoneAssumption DEF Record
<1> HIDE DEF tap
<1>4. /\ r \in Record /\ r.key = t.key /\ ~r.pressed /\ r.count = 1 /\ r.age = e.age
      /\ r.pressed = e.pressed
  BY <1>1, <1>2, <1>3 DEF Record
<1> HIDE DEF r
<1>5. Types'
  BY <1>0, <1>1, <1>2, <1>3, <1>4, RefuseTypes
<1>6. phase' \in {"drain", "idle"}
  BY <1>0, <1>1, EventTypes DEF Refuse
<1>7. Waits(t) /\ Taken(t) /\ ~Waits(tap) /\ Taken(tap)
  BY <1>1, <1>3 DEF Waits, Taken
<1> HIDE DEF t
<1>8. ASSUME hazards' \subseteq {"recached"}
      PROVE  /\ hazards' = hazards /\ tapping_key' = tap /\ waiting_buffer' = p
             /\ source_layers_cache' = CacheAfter(tap) /\ on' = on \cup {Output(tap)}
             /\ phase' = "drain"
             /\ Sound(tap, p, down) /\ Scanned(tap, p)
             /\ Engaged(q, down, t.key) /\ Engaged(p, down, t.key) /\ NextCounted(p, t.key)
             /\ \A x : x # t.key => /\ Engaged(p, down, x) <=> Engaged(q, down, x)
                                    /\ NextCounted(p, x) <=> NextCounted(q, x)
  <2>1. /\ source_layers_cache' = CacheAfter(tap) /\ on' = OnAfter(tap) /\ tapping_key' = tap
        /\ hazards' = hazards
        /\ phase' = "idle" => phase = "drain"
        /\ phase = "process" /\ r.key # None => waiting_buffer' = p
    BY <1>0, <1>1, <1>2, <1>4, <1>8, RefuseKeeps
  <2>2. /\ Orderly /\ Sound(t, q, down) /\ Scanned(t, waiting_buffer)
    BY <1>8, <2>1 DEF IInv, Orderly, t
  <2>3. phase = "process" /\ e = record
    <3> SUFFICES ASSUME phase # "process" PROVE FALSE
      BY <1>0, <1>1, EventTypes
    <3>1. e = waiting_buffer[1] /\ waiting_buffer # <<>>
      BY <1>0, <1>1, EventTypes
    <3>2. 1 \in 1..n
      BY <1>2, <3>1
    <3> QED
      BY <1>1, <1>7, <2>2, <3>1, <3>2 DEF Scanned
  <2>4. q = Append(waiting_buffer, e)
    BY <1>1, <1>2, <2>3 DEF Events
  <2>5. /\ n \in Nat /\ Len(q) = n + 1 /\ \A i \in 1..n : q[i] = waiting_buffer[i] /\ p[i] = q[i]
        /\ q[n + 1] = e /\ p[n + 1] = r /\ Len(p) = n + 1
        /\ q \in Seq(Record) /\ p \in Seq(Record) /\ Len(q) \in Nat
    BY <1>2, <1>4, <2>4
  <2> HIDE DEF q, p, n
  <2>6. \A i \in 1..Len(q) : i \in 1..n \/ i = n + 1
    BY <2>5
  <2>7. Engaged(q, down, t.key)
    BY <1>7, <2>2 DEF Sound
  <2>8. First(q, n + 1, t.key)
    <3>1. n + 1 \in 1..Len(q)
      BY <2>5
    <3>2. Pending(q, t.key)
      BY <1>1, <2>5, <3>1 DEF Pending
    <3>3. PICK i \in 1..Len(q) : First(q, i, t.key)
      BY <2>5, <3>2, FirstExists
    <3>4. ~q[i].pressed /\ q[i].key = t.key
      BY <2>5, <2>7, <3>3, FirstDecides DEF First
    <3>5. i \notin 1..n
      <4> SUFFICES ASSUME i \in 1..n PROVE FALSE
        OBVIOUS
      <4>1. q[i].age >= e.age
        BY <2>2, <2>5, <3>1 DEF Sound, Aged, Sorted
      <4>2. t.age >= q[i].age /\ q[i] \in Record
        BY <1>7, <2>2, <2>5 DEF Sound, Aged
      <4>3. Within(t, q[i])
        BY <1>1, <1>2, <4>1, <4>2, WithinYounger
      <4> QED
        BY <1>7, <2>2, <2>5, <3>4, <4>3 DEF Scanned, n
    <3> QED
      BY <2>6, <3>3, <3>5
  <2>9. /\ Same(p, q)
        /\ \A i \in 1..Len(q) : p[i].age = q[i].age /\ (i # n + 1 => p[i].count = q[i].count)
    <3>1. ASSUME NEW i \in 1..Len(q)
          PROVE  /\ p[i].key = q[i].key /\ p[i].pressed = q[i].pressed /\ p[i].age = q[i].age
                 /\ i # n + 1 => p[i].count = q[i].count
      <4>1. CASE i \in 1..n
        BY <2>5, <4>1
      <4>2. CASE i = n + 1
        BY <1>1, <1>4, <2>5, <4>2
      <4> QED
        BY <2>6, <4>1, <4>2
    <3> QED
      BY <2>5, <3>1 DEF Same
  <2>10. p[n + 1].count > 0 /\ ~q[n + 1].pressed
    BY <1>1, <1>4, <2>5
  <2>11. /\ Alternates(q, down) => Alternates(p, down)
         /\ \A x : Engaged(p, down, x) <=> Engaged(q, down, x)
         /\ NextCounted(p, t.key)
         /\ \A x : x # t.key => (NextCounted(p, x) <=> NextCounted(q, x))
         /\ Marks(q) => Marks(p)
         /\ Sorted(q) => Sorted(p)
    <3>1. CountsNext(q, p, n + 1, t.key)
      BY <2>8, <2>9, <2>10 DEF CountsNext
    <3> QED
      BY <2>5, <3>1, CountMark
  <2>12. Sound(tap, p, down)
    BY <1>3, <1>7, <2>2, <2>7, <2>11 DEF Sound, Marked, Aged
  <2>13. Scanned(tap, p)
    BY <1>7 DEF Scanned
  <2>14. OnAfter(tap) = on \cup {Output(tap)} /\ r.key # None
    BY <1>2, <1>3, <1>4 DEF OnAfter
  <2>15. phase' = "drain"
    BY <1>6, <2>1, <2>3
  <2> QED
    BY <2>1, <2>3, <2>7, <2>11, <2>12, <2>13, <2>14, <2>15 DEF p, q
<1> HIDE DEF q, p
<1>9. ASSUME hazards' = {} PROVE Owned(tap, p, down, CacheAfter(tap), on \cup {Output(tap)})
  <2>0. hazards' \subseteq {"recached"}
    BY <1>9
  <2>1. Owned(t, q, down, source_layers_cache, on)
    BY <1>8, <1>9, <2>0 DEF IInv, t, q
  <2>2. ASSUME NEW x \in Keys, x # tap.key
        PROVE  /\ Engaged(p, down, x) <=> Engaged(q, down, x)
               /\ Counted(tap, p, x) <=> Counted(t, q, x)
               /\ Waits(tap) /\ tap.key = x => Waits(t) /\ t.key = x
    BY <1>3, <1>7, <1>8, <2>0, <2>2 DEF Counted
  <2>3. /\ Waits(t) /\ t.key = tap.key
        /\ Engaged(p, down, tap.key) /\ ~(Waits(tap) /\ tap.key = tap.key)
        /\ Counted(tap, p, tap.key) <=> tap.count > 0
    BY <1>3, <1>7, <1>8, <2>0 DEF Counted
  <2> QED
    BY <1>2, <1>3, <2>1, <2>2, <2>3, ProcessOwned
<1>10. Behind'
  <2>1. ASSUME hazards' \subseteq {"recached"}
        PROVE  /\ Sound(tapping_key', waiting_buffer', down')
               /\ Scanned(tapping_key', waiting_buffer')
               /\ phase' = "drain"
    BY <1>1, <1>8, <2>1
  <2>2. ASSUME hazards' = {}
        PROVE  Owned(tapping_key', waiting_buffer', down', source_layers_cache', on')
    <3>1. hazards' \subseteq {"recached"}
      BY <2>2
    <3> QED
      BY <1>1, <1>8, <1>9, <2>2, <3>1
  <2> QED
    BY <1>6, <2>1, <2>2 DEF Behind
<1> QED
  BY <1>5, <1>10

\* The call returns.
LEMMA ReturnStep ==
  ASSUME IInv, Return
  PROVE  Types' /\ Behind'
<1>0. Types
  BY TypesAreTypes DEF IInv
<1>1. /\ phase = "drain" /\ waiting_buffer = <<>> /\ phase' = "idle"
      /\ UNCHANGED <<down, tapping_key, waiting_buffer, record, source_layers_cache, on, hazards>>
  BY DEF Return
<1>2. Types'
  BY <1>0, <1>1 DEF Types
<1>3. Events = waiting_buffer
  BY <1>1 DEF Events
<1>4. Behind'
  BY <1>1, <1>3 DEF Behind, IInv, Orderly
<1> QED
  BY <1>2, <1>4

-----------------------------------------------------------------------------
(* The next call: time passes, and an event may come.                       *)

\* A record is older by the time that passes, as far as the timer can tell.
LEMMA OlderRecord ==
  ASSUME NEW r \in Record, NEW dt \in Gaps
  PROVE  /\ Older(r, dt) \in Record /\ Older(r, dt).key = r.key
         /\ Older(r, dt).pressed = r.pressed /\ Older(r, dt).count = r.count
         /\ r.age + dt < TimerMod => Older(r, dt).age = r.age + dt
<1>1. r.age \in Nat /\ TimerMod \in Nat \ {0} /\ dt \in Nat
  BY RecordTypes, TappingAssumption
<1> DEFINE a == (r.age + dt) % TimerMod
<1>2. a \in 0..(TimerMod - 1) /\ (r.age + dt < TimerMod => a = r.age + dt)
  <2> DEFINE x == r.age + dt
  <2>1. x \in Nat /\ TimerMod > 0
    BY <1>1
  <2> HIDE DEF x
  <2>2. x % TimerMod \in 0..(TimerMod - 1)
    BY <1>1, <2>1
  <2>3. x < TimerMod => x % TimerMod = x
    BY <1>1, <2>1
  <2> QED
    BY <2>2, <2>3 DEF x
<1> HIDE DEF a
<1>3. Older(r, dt) = [r EXCEPT !.age = a]
  BY DEF Older, a
<1> QED
  BY <1>2, <1>3 DEF Record

\* What waits, when time has passed.
LEMMA PassTypes ==
  ASSUME Types, NEW dt \in Gaps, Pass(dt)
  PROVE  /\ waiting_buffer' \in Seq(Record) /\ Len(waiting_buffer') = Len(waiting_buffer)
         /\ Same(waiting_buffer', waiting_buffer)
         /\ \A i \in 1..Len(waiting_buffer) : waiting_buffer'[i].count = waiting_buffer[i].count
         /\ \A i \in 1..Len(waiting_buffer') : waiting_buffer'[i].key \in Keys
         /\ tapping_key' = None <=> tapping_key = None
         /\ tapping_key # None => /\ tapping_key' \in Record /\ tapping_key'.key \in Keys
                                  /\ tapping_key'.key = tapping_key.key
                                  /\ tapping_key'.pressed = tapping_key.pressed
                                  /\ tapping_key'.count = tapping_key.count
         /\ Wrapped(dt) = {} =>
              /\ \A i \in 1..Len(waiting_buffer) :
                    waiting_buffer'[i].age = waiting_buffer[i].age + dt
              /\ Waits(tapping_key) => tapping_key'.age = tapping_key.age + dt
<1> DEFINE w == waiting_buffer
<1> DEFINE w2 == waiting_buffer'
<1> DEFINE t == tapping_key
<1> DEFINE t2 == tapping_key'
<1>1. /\ w \in Seq(Record) /\ \A i \in 1..Len(w) : w[i].key \in Keys
      /\ t # None => t \in Record /\ t.key \in Keys
  BY DEF Types
<1>2. DOMAIN w = 1..Len(w) /\ Len(w) \in Nat /\ \A i \in 1..Len(w) : w[i] \in Record
  BY <1>1
<1>3. w2 = [i \in 1..Len(w) |-> Older(w[i], dt)] /\ t2 = IF t = None THEN None ELSE Older(t, dt)
  BY <1>2 DEF Pass
<1>4. Wrapped(dt) = {} => /\ \A i \in 1..Len(w) : ~(w[i].age + dt >= TimerMod)
                          /\ Waits(t) => ~(t.age + dt >= TimerMod)
  BY <1>2 DEF Wrapped, Waits
<1>5. TimerMod \in Nat /\ dt \in Nat /\ \A r \in Record : r.age \in Nat
  BY RecordTypes, TappingAssumption
<1> HIDE DEF w, w2, t, t2
<1>6. ASSUME NEW i \in 1..Len(w)
      PROVE  /\ w2[i] \in Record /\ w2[i].key = w[i].key /\ w2[i].pressed = w[i].pressed
             /\ w2[i].count = w[i].count
             /\ w[i].age + dt < TimerMod => w2[i].age = w[i].age + dt
  <2>1. w2[i] = Older(w[i], dt) /\ w[i] \in Record
    BY <1>2, <1>3
  <2> QED
    BY <2>1, OlderRecord
<1>7. w2 \in Seq(Record) /\ Len(w2) = Len(w)
  BY <1>2, <1>3, <1>6
<1>8. Same(w2, w)
  BY <1>6, <1>7 DEF Same
<1>9. \A i \in 1..Len(w2) : w2[i].key \in Keys
  BY <1>1, <1>6, <1>7
<1>10. /\ t2 = None <=> t = None
       /\ t # None => /\ t2 \in Record /\ t2.key \in Keys
                      /\ t2.key = t.key /\ t2.pressed = t.pressed /\ t2.count = t.count
                      /\ t.age + dt < TimerMod => t2.age = t.age + dt
  BY <1>1, <1>3, OlderRecord, NoneAssumption
<1>11. ASSUME Wrapped(dt) = {}
       PROVE  /\ \A i \in 1..Len(w) : w2[i].age = w[i].age + dt
              /\ Waits(t) => t2.age = t.age + dt
  <2>1. \A i \in 1..Len(w) : w[i].age + dt < TimerMod
    BY <1>2, <1>4, <1>5, <1>11
  <2>2. Waits(t) => t.age + dt < TimerMod /\ t # None
    BY <1>1, <1>4, <1>5, <1>11 DEF Waits
  <2> QED
    BY <1>6, <1>10, <2>1, <2>2
<1> QED
  BY <1>6, <1>7, <1>8, <1>9, <1>10, <1>11 DEF w, w2, t, t2

\* While the timer can tell, nothing changes by the time that passes.
LEMMA PassSound ==
  ASSUME Types, NEW dt \in Gaps, Pass(dt)
  PROVE  /\ \A x : Engaged(waiting_buffer', down, x) <=> Engaged(waiting_buffer, down, x)
         /\ \A x : Counted(tapping_key', waiting_buffer', x)
                       <=> Counted(tapping_key, waiting_buffer, x)
         /\ Waits(tapping_key') <=> Waits(tapping_key)
         /\ Waits(tapping_key) => tapping_key'.key = tapping_key.key
         /\ Wrapped(dt) = {} /\ Sound(tapping_key, waiting_buffer, down)
              => Sound(tapping_key', waiting_buffer', down)
         /\ Wrapped(dt) = {} /\ Scanned(tapping_key, waiting_buffer)
              => Scanned(tapping_key', waiting_buffer')
<1> DEFINE w == waiting_buffer
<1> DEFINE w2 == waiting_buffer'
<1> DEFINE t == tapping_key
<1> DEFINE t2 == tapping_key'
<1>1. /\ w2 \in Seq(Record) /\ Len(w2) = Len(w) /\ Same(w2, w)
      /\ \A i \in 1..Len(w) : w2[i].count = w[i].count
      /\ t2 = None <=> t = None
      /\ t # None => /\ t2 \in Record /\ t2.key = t.key /\ t2.pressed = t.pressed
                     /\ t2.count = t.count
      /\ Wrapped(dt) = {} => /\ \A i \in 1..Len(w) : w2[i].age = w[i].age + dt
                             /\ Waits(t) => t2.age = t.age + dt
  BY PassTypes
<1>2. /\ w \in Seq(Record) /\ dt \in Nat /\ (t # None => t \in Record)
      /\ \A r \in Record : r.age \in Nat
      /\ \A i \in 1..Len(w) : w[i] \in Record
  BY RecordTypes, TappingAssumption DEF Types
<1> HIDE DEF w, w2, t, t2
<1>3. /\ Alternates(w, down) => Alternates(w2, down)
      /\ \A x : Engaged(w2, down, x) <=> Engaged(w, down, x)
      /\ \A i, x : First(w2, i, x) <=> First(w, i, x)
  BY <1>1, SameEvents
<1>4. Len(w2) = Len(w) /\ \A i \in 1..Len(w) : w2[i].key = w[i].key /\ w2[i].pressed = w[i].pressed
  BY <1>1 DEF Same
<1>5. \A x : NextCounted(w2, x) <=> NextCounted(w, x)
  BY <1>1, <1>3, <1>4 DEF NextCounted
<1>6. (Taken(t2) <=> Taken(t)) /\ (Waits(t2) <=> Waits(t))
  BY <1>1 DEF Taken, Waits
<1>7. /\ Taken(t) => t2.key = t.key /\ t2.count = t.count
      /\ Waits(t) => t2.key = t.key
  BY <1>1 DEF Taken, Waits
<1>8. \A x : Counted(t2, w2, x) <=> Counted(t, w, x)
  BY <1>5, <1>6, <1>7 DEF Counted
<1>9. ASSUME Wrapped(dt) = {}, Sound(t, w, down) PROVE Sound(t2, w2, down)
  <2>1. Marks(w2)
    BY <1>1, <1>3, <1>4, <1>9 DEF Sound, Marked, Marks
  <2>2. Waits(t2) => \A i \in 1..Len(w2) : w2[i].key = t2.key => w2[i].count = 0
    BY <1>1, <1>4, <1>6, <1>7, <1>9 DEF Sound, Marked
  <2>3. Taken(t2) /\ t2.count = 1 => NextCounted(w2, t2.key)
    BY <1>5, <1>6, <1>7, <1>9 DEF Sound, Marked
  <2>4. Sorted(w2)
    BY <1>1, <1>2, <1>9 DEF Sound, Aged, Sorted
  <2>5. Waits(t2) => \A i \in 1..Len(w2) : t2.age >= w2[i].age
    <3>1. Waits(t) => t.age \in Nat
      BY <1>2 DEF Waits
    <3> QED
      BY <1>1, <1>2, <1>6, <1>9, <3>1 DEF Sound, Aged
  <2>6. Taken(t2) => Engaged(w2, down, t2.key)
    BY <1>3, <1>6, <1>7, <1>9 DEF Sound
  <2> QED
    BY <1>3, <1>9, <2>1, <2>2, <2>3, <2>4, <2>5, <2>6 DEF Sound, Marked, Aged
<1>10. ASSUME Wrapped(dt) = {}, Scanned(t, w) PROVE Scanned(t2, w2)
  <2> SUFFICES ASSUME Waits(t2), NEW i \in 1..Len(w2), w2[i].key = t2.key, ~w2[i].pressed,
                      Within(t2, w2[i])
               PROVE  FALSE
    BY DEF Scanned
  <2>1. Waits(t) /\ t \in Record /\ t.age \in Nat /\ w[i].age \in Nat
    BY <1>1, <1>2, <1>6 DEF Waits
  <2>2. t2.age - w2[i].age = t.age - w[i].age
    BY <1>1, <1>2, <1>10, <2>1
  <2>3. Within(t, w[i])
    BY <2>2 DEF Within
  <2> QED
    BY <1>4, <1>7, <1>10, <2>1, <2>3 DEF Scanned
<1> QED
  BY <1>3, <1>6, <1>7, <1>8, <1>9, <1>10 DEF w, w2, t, t2

\* One more event, of this moment, and not of a key of no interest.
LEMMA SoundMore ==
  ASSUME NEW q \in Seq(Record), NEW r \in Record, NEW D, NEW D2, NEW t,
         r.pressed <=> r.key \notin D, r.key \in D2 <=> r.key \notin D,
         \A x : x # r.key => (x \in D2 <=> x \in D),
         r.count = 0, r.age = 0, t # None => t \in Record
  PROVE  /\ Sound(t, q, D) => Sound(t, Append(q, r), D2)
         /\ \A x : Engaged(Append(q, r), D2, x) <=> Engaged(q, D, x)
         /\ \A x : Counted(t, Append(q, r), x) <=> Counted(t, q, x)
<1> DEFINE p == Append(q, r)
<1> DEFINE n == Len(q)
<1>1. /\ n \in Nat /\ Len(p) = n + 1 /\ \A i \in 1..n : p[i] = q[i] /\ q[i] \in Record
      /\ p[n + 1] = r
  OBVIOUS
<1>2. \A i \in 1..Len(p) : i \in 1..n \/ i = n + 1
  BY <1>1
<1>3. /\ Alternates(q, D) => Alternates(p, D2)
      /\ \A x : Engaged(p, D2, x) <=> Engaged(q, D, x)
      /\ \A i \in 1..n : \A x : First(p, i, x) <=> First(q, i, x)
  BY OneMore
<1>4. \A x \in Record : x.age \in Nat
  BY RecordTypes
<1> HIDE DEF p, n
<1>5. \A x : NextCounted(p, x) <=> NextCounted(q, x)
  <2> TAKE x
  <2>1. ASSUME NextCounted(p, x) PROVE NextCounted(q, x)
    <3>1. PICK i \in 1..Len(p) : First(p, i, x) /\ ~p[i].pressed /\ p[i].count > 0
      BY <2>1 DEF NextCounted
    <3>2. i \in 1..n
      BY <1>1, <1>2, <3>1
    <3> QED
      BY <1>1, <1>3, <3>1, <3>2 DEF NextCounted, n
  <2>2. ASSUME NextCounted(q, x) PROVE NextCounted(p, x)
    <3>1. PICK i \in 1..n : First(q, i, x) /\ ~q[i].pressed /\ q[i].count > 0
      BY <2>2 DEF NextCounted, n
    <3>2. i \in 1..Len(p)
      BY <1>1
    <3> QED
      BY <1>1, <1>3, <3>1, <3>2 DEF NextCounted
  <2> QED
    BY <2>1, <2>2
<1>6. ASSUME Sound(t, q, D) PROVE Sound(t, p, D2)
  <2>1. Marks(p)
    <3> SUFFICES ASSUME NEW i \in 1..Len(p), p[i].count > 0
                 PROVE  ~p[i].pressed /\ First(p, i, p[i].key)
      BY DEF Marks
    <3>1. i \in 1..n
      BY <1>1, <1>2
    <3> QED
      BY <1>1, <1>3, <1>6, <3>1 DEF Sound, Marked, Marks, n
  <2>2. Waits(t) => \A i \in 1..Len(p) : p[i].key = t.key => p[i].count = 0
    BY <1>1, <1>2, <1>6 DEF Sound, Marked, n
  <2>3. Taken(t) /\ t.count = 1 => NextCounted(p, t.key)
    BY <1>5, <1>6 DEF Sound, Marked
  <2>4. Sorted(p)
    <3> SUFFICES ASSUME NEW i \in 1..Len(p), NEW j \in 1..Len(p), i < j
                 PROVE  p[i].age >= p[j].age
      BY DEF Sorted
    <3>1. i \in 1..n
      BY <1>1, <1>2
    <3>2. CASE j \in 1..n
      BY <1>1, <1>6, <3>1, <3>2 DEF Sound, Aged, Sorted, n
    <3>3. CASE j = n + 1
      BY <1>1, <1>4, <3>1, <3>3
    <3> QED
      BY <1>2, <3>2, <3>3
  <2>5. Waits(t) => \A i \in 1..Len(p) : t.age >= p[i].age
    <3> SUFFICES ASSUME Waits(t), NEW i \in 1..Len(p) PROVE t.age >= p[i].age
      OBVIOUS
    <3>1. t.age \in Nat
      BY <1>4 DEF Waits
    <3>2. CASE i \in 1..n
      BY <1>1, <1>6, <3>2 DEF Sound, Aged, n
    <3>3. CASE i = n + 1
      BY <1>1, <3>1, <3>3
    <3> QED
      BY <1>2, <3>2, <3>3
  <2>6. Taken(t) => Engaged(p, D2, t.key)
    BY <1>3, <1>6 DEF Sound
  <2> QED
    BY <1>3, <1>6, <2>1, <2>2, <2>3, <2>4, <2>5, <2>6 DEF Sound, Marked, Aged
<1>7. \A x : Counted(t, p, x) <=> Counted(t, q, x)
  BY <1>5 DEF Counted
<1> QED
  BY <1>3, <1>6, <1>7 DEF p

\* The record of an event.
LEMMA EventRecord ==
  ASSUME NEW k \in Keys \cup {None}, NEW b \in BOOLEAN
  PROVE  /\ Event(k, b) \in Record /\ Event(k, b).key = k /\ (Event(k, b).pressed <=> b)
         /\ Event(k, b).age = 0 /\ Event(k, b).count = 0
<1>1. 0 \in 0..(TimerMod - 1) /\ 0 \in 0..MaxTaps
  BY RecordTypes
<1> QED
  BY <1>1 DEF Event, Record

\* A call without an event.
LEMMA TickStep ==
  ASSUME IInv, NEW dt \in Gaps, Tick(dt)
  PROVE  IInv'
<1>0. Types
  BY TypesAreTypes DEF IInv
<1>1. /\ phase = "idle" /\ record' = TICK /\ Pass(dt) /\ hazards' = hazards \cup Wrapped(dt)
      /\ phase' = "process" /\ UNCHANGED <<down, source_layers_cache, on>>
  BY DEF Tick
<1>2. TICK \in Record /\ ~TICK.pressed /\ TICK.key = None /\ TICK.age = 0
  BY TickIsRecord
<1>3. /\ waiting_buffer' \in Seq(Record) /\ Len(waiting_buffer') = Len(waiting_buffer)
      /\ \A i \in 1..Len(waiting_buffer') : waiting_buffer'[i].key \in Keys
      /\ tapping_key' = None <=> tapping_key = None
      /\ tapping_key # None => tapping_key' \in Record /\ tapping_key'.key \in Keys
  BY <1>0, <1>1, PassTypes
<1>4. Types'
  <2>1. hazards' \subseteq {"recached", "overflow", "overtaking", "wrapped", "unscanned"}
    BY <1>0, <1>1 DEF Types, Wrapped
  <2>2. Good(source_layers_cache') /\ on' \subseteq Outputs /\ down' \subseteq Keys
    BY <1>0, <1>1 DEF Types
  <2>3. Len(waiting_buffer') < BufferSize
    BY <1>0, <1>3 DEF Types
  <2> QED
    BY <1>1, <1>2, <1>3, <2>1, <2>2, <2>3 DEF Types
<1>5. TypeOK' /\ Keyed'
  BY <1>4, TypesAreTypes, PTL
<1>6. Events' = waiting_buffer' /\ Events = waiting_buffer
  BY <1>1, <1>2 DEF Events
<1>7. ASSUME hazards' \subseteq {"recached"} PROVE Orderly'
  <2>1. Wrapped(dt) = {} /\ hazards \subseteq {"recached"}
    BY <1>1, <1>7 DEF Wrapped
  <2>2. Sound(tapping_key, waiting_buffer, down) /\ Scanned(tapping_key, waiting_buffer) /\ Queued
    BY <1>6, <2>1 DEF IInv, Orderly
  <2>3. Sound(tapping_key', waiting_buffer', down) /\ Scanned(tapping_key', waiting_buffer')
        /\ (Waits(tapping_key') <=> Waits(tapping_key))
    BY <1>0, <1>1, <2>1, <2>2, PassSound
  <2>4. waiting_buffer' # <<>> => waiting_buffer # <<>>
    BY <1>0, <1>3 DEF Types
  <2>5. Queued'
    BY <1>1, <1>2, <1>3, <2>2, <2>3, <2>4 DEF Queued
  <2> QED
    BY <1>1, <1>6, <2>3, <2>5 DEF Orderly
<1>8. ASSUME hazards' = {}
      PROVE  Owned(tapping_key', Events', down', source_layers_cache', on')
  <2>1. hazards = {}
    BY <1>1, <1>8
  <2>2. Owned(tapping_key, waiting_buffer, down, source_layers_cache, on)
    BY <1>6, <2>1 DEF IInv
  <2>3. /\ \A x : Engaged(waiting_buffer', down, x) <=> Engaged(waiting_buffer, down, x)
        /\ \A x : Counted(tapping_key', waiting_buffer', x)
                      <=> Counted(tapping_key, waiting_buffer, x)
        /\ Waits(tapping_key') <=> Waits(tapping_key)
        /\ Waits(tapping_key) => tapping_key'.key = tapping_key.key
    BY <1>0, <1>1, PassSound
  <2>4. Owned(tapping_key', waiting_buffer', down, source_layers_cache, on)
    BY <2>2, <2>3, OwnSame
  <2> QED
    BY <1>1, <1>6, <2>4
<1> QED
  BY <1>5, <1>7, <1>8 DEF IInv

\* A call with the press or the release of a key.
LEMMA KeyEventStep ==
  ASSUME IInv, NEW k \in Keys, NEW dt \in Gaps, KeyEvent(k, dt)
  PROVE  IInv'
<1> DEFINE t2 == tapping_key'
<1> DEFINE w2 == waiting_buffer'
<1> DEFINE r == record'
<1>0. Types
  BY TypesAreTypes DEF IInv
<1>1. /\ phase = "idle" /\ r = Event(k, k \notin down) /\ Pass(dt) /\ preprocess(k)
      /\ down' = IF k \in down THEN down \ {k} ELSE down \cup {k}
      /\ hazards' = hazards \cup Struck(k) \cup Wrapped(dt)
      /\ phase' = "process" /\ on' = on
  BY DEF KeyEvent
<1>2. /\ r \in Record /\ r.key = k /\ (r.pressed <=> k \notin down) /\ r.age = 0 /\ r.count = 0
      /\ None \notin Keys
  BY <1>1, EventRecord, TappingAssumption
<1>3. /\ w2 \in Seq(Record) /\ Len(w2) = Len(waiting_buffer)
      /\ \A i \in 1..Len(w2) : w2[i].key \in Keys
      /\ t2 = None <=> tapping_key = None
      /\ tapping_key # None => t2 \in Record /\ t2.key \in Keys
  BY <1>0, <1>1, PassTypes
<1>4. down \subseteq Keys /\ Good(source_layers_cache) /\ Len(waiting_buffer) < BufferSize
      /\ waiting_buffer \in Seq(Record) /\ on \subseteq Outputs
      /\ hazards \subseteq {"recached", "overflow", "overtaking", "wrapped", "unscanned"}
  BY <1>0 DEF Types
<1>5. Types'
  <2>1. hazards' \subseteq {"recached", "overflow", "overtaking", "wrapped", "unscanned"}
    BY <1>1, <1>4 DEF Wrapped, Struck
  <2>2. Good(source_layers_cache')
    BY <1>1, <1>4, LayerFound DEF preprocess, Good
  <2>3. down' \subseteq Keys
    BY <1>1, <1>4
  <2> QED
    BY <1>1, <1>2, <1>3, <1>4, <2>1, <2>2, <2>3 DEF Types
<1>6. TypeOK' /\ Keyed'
  BY <1>5, TypesAreTypes, PTL
<1>7. Events' = Append(w2, r) /\ Events = waiting_buffer
  BY <1>1, <1>2 DEF Events
<1> HIDE DEF t2, w2, r
<1>8. /\ Sound(t2, w2, down) => Sound(t2, Append(w2, r), down')
      /\ \A x : Engaged(Append(w2, r), down', x) <=> Engaged(w2, down, x)
      /\ \A x : Counted(t2, Append(w2, r), x) <=> Counted(t2, w2, x)
  <2>1. /\ k \in down' <=> k \notin down
        /\ \A x : x # k => (x \in down' <=> x \in down)
    BY <1>1
  <2> QED
    BY <1>2, <1>3, <2>1, SoundMore
<1>9. /\ \A x : Engaged(w2, down, x) <=> Engaged(waiting_buffer, down, x)
      /\ \A x : Counted(t2, w2, x) <=> Counted(tapping_key, waiting_buffer, x)
      /\ Waits(t2) <=> Waits(tapping_key)
      /\ Waits(tapping_key) => t2.key = tapping_key.key
      /\ Wrapped(dt) = {} /\ Sound(tapping_key, waiting_buffer, down) => Sound(t2, w2, down)
      /\ Wrapped(dt) = {} /\ Scanned(tapping_key, waiting_buffer) => Scanned(t2, w2)
  BY <1>0, <1>1, PassSound DEF t2, w2
<1>10. ASSUME hazards' \subseteq {"recached"} PROVE Orderly'
  <2>1. /\ Wrapped(dt) = {} /\ hazards \subseteq {"recached"}
        /\ ~(tapping_key = None /\ waiting_buffer # <<>>)
    BY <1>1, <1>10 DEF Wrapped, Struck
  <2>2. Sound(tapping_key, waiting_buffer, down) /\ Scanned(tapping_key, waiting_buffer) /\ Queued
    BY <1>7, <2>1 DEF IInv, Orderly
  <2>3. w2 # <<>> => waiting_buffer # <<>>
    BY <1>3, <1>4
  <2>4. w2 # <<>> => Waits(t2)
    BY <1>1, <1>9, <2>1, <2>2, <2>3 DEF Queued
  <2>5. Queued'
    BY <1>1, <1>2, <2>4 DEF Queued, t2, w2, r
  <2>6. Sound(t2, Append(w2, r), down') /\ Scanned(t2, w2)
    BY <1>8, <1>9, <2>1, <2>2
  <2> QED
    BY <1>7, <2>5, <2>6 DEF Orderly, t2, w2
<1>11. ASSUME hazards' = {}
       PROVE  Owned(tapping_key', Events', down', source_layers_cache', on')
  <2>1. hazards = {} /\ Struck(k) = {}
    BY <1>1, <1>11
  <2>2. Owned(tapping_key, waiting_buffer, down, source_layers_cache, on)
    BY <1>7, <2>1 DEF IInv
  <2>3. ASSUME NEW x \in Keys, Engaged(waiting_buffer, down, x)
        PROVE  source_layers_cache'[x] = source_layers_cache[x]
    <3>1. CASE x # k \/ k \in down
      BY <1>1, <1>4, <3>1 DEF preprocess, Good
    <3>2. CASE x = k /\ k \notin down
      <4>1. Pending(waiting_buffer, k)
        BY <2>3, <3>2, NoneDecides
      <4>2. \E i \in DOMAIN waiting_buffer : waiting_buffer[i].key = k
        BY <1>4, <4>1 DEF Pending
      <4>3. source_layers_cache[k] = SourceLayer(k)
        BY <2>1, <3>2, <4>2 DEF Struck
      <4> QED
        BY <1>1, <1>4, <3>2, <4>3 DEF preprocess, Good
    <3> QED
      BY <3>1, <3>2
  <2> DEFINE p == Append(w2, r)
  <2>4. ASSUME NEW x \in Keys, Engaged(waiting_buffer, down, x)
        PROVE  /\ Engaged(p, down', x)
               /\ Counted(t2, p, x) <=> Counted(tapping_key, waiting_buffer, x)
               /\ source_layers_cache'[x] = source_layers_cache[x]
               /\ Waits(t2) /\ t2.key = x => Waits(tapping_key) /\ tapping_key.key = x
    BY <1>8, <1>9, <2>3, <2>4
  <2> HIDE DEF p
  <2>5. Owned(t2, p, down', source_layers_cache', on)
    BY <2>2, <2>4, OwnSame
  <2> QED
    BY <1>1, <1>7, <2>5 DEF t2, p
<1> QED
  BY <1>6, <1>10, <1>11 DEF IInv

-----------------------------------------------------------------------------
(* The theorems.                                                            *)

\* The invariant holds at first,
LEMMA InitHolds == Init => IInv
<1> SUFFICES ASSUME Init PROVE IInv
  OBVIOUS
<1>1. /\ down = {} /\ tapping_key = None /\ waiting_buffer = <<>> /\ record = TICK
      /\ phase = "idle" /\ on = {} /\ hazards = {}
      /\ source_layers_cache = [k \in Keys |-> 0]
  BY DEF Init
<1>2. Good(source_layers_cache)
  <2>1. 0 \in Layers
    <3> DEFINE n == Cardinality(Layers)
    <3>0. IsFiniteSet(Layers)
      BY TappingAssumption
    <3>1. n \in Nat /\ Layers = 0..(n - 1) /\ Layers # {}
      BY <3>0, FS_CardinalityType, TappingAssumption
    <3> HIDE DEF n
    <3> QED
      BY <3>1
  <2> QED
    BY <1>1, <2>1, TappingAssumption DEF Good
<1>3. waiting_buffer \in Seq(Record) /\ Len(waiting_buffer) = 0
  BY <1>1
<1>4. Types
  <2>1. BufferSize \in Nat /\ BufferSize > 0
    BY RecordTypes
  <2> QED
    BY <1>1, <1>2, <1>3, <2>1, TickIsRecord DEF Types
<1>5. Sound(tapping_key, waiting_buffer, down)
  BY <1>1, <1>3 DEF Sound, Alternates, Taken, Waits, Marked, Marks, Aged, Sorted
<1>6. Scanned(tapping_key, waiting_buffer)
  BY <1>1 DEF Scanned, Waits
<1>7. Owned(tapping_key, waiting_buffer, down, source_layers_cache, on)
  BY <1>1 DEF Owned
<1>8. Behind
  BY <1>1, <1>5, <1>6, <1>7 DEF Behind
<1> QED
  BY <1>4, <1>8, BehindInv

\* every step keeps it,
LEMMA StepHolds == IInv /\ [Next]_vars => IInv'
<1> SUFFICES ASSUME IInv, [Next]_vars PROVE IInv'
  OBVIOUS
<1>1. ASSUME NEW k \in Keys, NEW dt \in Gaps, KeyEvent(k, dt) PROVE IInv'
  BY <1>1, KeyEventStep
<1>2. ASSUME NEW dt \in Gaps, Tick(dt) PROVE IInv'
  BY <1>2, TickStep
<1>3. ASSUME process_tapping PROVE Types' /\ Behind'
  <2>1. CASE FirstTap
    BY <2>1, FirstTapStep
  <2>2. CASE PermissiveHold
    <3>1. Pressed /\ tapping_key.count = 0 /\ Refuse(e, tapping_key, None) /\ UNCHANGED down
      BY <2>2 DEF PermissiveHold, Undecided
    <3> QED
      BY <3>1, HoldStep
  <2>3. CASE EarlierRelease
    BY <2>3, EarlierReleaseStep
  <2>4. CASE Wait
    BY <2>4, TheWaitStep
  <2>5. CASE TapRelease
    BY <2>5, TapReleaseStep
  <2>6. CASE NewTap
    BY <2>6, NewTapStep
  <2>7. CASE OtherDuringTap
    BY <2>7, OtherDuringTapStep
  <2>8. CASE HoldTimeout
    <3>1. Pressed /\ tapping_key.count = 0 /\ Refuse(e, tapping_key, None) /\ UNCHANGED down
      BY <2>8 DEF HoldTimeout
    <3> QED
      BY <3>1, HoldStep
  <2>9. CASE SequentialTap
    BY <2>9, SequentialTapStep
  <2>10. CASE RestartTap
    BY <2>10, RestartTapStep
  <2>11. CASE OtherTapAfter
    BY <2>11, OtherTapAfterStep
  <2>12. CASE OtherAfter
    BY <2>12, OtherAfterStep
  <2>13. CASE AfterTimeout
    BY <2>13, AfterTimeoutStep
  <2>14. CASE NoTap
    BY <2>14, NoTapStep
  <2>15. CASE Return
    BY <2>15, ReturnStep
  <2> QED
    BY <1>3, <2>1, <2>2, <2>3, <2>4, <2>5, <2>6, <2>7, <2>8, <2>9, <2>10, <2>11, <2>12, <2>13,
       <2>14, <2>15 DEF process_tapping
<1>4. ASSUME process_tapping PROVE IInv'
  BY <1>3, <1>4, BehindInv, PTL
<1>5. ASSUME UNCHANGED vars PROVE IInv'
  <2>1. Events' = Events
    BY <1>5 DEF vars, Events
  <2>2. TypeOK' /\ Keyed'
    BY <1>5 DEF vars, IInv, TypeOK, Keyed
  <2>3. (hazards \subseteq {"recached"} => Orderly)
    BY DEF IInv
  <2>4. Orderly => Orderly'
    BY <1>5, <2>1 DEF vars, Orderly, Queued
  <2> QED
    BY <1>5, <2>1, <2>2, <2>3, <2>4 DEF vars, IInv
<1> QED
  BY <1>1, <1>2, <1>4, <1>5 DEF Next

\* so it holds.
LEMMA Holds == Spec => []IInv
BY InitHolds, StepHolds, PTL DEF Spec

\* All values stay in their ranges: at most BufferSize - 1 events wait.
THEOREM TappingTypes == Spec => []TypeOK
<1>1. IInv => TypeOK
  BY DEF IInv
<1> QED
  BY <1>1, Holds, PTL

\* For every keymap and however keys are tapped, held and rolled over, nothing is left
\* on at rest unless a hazard has struck (action_exec, process_tapping, process_action).
THEOREM NothingIsStuck == Spec => []NothingStuck
<1>1. IInv => NothingStuck
  <2> SUFFICES ASSUME IInv, Rest, hazards = {}, NEW x \in on PROVE FALSE
    BY DEF NothingStuck
  <2>1. Owned(tapping_key, waiting_buffer, down, source_layers_cache, on)
    BY DEF IInv, Rest, Events
  <2>2. PICK k \in Keys : Engaged(waiting_buffer, down, k)
    BY <2>1 DEF Owned
  <2>3. ~Pending(waiting_buffer, k)
    BY DEF Rest, Pending
  <2> QED
    BY <2>2, <2>3, NoneDecides DEF Rest
<1> QED
  BY <1>1, Holds, PTL

\* What went wrong is not forgotten.
LEMMA HazardsStay ==
  ASSUME process_tapping
  PROVE  hazards \subseteq hazards'
<1>1. CASE FirstTap \/ PermissiveHold \/ Wait \/ HoldTimeout \/ AfterTimeout
  BY <1>1 DEF FirstTap, PermissiveHold, Wait, HoldTimeout, AfterTimeout, Refuse
<1>2. CASE EarlierRelease
  BY <1>2 DEF EarlierRelease, Refuse, Done
<1>3. CASE TapRelease \/ OtherDuringTap \/ SequentialTap \/ OtherAfter
  BY <1>3 DEF TapRelease, OtherDuringTap, SequentialTap, OtherAfter, Done
<1>4. CASE NewTap \/ OtherTapAfter \/ NoTap
  BY <1>4 DEF NewTap, OtherTapAfter, NoTap, StartTap, Done
<1>5. CASE RestartTap \/ Return
  BY <1>5 DEF RestartTap, Return
<1> QED
  BY <1>1, <1>2, <1>3, <1>4, <1>5 DEF process_tapping

\* No press overtakes a press that waits (waiting_buffer_enq and the loop of
\* action_tapping_process), but after a hazard.
THEOREM PressesInOrder == Spec => InOrder
<1> DEFINE Kept == Acted /\ record.pressed /\ hazards' \subseteq {"recached"}
                     => \A i \in DOMAIN waiting_buffer : ~waiting_buffer[i].pressed
<1>1. IInv /\ [Next]_vars => [Kept]_vars
  <2> SUFFICES ASSUME IInv, Next, Acted, record.pressed, hazards' \subseteq {"recached"}
               PROVE  waiting_buffer = <<>>
    OBVIOUS
  <2>1. Types
    BY TypesAreTypes DEF IInv
  <2>2. phase = "process" /\ phase' = "drain" /\ Len(waiting_buffer') <= Len(waiting_buffer)
    BY DEF Acted
  <2>3. process_tapping
    BY <2>2 DEF Next, KeyEvent, Tick
  <2>4. Active /\ e = record /\ e \in Record /\ e.key \in Keys /\ e.pressed /\ None \notin Keys
    BY <2>1, <2>2, EventTypes DEF Active, e
  <2>5. hazards \subseteq {"recached"} /\ Orderly
    BY <2>3, HazardsStay DEF IInv
  <2>6. CASE ~Waits(tapping_key)
    BY <2>1, <2>2, <2>4, <2>5, <2>6, QueueEmpty
  <2>7. CASE Waits(tapping_key)
    <3>1. \E p, t : Refuse(e, p, t)
      <4>1. tapping_key # None /\ tapping_key.pressed /\ tapping_key.count = 0
        BY <2>7 DEF Waits
      <4>2. CASE Wait
        BY <4>2 DEF Wait
      <4>3. CASE HoldTimeout
        BY <4>3 DEF HoldTimeout
      <4>4. ~(FirstTap \/ PermissiveHold \/ EarlierRelease)
        BY <2>4 DEF FirstTap, PermissiveHold, EarlierRelease, ReleasesTap, IsRelease
      <4>5. ~(TapRelease \/ NewTap \/ OtherDuringTap)
        BY <4>1 DEF TapRelease, NewTap, OtherDuringTap, Tapped
      <4>6. ~(SequentialTap \/ RestartTap \/ OtherTapAfter \/ OtherAfter \/ AfterTimeout)
        BY <4>1 DEF SequentialTap, RestartTap, Again, OtherTapAfter, OtherAfter, AfterTimeout,
                    Released
      <4>7. ~NoTap /\ ~Return
        BY <2>2, <4>1 DEF NoTap, Return
      <4> QED
        BY <2>3, <4>2, <4>3, <4>4, <4>5, <4>6, <4>7 DEF process_tapping
    <3>2. PICK p, t : Refuse(e, p, t)
      BY <3>1
    <3>3. e.key # None
      BY <2>4
    <3>4. Len(waiting_buffer') = Len(waiting_buffer) + 1
      BY <2>1, <2>2, <2>4, <3>2, <3>3, RefuseKeeps
    <3>5. Len(waiting_buffer) \in Nat
      BY <2>1 DEF Types
    <3> QED
      BY <2>2, <3>4, <3>5
  <2> QED
    BY <2>6, <2>7
<1>2. Spec => [][Kept]_vars
  BY <1>1, Holds, PTL DEF Spec
<1> QED
  BY <1>2 DEF InOrder
=============================================================================
