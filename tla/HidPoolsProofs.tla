--------------------------- MODULE HidPoolsProofs ---------------------------
(***************************************************************************)
(* Proofs about the pools of the report descriptor parser, for any size of *)
(* the pools and any descriptors.  Lists are followed link by link, but the *)
(* invariant is local: no entry has two pointers to it, so a list ends and *)
(* shares no entry with another.  While nothing has spoiled the pools every *)
(* entry in use is on a list, or on the one that is being built.           *)
(***************************************************************************)
EXTENDS HidPools, TLAPS, FiniteSetTheorems, WellFoundedInduction

-----------------------------------------------------------------------------
(* Lists: the links of a pool, and the heads H that point into it.          *)

IsPool(pool, N) ==
  N \in Nat /\ DOMAIN pool = 1..N /\ \A x \in 1..N : pool[x].next \in 0..N

\* No entry is linked to twice, nor is the entry from.
Unshared(pool, from) ==
  /\ \A x, y \in DOMAIN pool : x # y /\ pool[x].next = pool[y].next => pool[x].next = NULL
  /\ \A x \in DOMAIN pool : pool[x].next = from => from = NULL

\* Nor is a head, and heads differ.
Linked(pool, H) ==
  /\ \A a \in DOMAIN H : Unshared(pool, H[a])
  /\ \A a, b \in DOMAIN H : a # b /\ H[a] = H[b] => H[a] = NULL

\* A head or a link points to x.
Pointed(pool, H, x) == (\E a \in DOMAIN H : H[a] = x) \/ (\E y \in DOMAIN pool : pool[y].next = x)

First == [s \in Devices |-> devices[s].id_collection]
Start == [c \in Collections |-> collections[c].report_def_start]

-----------------------------------------------------------------------------
(* The inductive invariants.                                                *)

\* What has a pointer is in use, and not what is being built.
Chained ==
  /\ Linked(collections, First) /\ Linked(members, Start)
  /\ \A c \in Collections : Pointed(collections, First, c) =>
           Start[c] # NULL /\ c # parse.current_collection
  /\ \A m \in Members : Pointed(members, Start, m) => members[m].used

\* The compression stands at a base on a device's list, before the next entry.
AtBase ==
  /\ parse.pc = "compress" => /\ \E s \in Devices : parse.base \in Attached(s)
                              /\ collections[parse.base].next = parse.collection
  /\ parse.pc # "parse" => parse.current_collection = NULL /\ parse.current_member = NULL
  /\ parse.current_member # NULL => members[parse.current_member].used

PoolInv == TypeOK /\ Chained /\ AtBase

\* The items left of a parse end what is begun.
Nested(items, level) == \E f \in [0..Len(items) -> Nat] : Nesting(items, level, f)

\* Inside of a collection there is one to build, and its last member is known.
Building ==
  /\ parse.current_collection = NULL <=> parse.level = 0
  /\ parse.current_collection = NULL => parse.current_member = NULL
  /\ parse.current_collection # NULL =>
       IF parse.current_member = NULL THEN Start[parse.current_collection] = NULL
       ELSE /\ parse.current_member \in MembersOf(parse.current_collection)
            /\ members[parse.current_member].next = NULL

Kept ==
  /\ \A c \in Collections : Start[c] # NULL =>
        c = parse.current_collection \/ \E s \in Devices : c \in Attached(s)
  /\ \A m \in Members : members[m].used => \E c \in Collections : m \in MembersOf(c)

Whole ==
  /\ Kept
  /\ parse.pc \in {"take", "parse"} => Nested(parse.items, parse.level) /\ Building

LeakInv == PoolInv /\ (~spoiled => Whole)

-----------------------------------------------------------------------------
(* Following the links of a pool.                                           *)

\* A set of naturals that is not empty has a least element.
LEMMA Least == ASSUME NEW S, S \subseteq Nat, S # {} PROVE \E x \in S : \A y \in S : x <= y
<1>1. PICK x \in S : \A y \in S : <<y, x>> \notin OpToRel(<, Nat)
  BY NatLessThanWellFounded, WFMin
<1>2. \A y \in S : ~ (y < x)
  BY <1>1, Zenon DEF OpToRel
<1> QED
  BY <1>2

\* The recursive function of Walk exists.
LEMMA WalkIs ==
  ASSUME NEW pool, NEW N, IsPool(pool, N), NEW from \in 0..N
  PROVE  LET at == Walk(pool, from) IN
         /\ at \in [0..N -> 0..N] /\ at[0] = from
         /\ \A k \in 1..N : at[k] = IF at[k - 1] = NULL THEN NULL ELSE pool[at[k - 1]].next
<1> DEFINE After(f, k) == IF k = 0 THEN from
                          ELSE IF f[k - 1] = NULL THEN NULL ELSE pool[f[k - 1]].next
<1> DEFINE Is(f, n) == f = [k \in 0..n |-> After(f, k)]
<1> DEFINE Bad == {n \in 0..N : ~ \E f : Is(f, n)}
<1>0. N \in Nat /\ {NULL} \cup DOMAIN pool = 0..N
  BY DEF IsPool, NULL
<1>1. Bad = {}
  <2> SUFFICES ASSUME Bad # {} PROVE FALSE
    OBVIOUS
  <2>1. PICK n \in Bad : \A y \in Bad : n <= y
    <3>1. Bad \subseteq Nat
      BY <1>0
    <3> HIDE DEF Bad
    <3> QED
      BY <3>1, Least
  <2>2. n # 0
    <3>1. Is([k \in 0..0 |-> from], 0)
      OBVIOUS
    <3> QED
      BY <3>1
  <2>3. n \in 0..N /\ n - 1 \in 0..N /\ n - 1 < n
    BY <1>0, <2>2
  <2>4. n - 1 \notin Bad
    BY <2>1, <2>3
  <2>5. PICK f : Is(f, n - 1)
    BY <2>3, <2>4
  <2> DEFINE x == IF f[n - 1] = NULL THEN NULL ELSE pool[f[n - 1]].next
  <2> DEFINE g == [k \in 0..n |-> IF k < n THEN f[k] ELSE x]
  <2>6. ASSUME NEW k \in 0..n PROVE g[k] = After(g, k)
    <3>1. CASE k = 0
      <4>1. 0 \in 0..(n - 1) /\ k < n
        BY <2>2, <2>3, <3>1
      <4>2. f[0] = from
        BY <2>5, <4>1
      <4> QED
        BY <3>1, <4>1, <4>2
    <3>2. CASE k # 0 /\ k < n
      <4>1. k \in 0..(n - 1) /\ k - 1 \in 0..n /\ k - 1 < n
        BY <2>3, <3>2
      <4>2. f[k] = IF f[k - 1] = NULL THEN NULL ELSE pool[f[k - 1]].next
        BY <2>5, <3>2, <4>1
      <4>3. g[k] = f[k] /\ g[k - 1] = f[k - 1]
        BY <3>2, <4>1
      <4> QED
        BY <3>2, <4>2, <4>3
    <3>3. CASE k # 0 /\ k = n
      <4>1. n - 1 \in 0..n /\ n - 1 < n /\ ~ (n < n)
        BY <2>3, <3>3
      <4>2. g[n - 1] = f[n - 1] /\ g[n] = x
        BY <3>3, <4>1
      <4> QED
        BY <3>3, <4>2
    <3> QED
      BY <2>3, <3>1, <3>2, <3>3
  <2>7. g = [k \in 0..n |-> g[k]]
    OBVIOUS
  <2> HIDE DEF g
  <2>8. Is(g, n)
    BY <2>6, <2>7
  <2> QED
    BY <2>1, <2>8
<1>2. PICK f : Is(f, N)
  BY <1>0, <1>1
<1> DEFINE at == CHOOSE a : a = [k \in 0..N |-> After(a, k)]
<1>3. at = [k \in 0..N |-> After(at, k)]
  <2> HIDE DEF After
  <2> QED
    BY <1>2
<1>4. Walk(pool, from) = at
  BY <1>0 DEF Walk
<1> HIDE DEF at
<1>5. /\ at[0] = from /\ DOMAIN at = 0..N
      /\ \A k \in 1..N : at[k] = IF at[k - 1] = NULL THEN NULL ELSE pool[at[k - 1]].next
  <2>1. 0 \in 0..N /\ \A k \in 1..N : k \in 0..N /\ k # 0
    BY <1>0
  <2> QED
    BY <1>3, <2>1
<1> DEFINE Off == {k \in 0..N : at[k] \notin 0..N}
<1>6. Off = {}
  <2> SUFFICES ASSUME Off # {} PROVE FALSE
    OBVIOUS
  <2>1. PICK k \in Off : \A y \in Off : k <= y
    <3>1. Off \subseteq Nat
      BY <1>0
    <3> HIDE DEF Off
    <3> QED
      BY <3>1, Least
  <2>2. k \in 1..N /\ k - 1 \in 0..N /\ k - 1 < k
    BY <1>0, <1>5, <2>1
  <2>3. at[k - 1] \in 0..N
    BY <2>1, <2>2
  <2>4. at[k] \in 0..N
    BY <1>0, <1>5, <2>2, <2>3 DEF IsPool, NULL
  <2> QED
    BY <2>1, <2>4
<1>7. at \in [0..N -> 0..N]
  <2>1. at = [k \in 0..N |-> at[k]]
    BY <1>3
  <2> QED
    BY <1>6, <2>1
<1> QED
  BY <1>4, <1>5, <1>7

\* The entries of a list: its head, and what they link to.
LEMMA EntriesAre ==
  ASSUME NEW pool, NEW N, IsPool(pool, N), NEW from \in 0..N
  PROVE  /\ Entries(pool, from) \subseteq 1..N
         /\ from # NULL => from \in Entries(pool, from)
         /\ \A x \in Entries(pool, from) :
               x = from \/ \E y \in Entries(pool, from) : pool[y].next = x
<1> DEFINE at == Walk(pool, from)
<1>1. /\ at \in [0..N -> 0..N] /\ at[0] = from
      /\ \A k \in 1..N : at[k] = IF at[k - 1] = NULL THEN NULL ELSE pool[at[k - 1]].next
  BY WalkIs
<1>2. N \in Nat /\ {NULL} \cup DOMAIN pool = 0..N
  BY DEF IsPool, NULL
<1>3. Entries(pool, from) = {at[k] : k \in 0..N} \ {NULL}
  BY <1>2 DEF Entries
<1> HIDE DEF at
<1>4. Entries(pool, from) \subseteq 1..N
  BY <1>1, <1>2, <1>3 DEF NULL
<1>5. from # NULL => from \in Entries(pool, from)
  <2>1. 0 \in 0..N
    BY <1>2
  <2> QED
    BY <1>1, <1>3, <2>1
<1>6. ASSUME NEW x \in Entries(pool, from), x # from
      PROVE  \E y \in Entries(pool, from) : pool[y].next = x
  <2>1. PICK k \in 0..N : x = at[k] /\ x # NULL
    BY <1>3
  <2>2. k \in 1..N /\ k - 1 \in 0..N
    BY <1>1, <1>2, <1>6, <2>1
  <2>3. at[k - 1] # NULL /\ pool[at[k - 1]].next = x
    BY <1>1, <2>1, <2>2
  <2> QED
    BY <1>3, <2>2, <2>3
<1> QED
  BY <1>4, <1>5, <1>6

\* They are in every set that has the head and is closed under the links.
LEMMA EntriesLeast ==
  ASSUME NEW pool, NEW N, IsPool(pool, N), NEW from \in 0..N,
         NEW X, from \in X \/ from = NULL,
         \A x \in X : x \in 1..N /\ pool[x].next # NULL => pool[x].next \in X
  PROVE  Entries(pool, from) \subseteq X
<1> DEFINE at == Walk(pool, from)
<1>1. /\ at \in [0..N -> 0..N] /\ at[0] = from
      /\ \A k \in 1..N : at[k] = IF at[k - 1] = NULL THEN NULL ELSE pool[at[k - 1]].next
  BY WalkIs
<1>2. N \in Nat /\ {NULL} \cup DOMAIN pool = 0..N
  BY DEF IsPool, NULL
<1>3. Entries(pool, from) = {at[k] : k \in 0..N} \ {NULL}
  BY <1>2 DEF Entries
<1> HIDE DEF at
<1> DEFINE Out == {k \in 0..N : at[k] # NULL /\ at[k] \notin X}
<1>4. Out = {}
  <2> SUFFICES ASSUME Out # {} PROVE FALSE
    OBVIOUS
  <2>1. PICK k \in Out : \A y \in Out : k <= y
    <3>1. Out \subseteq Nat
      BY <1>2
    <3> HIDE DEF Out
    <3> QED
      BY <3>1, Least
  <2>2. k \in 1..N /\ k - 1 \in 0..N /\ k - 1 < k
    BY <1>1, <1>2, <2>1
  <2>3. at[k - 1] # NULL /\ pool[at[k - 1]].next = at[k]
    BY <1>1, <2>1, <2>2
  <2>4. at[k - 1] \in X
    BY <2>1, <2>2, <2>3
  <2>5. at[k - 1] \in 1..N
    BY <1>1, <1>2, <2>2, <2>3 DEF NULL
  <2> QED
    BY <2>1, <2>3, <2>4, <2>5
<1> QED
  BY <1>3, <1>4

\* A list no entry of which is linked to twice ends.
LEMMA ListEnds ==
  ASSUME NEW pool, NEW N, IsPool(pool, N), NEW from \in 0..N, Unshared(pool, from)
  PROVE  /\ Ends(pool, from)
         /\ \A x \in Entries(pool, from) :
               pool[x].next # NULL => pool[x].next \in Entries(pool, from)
         /\ from # NULL => \E x \in Entries(pool, from) : pool[x].next = NULL
<1> DEFINE at == Walk(pool, from)
<1>1. /\ at \in [0..N -> 0..N] /\ at[0] = from
      /\ \A k \in 1..N : at[k] = IF at[k - 1] = NULL THEN NULL ELSE pool[at[k - 1]].next
  BY WalkIs
<1>2. N \in Nat /\ {NULL} \cup DOMAIN pool = 0..N /\ DOMAIN pool = 1..N
  BY DEF IsPool, NULL
<1>3. Entries(pool, from) = {at[k] : k \in 0..N} \ {NULL}
  BY <1>2 DEF Entries
<1>4. Ends(pool, from) <=> \E k \in 0..N : at[k] = NULL
  BY <1>2 DEF Ends
<1> HIDE DEF at
<1>5. \E k \in 0..N : at[k] = NULL
  <2> SUFFICES ASSUME \A k \in 0..N : at[k] # NULL PROVE FALSE
    OBVIOUS
  <2>1. \A k \in 1..N : at[k - 1] \in 1..N /\ at[k] = pool[at[k - 1]].next
    <3> TAKE k \in 1..N
    <3>1. k \in 0..N /\ k - 1 \in 0..N
      BY <1>2
    <3> QED
      BY <1>1, <1>2, <3>1 DEF NULL
  <2>2. at \in [0..N -> 1..N]
    <3>1. \A k \in 0..N : at[k] \in 1..N
      BY <1>1, <1>2 DEF NULL
    <3> QED
      BY <1>1, <3>1
  <2>3. PICK i, j \in 0..N : i # j /\ at[i] = at[j]
    <3>1. IsFiniteSet(0..N) /\ IsFiniteSet(1..N) /\ Cardinality(1..N) < Cardinality(0..N)
      <4>1. Cardinality(0..N) = N + 1 /\ IsFiniteSet(0..N)
        BY <1>2, FS_Interval
      <4>2. Cardinality(1..N) = N /\ IsFiniteSet(1..N)
        BY <1>2, FS_Interval
      <4> QED
        BY <1>2, <4>1, <4>2
    <3> QED
      BY <2>2, <3>1, FS_PigeonHole, Zenon
  <2> DEFINE Twice == {k \in 0..N : \E h \in 0..N : h < k /\ at[h] = at[k]}
  <2>4. PICK k \in Twice : \A y \in Twice : k <= y
    <3>1. Twice \subseteq Nat
      BY <1>2
    <3>2. i \in Twice \/ j \in Twice
      BY <1>2, <2>3
    <3> HIDE DEF Twice
    <3> QED
      BY <3>1, <3>2, Least
  <2>5. PICK h \in 0..N : h < k /\ at[h] = at[k]
    BY <2>4
  <2>6. k \in 1..N /\ k - 1 \in 0..N /\ k - 1 < k
    BY <1>2, <2>4, <2>5
  <2>7. CASE h = 0
    <3>1. at[k - 1] \in 1..N /\ pool[at[k - 1]].next = from /\ from # NULL
      BY <1>1, <1>2, <2>1, <2>2, <2>5, <2>6, <2>7
    <3> QED
      BY <1>2, <3>1 DEF Unshared
  <2>8. CASE h # 0
    <3>1. h \in 1..N /\ h - 1 \in 0..N /\ h - 1 < k - 1
      BY <1>2, <2>5, <2>6, <2>8
    <3>2. at[h - 1] = at[k - 1]
      <4>1. at[h - 1] \in 1..N /\ at[h] = pool[at[h - 1]].next
        BY <2>1, <3>1
      <4>2. at[k - 1] \in 1..N /\ at[k] = pool[at[k - 1]].next
        BY <2>1, <2>6
      <4>3. at[k] # NULL
        BY <2>2, <1>2 DEF NULL
      <4>4. \A x, y \in 1..N : x # y /\ pool[x].next = pool[y].next => pool[x].next = NULL
        BY <1>2 DEF Unshared
      <4> HIDE DEF Twice
      <4> QED
        BY <2>5, <4>1, <4>2, <4>3, <4>4
    <3>3. k - 1 \in Twice
      BY <2>6, <3>1, <3>2
    <3> QED
      BY <2>4, <2>6, <3>3, <1>2
  <2> QED
    BY <2>7, <2>8
<1>6. PICK k \in 0..N : at[k] = NULL /\ \A y \in 0..N : at[y] = NULL => k <= y
  <2> DEFINE Nulls == {y \in 0..N : at[y] = NULL}
  <2>1. PICK y \in Nulls : \A z \in Nulls : y <= z
    <3>1. Nulls \subseteq Nat /\ Nulls # {}
      BY <1>2, <1>5
    <3> HIDE DEF Nulls
    <3> QED
      BY <3>1, Least
  <2> QED
    BY <2>1
<1>7. ASSUME NEW x \in Entries(pool, from), pool[x].next # NULL
      PROVE  pool[x].next \in Entries(pool, from)
  <2> DEFINE Steps == {y \in 0..N : at[y] = x}
  <2>1. PICK y \in 0..N : at[y] = x /\ x # NULL
    BY <1>3
  <2>2. y < N \/ y = N
    BY <1>2
  <2>3. CASE y < N
    <3>1. y + 1 \in 1..N /\ y + 1 \in 0..N /\ (y + 1) - 1 = y
      BY <1>2, <2>1, <2>3
    <3>2. at[y + 1] = pool[x].next
      BY <1>1, <2>1, <3>1
    <3> QED
      BY <1>3, <1>7, <3>1, <3>2
  <2>4. CASE y = N
    \* The walk is over before its last step.
    <3>1. \A z \in 0..N : z >= k => at[z] = NULL
      <4> DEFINE Again == {z \in 0..N : z >= k /\ at[z] # NULL}
      <4>1. Again = {}
        <5> SUFFICES ASSUME Again # {} PROVE FALSE
          OBVIOUS
        <5>1. PICK z \in Again : \A w \in Again : z <= w
          <6>1. Again \subseteq Nat
            BY <1>2
          <6> HIDE DEF Again
          <6> QED
            BY <6>1, Least
        <5>2. z # k /\ z \in 1..N /\ z - 1 \in 0..N /\ z - 1 >= k /\ z - 1 < z
          BY <1>2, <1>6, <5>1
        <5>3. at[z - 1] = NULL
          BY <5>1, <5>2, <1>2
        <5> QED
          BY <1>1, <5>1, <5>2, <5>3
      <4> QED
        BY <4>1
    <3> QED
      BY <1>2, <1>6, <2>1, <2>4, <3>1
  <2> QED
    BY <2>2, <2>3, <2>4
<1>8. ASSUME from # NULL PROVE \E x \in Entries(pool, from) : pool[x].next = NULL
  <2>1. k \in 1..N /\ k - 1 \in 0..N /\ k - 1 < k
    BY <1>1, <1>2, <1>6, <1>8
  <2>2. at[k - 1] # NULL
    BY <1>2, <1>6, <2>1
  <2>3. at[k] = pool[at[k - 1]].next
    BY <1>1, <2>1, <2>2
  <2> QED
    BY <1>3, <1>6, <2>1, <2>2, <2>3
<1> QED
  BY <1>4, <1>5, <1>7, <1>8

\* The list of nothing is empty.
LEMMA NoEntries ==
  ASSUME NEW pool, NEW N, IsPool(pool, N) PROVE Entries(pool, NULL) = {}
<1>1. NULL \in 0..N
  BY DEF IsPool, NULL
<1>2. PICK X : X = {}
  OBVIOUS
<1>3. \A x \in X : x \in 1..N /\ pool[x].next # NULL => pool[x].next \in X
  BY <1>2
<1>4. Entries(pool, NULL) \subseteq X
  BY <1>1, <1>3, EntriesLeast
<1> QED
  BY <1>2, <1>4

\* A list does not change with the links of entries that are not on it.
LEMMA SameEntries ==
  ASSUME NEW p, NEW q, NEW N, IsPool(p, N), IsPool(q, N), NEW from \in 0..N,
         Unshared(p, from), Unshared(q, from),
         \A x \in Entries(p, from) : q[x].next = p[x].next
  PROVE  Entries(q, from) = Entries(p, from)
<1>1. Entries(p, from) \subseteq 1..N /\ (from # NULL => from \in Entries(p, from))
  BY EntriesAre
<1>2. \A x \in Entries(p, from) : p[x].next # NULL => p[x].next \in Entries(p, from)
  BY ListEnds
<1>3. Entries(q, from) \subseteq Entries(p, from)
  <2>1. \A x \in Entries(p, from) : q[x].next # NULL => q[x].next \in Entries(p, from)
    BY <1>2
  <2> DEFINE X == Entries(p, from)
  <2>2. /\ (from \in X \/ from = NULL)
        /\ \A x \in X : x \in 1..N /\ q[x].next # NULL => q[x].next \in X
    BY <1>1, <2>1
  <2> HIDE DEF X
  <2>3. Entries(q, from) \subseteq X
    BY <2>2, EntriesLeast
  <2> QED
    BY <2>3 DEF X
<1>4. from # NULL => from \in Entries(q, from)
  BY EntriesAre
<1>5. \A x \in Entries(q, from) : q[x].next # NULL => q[x].next \in Entries(q, from)
  BY ListEnds
<1>6. Entries(p, from) \subseteq Entries(q, from)
  <2> DEFINE X == Entries(q, from)
  <2>2. /\ (from \in X \/ from = NULL)
        /\ \A x \in X : x \in 1..N /\ p[x].next # NULL => p[x].next \in X
    BY <1>3, <1>4, <1>5
  <2> HIDE DEF X
  <2>3. Entries(p, from) \subseteq X
    BY <2>2, EntriesLeast
  <2> QED
    BY <2>3 DEF X
<1> QED
  BY <1>3, <1>6

\* Two lists share no entry.
LEMMA ListsDisjoint ==
  ASSUME NEW pool, NEW N, IsPool(pool, N), NEW a \in 0..N, NEW b \in 0..N,
         Unshared(pool, a), Unshared(pool, b), a # b \/ a = NULL
  PROVE  Entries(pool, a) \cap Entries(pool, b) = {}
<1>1. CASE a = NULL
  BY <1>1, NoEntries
<1>2. CASE a # NULL
  <2> DEFINE X == Entries(pool, a) \ Entries(pool, b)
  <2>1. DOMAIN pool = 1..N
    BY DEF IsPool
  <2>2. /\ Entries(pool, a) \subseteq 1..N /\ Entries(pool, b) \subseteq 1..N
        /\ a \in Entries(pool, a)
        /\ \A x \in Entries(pool, b) : x = b \/ \E y \in Entries(pool, b) : pool[y].next = x
    BY <1>2, EntriesAre
  <2>3. \A x \in Entries(pool, a) : pool[x].next # NULL => pool[x].next \in Entries(pool, a)
    BY ListEnds
  <2>4. a \in X
    BY <1>2, <2>1, <2>2 DEF Unshared
  <2>5. ASSUME NEW x \in X, pool[x].next # NULL PROVE pool[x].next \in X
    <3>1. SUFFICES ASSUME pool[x].next \in Entries(pool, b) PROVE FALSE
      BY <2>3, <2>5
    <3>2. pool[x].next # b
      BY <2>1, <2>2, <2>5 DEF Unshared
    <3>3. PICK y \in Entries(pool, b) : pool[y].next = pool[x].next
      BY <2>2, <3>1, <3>2
    <3>4. y = x
      BY <2>1, <2>2, <2>5, <3>3 DEF Unshared
    <3> QED
      BY <3>3, <3>4
  <2>6. \A x \in X : x \in 1..N
    BY <2>2
  <2>7. X \cap Entries(pool, b) = {}
    OBVIOUS
  <2> HIDE DEF X
  <2>8. Entries(pool, a) \subseteq X
    BY <2>4, <2>5, <2>6, EntriesLeast
  <2> QED
    BY <2>7, <2>8
<1> QED
  BY <1>1, <1>2

\* Where there are fewer pointers no entry is shared.
LEMMA FewerPointers ==
  ASSUME NEW p, NEW q, NEW H, NEW G, Linked(p, H), DOMAIN q = DOMAIN p, DOMAIN G = DOMAIN H,
         \A x \in DOMAIN p : q[x].next \in {NULL, p[x].next},
         \A a \in DOMAIN H : G[a] \in {NULL, H[a]}
  PROVE  Linked(q, G) /\ \A x : x # NULL /\ Pointed(q, G, x) => Pointed(p, H, x)
<1>1. ASSUME NEW a \in DOMAIN G PROVE Unshared(q, G[a])
  <2>1. Unshared(p, H[a])
    BY DEF Linked
  <2> QED
    BY <2>1 DEF Unshared
<1>2. \A a, b \in DOMAIN G : a # b /\ G[a] = G[b] => G[a] = NULL
  BY DEF Linked
<1>3. \A x : x # NULL /\ Pointed(q, G, x) => Pointed(p, H, x)
  BY DEF Pointed
<1> QED
  BY <1>1, <1>2, <1>3 DEF Linked

\* Freeing whole lists leaves no pointer to what was freed.
LEMMA FreedUnpointed ==
  ASSUME NEW p, NEW N, IsPool(p, N), NEW q, NEW H, NEW G, Linked(p, H),
         DOMAIN q = DOMAIN p, DOMAIN G = DOMAIN H,
         \A a \in DOMAIN H : H[a] \in 0..N,
         \A x \in DOMAIN p : q[x].next \in {NULL, p[x].next},
         \A a \in DOMAIN H : G[a] \in {NULL, H[a]},
         NEW F \in SUBSET DOMAIN H, \A a \in F : G[a] = NULL,
         \A a \in F : \A x \in Entries(p, H[a]) : q[x].next = NULL
  PROVE  \A a \in F : \A x \in Entries(p, H[a]) : ~Pointed(q, G, x)
<1> SUFFICES ASSUME NEW a \in F, NEW x \in Entries(p, H[a]), Pointed(q, G, x)
             PROVE  FALSE
  OBVIOUS
<1>1. /\ Entries(p, H[a]) \subseteq 1..N
      /\ x = H[a] \/ \E y \in Entries(p, H[a]) : p[y].next = x
  BY EntriesAre
<1>2. DOMAIN p = 1..N /\ N \in Nat /\ x # NULL
  BY <1>1 DEF IsPool, NULL
<1>3. CASE \E b \in DOMAIN G : G[b] = x
  <2>1. PICK b \in DOMAIN H : G[b] = x /\ H[b] = x /\ b # a
    BY <1>2, <1>3
  <2> QED
    BY <1>1, <1>2, <2>1 DEF Linked, Unshared
<1>4. CASE \E y \in DOMAIN q : q[y].next = x
  <2>1. PICK y \in DOMAIN p : q[y].next = x /\ p[y].next = x /\ y \notin Entries(p, H[a])
    BY <1>2, <1>4
  <2>2. x # H[a]
    BY <1>2, <2>1 DEF Linked, Unshared
  <2>3. PICK z \in Entries(p, H[a]) : p[z].next = x
    BY <1>1, <2>2
  <2>4. z # y /\ z \in DOMAIN p
    BY <1>1, <1>2, <2>1, <2>3
  <2>5. Unshared(p, H[a])
    BY DEF Linked
  <2> QED
    BY <1>2, <2>1, <2>3, <2>4, <2>5 DEF Unshared
<1> QED
  BY <1>3, <1>4 DEF Pointed

\* What is on a list has a pointer to it.
LEMMA EntryPointed ==
  ASSUME NEW p, NEW N, IsPool(p, N), NEW H, NEW a \in DOMAIN H, H[a] \in 0..N,
         NEW x \in Entries(p, H[a])
  PROVE  x \in 1..N /\ Pointed(p, H, x)
<1>1. /\ Entries(p, H[a]) \subseteq 1..N
      /\ x = H[a] \/ \E y \in Entries(p, H[a]) : p[y].next = x
  BY EntriesAre
<1> QED
  BY <1>1 DEF Pointed, IsPool

\* The first of a set of entries, if it has one.
LEMMA FirstIs ==
  ASSUME NEW S, S \subseteq Nat \ {0}
  PROVE  FirstOrNull(S) \in S \cup {NULL} /\ (FirstOrNull(S) = NULL <=> S = {})
<1>1. CASE S = {}
  BY <1>1 DEF FirstOrNull
<1>2. CASE S # {}
  <2>1. \E x \in S : \A y \in S : x <= y
    BY <1>2, Least
  <2>2. Min(S) \in S
    BY <2>1 DEF Min
  <2> QED
    BY <1>2, <2>2 DEF FirstOrNull, NULL
<1> QED
  BY <1>1, <1>2

-----------------------------------------------------------------------------
(* Types.                                                                   *)

\* The shape of the two pools, and of what points into them.
Shape ==
  /\ Collections = 1..CollectionCount /\ Members = 1..MemberCount
  /\ Collections \subseteq Nat \ {0} /\ Members \subseteq Nat \ {0} /\ Devices \subseteq Nat \ {0}
  /\ Collections \cup {NULL} = 0..CollectionCount /\ Members \cup {NULL} = 0..MemberCount
  /\ IsPool(collections, CollectionCount) /\ IsPool(members, MemberCount)
  /\ DOMAIN First = Devices /\ \A s \in Devices : First[s] \in 0..CollectionCount
  /\ DOMAIN Start = Collections /\ \A c \in Collections : Start[c] \in 0..MemberCount

\* The types say that both pools are pools, and where what points into them does.
LEMMA HasShape == TypeOK => Shape
<1> SUFFICES ASSUME TypeOK PROVE Shape
  OBVIOUS
<1>1. DeviceCount \in Nat /\ CollectionCount \in Nat /\ MemberCount \in Nat
  BY PoolAssumption
<1>2. /\ Collections = 1..CollectionCount /\ Members = 1..MemberCount
      /\ Collections \subseteq Nat \ {0} /\ Members \subseteq Nat \ {0}
      /\ Devices \subseteq Nat \ {0}
      /\ Collections \cup {NULL} = 0..CollectionCount /\ Members \cup {NULL} = 0..MemberCount
  BY <1>1 DEF Collections, Members, Devices, NULL
<1>3. \A c \in Collections : collections[c].next \in Collections \cup {NULL}
  BY DEF TypeOK
<1>4. \A m \in Members : members[m].next \in Members \cup {NULL}
  BY DEF TypeOK
<1>5. IsPool(collections, CollectionCount) /\ IsPool(members, MemberCount)
  BY <1>1, <1>2, <1>3, <1>4 DEF IsPool, TypeOK
<1>6. /\ DOMAIN First = Devices /\ \A s \in Devices : First[s] \in 0..CollectionCount
      /\ DOMAIN Start = Collections /\ \A c \in Collections : Start[c] \in 0..MemberCount
  BY <1>2 DEF First, Start, TypeOK
<1> QED
  BY <1>2, <1>5, <1>6 DEF Shape

\* A parse that is not under way.
LEMMA IdleTypes ==
  Idle \in [pc : {"idle"}, interface : {0}, slot : {NULL}, items : Seq(ItemType), level : Int,
            current_collection : {NULL}, current_member : {NULL}, base : {NULL},
            collection : {NULL}]
<1>1. <<>> \in Seq(ItemType)
  OBVIOUS
<1> QED
  BY <1>1 DEF Idle, NULL

\* TypeOK part by part.
CollectionsOK ==
  collections \in [Collections -> [id : Nat, report_def_start : Members \cup {NULL},
                                   next : Collections \cup {NULL}]]
MembersOK ==
  members \in [Members -> [used : BOOLEAN, field : Fields \cup {NoField},
                           next : Members \cup {NULL}]]
DevicesOK == devices \in [Devices -> [interface : Instances \cup {0},
                                      id_collection : Collections \cup {NULL}]]
ParseOK ==
  parse \in [pc : {"idle", "take", "parse", "compress"}, interface : Instances \cup {0},
             slot : IF parse.pc = "parse" THEN Devices ELSE {NULL},
             items : Seq(ItemType), level : Int,
             current_collection : Collections \cup {NULL},
             current_member : Members \cup {NULL},
             base : IF parse.pc = "compress" THEN Collections ELSE {NULL},
             collection : Collections \cup {NULL}]
MountedOK == mounted \in [Instances -> Descriptors \cup {NoDescriptor}] /\ spoiled \in BOOLEAN
ReaderOK ==
  reader \in [pc : {"idle", "first", "search", "members"}, interface : Instances \cup {0},
              id : Nat, fields : Seq(Fields \cup {NoField}), declared : Seq(Fields), torn : BOOLEAN,
              at : (IF reader.pc = "members" THEN Members ELSE Collections) \cup {NULL}]

\* Together they are TypeOK.
LEMMA TypeParts ==
  TypeOK <=> CollectionsOK /\ MembersOK /\ DevicesOK /\ ParseOK /\ MountedOK /\ ReaderOK
BY DEF TypeOK, CollectionsOK, MembersOK, DevicesOK, ParseOK, MountedOK, ReaderOK

\* Nothing is mounted and nothing is read.
LEMMA InitTypes == Init => TypeOK
<1> SUFFICES ASSUME Init PROVE TypeOK
  OBVIOUS
<1>1. CollectionsOK /\ DevicesOK /\ MountedOK
  BY DEF Init, NoDevice, NoCollection, CollectionsOK, DevicesOK, MountedOK
<1>2. MembersOK
  <2>1. NoMember \in [used : BOOLEAN, field : Fields \cup {NoField}, next : Members \cup {NULL}]
    BY DEF NoMember
  <2> QED
    BY <2>1, Zenon DEF Init, MembersOK
<1>3. ParseOK
  BY IdleTypes DEF Init, ParseOK
<1>4. ReaderOK
  <2>1. <<>> \in Seq(Fields) /\ <<>> \in Seq(Fields \cup {NoField})
    OBVIOUS
  <2> QED
    BY <2>1 DEF Init, NotReading, ReaderOK
<1> QED
  BY <1>1, <1>2, <1>3, <1>4, TypeParts

\* The free entries that are found, if there are any.
LEMMA FoundFree ==
  ASSUME TypeOK
  PROVE  /\ FindEmptyIdIdxBegin \in Collections \cup {NULL}
         /\ FindEmptyIdIdxBegin # NULL => Start[FindEmptyIdIdxBegin] = NULL
         /\ FindEmptyIdIdxBegin = NULL => \A c \in Collections : Start[c] # NULL
         /\ FindEmptyReportDef \in Members \cup {NULL}
         /\ FindEmptyReportDef # NULL => ~members[FindEmptyReportDef].used
         /\ FindEmptyReportDef = NULL => \A m \in Members : members[m].used
         /\ FindEmptyDevice \in Devices \cup {NULL}
         /\ FindEmptyDevice # NULL => First[FindEmptyDevice] = NULL
<1>1. Shape
  BY HasShape
<1> DEFINE C == {c \in Collections : collections[c].report_def_start = NULL}
<1> DEFINE M == {m \in Members : ~members[m].used}
<1> DEFINE D == {s \in Devices : devices[s].id_collection = NULL}
<1>2. C \subseteq Nat \ {0} /\ M \subseteq Nat \ {0} /\ D \subseteq Nat \ {0}
  BY <1>1 DEF Shape
<1>3. FirstOrNull(C) \in C \cup {NULL} /\ (FirstOrNull(C) = NULL => C = {})
  BY <1>2, FirstIs
<1>4. FirstOrNull(M) \in M \cup {NULL} /\ (FirstOrNull(M) = NULL => M = {})
  BY <1>2, FirstIs
<1>5. FirstOrNull(D) \in D \cup {NULL}
  BY <1>2, FirstIs
<1> QED
  BY <1>3, <1>4, <1>5 DEF FindEmptyIdIdxBegin, FindEmptyReportDef, FindEmptyDevice, Start, First

\* An item, and those behind it.
LEMMA NextItem ==
  ASSUME TypeOK, NEW tag, NextIs(tag)
  PROVE  /\ Item \in ItemType /\ Item.tag = tag /\ parse.items # <<>>
         /\ Rest = [parse EXCEPT !.items = Tail(parse.items)]
         /\ Tail(parse.items) \in Seq(ItemType)
         /\ tag = "ReportId" => Item.id \in Nat
         /\ tag = "Input" => Item.fields \in Seq(Fields) \ {<<>>}
<1>1. parse.items \in Seq(ItemType) /\ parse.items # <<>>
  BY DEF TypeOK, NextIs
<1>2. Item \in ItemType /\ Tail(parse.items) \in Seq(ItemType) /\ Item.tag = tag
  BY <1>1 DEF Item, NextIs
<1>3. tag = "ReportId" => Item.id \in Nat
  BY <1>2 DEF ItemType
<1>4. tag = "Input" => Item.fields \in Seq(Fields) \ {<<>>}
  BY <1>2 DEF ItemType
<1> QED
  BY <1>1, <1>2, <1>3, <1>4 DEF Rest

\* An interface is mounted: its lists are freed, and its items are to be read.
LEMMA MountTypes ==
  ASSUME TypeOK, NEW i \in Instances, NEW d \in Descriptors, tuh_hid_mount_cb(i, d) PROVE TypeOK'
<1>1. CollectionsOK /\ MembersOK /\ DevicesOK /\ ParseOK /\ MountedOK /\ ReaderOK
  BY TypeParts
<1>2. CollectionsOK'
  BY <1>1 DEF tuh_hid_mount_cb, delete_hid_device, CollectionsOK, NoCollection
<1>3. MembersOK'
  BY <1>1 DEF tuh_hid_mount_cb, delete_hid_device, MembersOK, NoMember
<1>4. DevicesOK'
  BY <1>1 DEF tuh_hid_mount_cb, DevicesOK, NoDevice
<1>5. ParseOK'
  <2>1. Items(d) \in Seq(ItemType)
    BY DescriptorAssumption
  <2>2. parse' = [Idle EXCEPT !.pc = "take", !.interface = i, !.items = Items(d)]
    BY DEF tuh_hid_mount_cb
  <2> QED
    BY <2>1, <2>2, IdleTypes DEF ParseOK
<1>6. MountedOK'
  <2>1. d.cut \in BOOLEAN
    BY DescriptorAssumption
  <2> QED
    BY <1>1, <2>1 DEF tuh_hid_mount_cb, MountedOK
<1>7. ReaderOK'
  <2>1. <<>> \in Seq(Fields) /\ <<>> \in Seq(Fields \cup {NoField})
    OBVIOUS
  <2>2. \/ reader' = reader
        \/ reader' = [reader EXCEPT !.torn = TRUE, !.fields = <<>>, !.declared = <<>>]
    BY DEF tuh_hid_mount_cb, Torn
  <2> QED
    BY <1>1, <2>1, <2>2 DEF ReaderOK
<1> QED
  BY <1>2, <1>3, <1>4, <1>5, <1>6, <1>7, TypeParts, PTL

\* The parse gets a free slot, or ends.
LEMMA TakeSlotTypes == TypeOK /\ TakeSlot => TypeOK'
<1> SUFFICES ASSUME TypeOK, TakeSlot PROVE TypeOK'
  OBVIOUS
<1>1. CollectionsOK /\ MembersOK /\ DevicesOK /\ ParseOK /\ MountedOK /\ ReaderOK
  BY TypeParts
<1>2. (CollectionsOK /\ MembersOK /\ ReaderOK)'
  BY <1>1 DEF TakeSlot, CollectionsOK, MembersOK, ReaderOK
<1>3. MountedOK'
  BY <1>1 DEF TakeSlot, MountedOK
<1>4. FindEmptyDevice \in Devices \cup {NULL}
  BY FoundFree
<1>5. DevicesOK' /\ ParseOK'
  <2>1. CASE FindEmptyDevice = NULL
    BY <1>1, <2>1, IdleTypes DEF TakeSlot, DevicesOK, ParseOK
  <2>2. CASE FindEmptyDevice # NULL
    <3>1. /\ devices' = [devices EXCEPT ![FindEmptyDevice] = [interface |-> parse.interface,
                                                             id_collection |-> NULL]]
          /\ parse' = [parse EXCEPT !.pc = "parse", !.slot = FindEmptyDevice]
          /\ FindEmptyDevice \in Devices /\ parse.pc = "take"
      BY <1>4, <2>2 DEF TakeSlot
    <3>2. DevicesOK'
      BY <1>1, <3>1 DEF DevicesOK, ParseOK
    <3>3. ParseOK'
      BY <1>1, <3>1 DEF ParseOK
    <3> QED
      BY <3>2, <3>3
  <2> QED
    BY <2>1, <2>2
<1> QED
  BY <1>2, <1>3, <1>5, TypeParts, PTL

\* The items of a descriptor, kind by kind.
LEMMA ItemTypes ==
  ASSUME TypeOK, Collection \/ EndCollection \/ ReportId \/ Input PROVE TypeOK'
<1>1. CollectionsOK /\ MembersOK /\ DevicesOK /\ ParseOK /\ MountedOK /\ ReaderOK
  BY TypeParts
<1>2. (ReaderOK /\ MountedOK)'
  BY <1>1 DEF Collection, EndCollection, Attach, ReportId, Input, ReaderOK, MountedOK
<1>3. CASE Collection
  <2>1. (CollectionsOK /\ MembersOK /\ DevicesOK)'
    BY <1>1, <1>3 DEF Collection, pools, CollectionsOK, MembersOK, DevicesOK
  <2>2. FindEmptyIdIdxBegin \in Collections \cup {NULL}
    BY FoundFree
  <2>3. /\ Tail(parse.items) \in Seq(ItemType)
        /\ Rest = [parse EXCEPT !.items = Tail(parse.items)]
    BY <1>3, NextItem DEF Collection
  <2>4. ParseOK'
    <3>1. CASE parse.level # 0
      <4>1. parse' = [parse EXCEPT !.items = Tail(parse.items), !.level = parse.level + 1]
        BY <1>3, <2>3, <3>1 DEF Collection
      <4>2. PICK l \in Int : l = parse.level + 1
        BY <1>1 DEF ParseOK
      <4> QED
        BY <1>1, <2>3, <4>1, <4>2 DEF ParseOK
    <3>2. CASE parse.level = 0
      <4>1. PICK l \in Int, m \in Members \cup {NULL} :
               parse' = [parse EXCEPT !.items = Tail(parse.items),
                                      !.current_collection = FindEmptyIdIdxBegin,
                                      !.level = l, !.current_member = m]
        <5>1. /\ (IF FindEmptyIdIdxBegin = NULL THEN 0 ELSE 1) \in Int
              /\ (IF FindEmptyIdIdxBegin = NULL THEN parse.current_member ELSE NULL)
                    \in Members \cup {NULL}
          BY <1>1 DEF ParseOK
        <5>2. parse' = [parse EXCEPT !.items = Tail(parse.items),
                          !.current_collection = FindEmptyIdIdxBegin,
                          !.level = IF FindEmptyIdIdxBegin = NULL THEN 0 ELSE 1,
                          !.current_member = IF FindEmptyIdIdxBegin = NULL
                                             THEN parse.current_member ELSE NULL]
          BY <1>1, <1>3, <2>3, <3>2 DEF Collection, ParseOK
        <5> QED
          BY <5>1, <5>2
      <4> QED
        BY <1>1, <2>2, <2>3, <4>1 DEF ParseOK
    <3> QED
      BY <3>1, <3>2
  <2> QED
    BY <1>2, <2>1, <2>4, TypeParts, PTL
<1>4. CASE EndCollection
  <2>1. Tail(parse.items) \in Seq(ItemType) /\ Rest = [parse EXCEPT !.items = Tail(parse.items)]
        /\ parse.pc = "parse"
    BY <1>4, NextItem DEF EndCollection, NextIs
  <2>2. ParseOK'
    <3>1. parse' = [parse EXCEPT !.items = Tail(parse.items), !.level = 0,
                                 !.current_collection = NULL, !.current_member = NULL]
          \/ parse' = [parse EXCEPT !.items = Tail(parse.items), !.level = parse.level - 1]
      BY <1>4, <2>1 DEF EndCollection
    <3>2. PICK l \in Int : l = parse.level - 1
      BY <1>1 DEF ParseOK
    <3>3. CASE parse' = [parse EXCEPT !.items = Tail(parse.items), !.level = 0,
                                      !.current_collection = NULL, !.current_member = NULL]
      <4>1. PICK z \in Int, n \in {NULL} :
               parse' = [parse EXCEPT !.items = Tail(parse.items), !.level = z,
                                      !.current_collection = n, !.current_member = n]
        <5>1. PICK z \in Int : z = 0
          OBVIOUS
        <5>2. PICK n \in {NULL} : n = NULL
          OBVIOUS
        <5> QED
          BY <3>3, <5>1, <5>2, Zenon
      <4> QED
        BY <1>1, <2>1, <4>1 DEF ParseOK
    <3>4. CASE parse' = [parse EXCEPT !.items = Tail(parse.items), !.level = parse.level - 1]
      BY <1>1, <2>1, <3>2, <3>4 DEF ParseOK
    <3> QED
      BY <3>1, <3>3, <3>4
  <2>3. MembersOK'
    BY <1>1, <1>4 DEF EndCollection, MembersOK
  <2>4. (CollectionsOK /\ DevicesOK)'
    <3>1. \/ UNCHANGED <<devices, collections>>
          \/ parse.current_collection # NULL /\ Attach(parse.current_collection)
      BY <1>4 DEF EndCollection
    <3>2. parse.slot \in Devices /\ parse.current_collection \in Collections \cup {NULL}
      BY <1>1, <2>1 DEF ParseOK
    <3> QED
      BY <1>1, <3>1, <3>2 DEF Attach, CollectionsOK, DevicesOK
  <2> QED
    BY <1>2, <2>2, <2>3, <2>4, TypeParts, PTL
<1>5. CASE ReportId
  <2>1. /\ Tail(parse.items) \in Seq(ItemType) /\ Item.id \in Nat
        /\ Rest = [parse EXCEPT !.items = Tail(parse.items)]
    BY <1>5, NextItem DEF ReportId
  <2>2. ParseOK'
    BY <1>1, <1>5, <2>1 DEF ReportId, ParseOK
  <2>3. CollectionsOK'
    BY <1>1, <1>5, <2>1 DEF ReportId, CollectionsOK
  <2>4. (MembersOK /\ DevicesOK)'
    BY <1>1, <1>5 DEF ReportId, MembersOK, DevicesOK
  <2> QED
    BY <1>2, <2>2, <2>3, <2>4, TypeParts, PTL
<1>6. CASE Input
  <2>1. /\ Tail(parse.items) \in Seq(ItemType) /\ Item.fields \in Seq(Fields) /\ Item.fields # <<>>
        /\ Rest = [parse EXCEPT !.items = Tail(parse.items)]
    BY <1>6, NextItem DEF Input
  <2> DEFINE new == FindEmptyReportDef
  <2>2. new \in Members \cup {NULL}
    BY FoundFree
  <2>3. DevicesOK'
    BY <1>1, <1>6 DEF Input, DevicesOK
  <2>4. CASE new = NULL
    <3>1. parse' = Rest /\ UNCHANGED <<members, collections>>
      BY <1>6, <2>4 DEF Input
    <3>2. (MembersOK /\ CollectionsOK)'
      BY <1>1, <3>1 DEF MembersOK, CollectionsOK
    <3>3. ParseOK'
      BY <1>1, <2>1, <3>1 DEF ParseOK
    <3> QED
      BY <1>2, <2>3, <3>2, <3>3, TypeParts, PTL
  <2>5. CASE new # NULL
    <3> DEFINE filled == [members EXCEPT ![new] = [used |-> TRUE, field |-> Head(Item.fields),
                                                   next |-> NULL]]
    <3> DEFINE m == parse.current_member
    <3> DEFINE left == Tail(Item.fields)
    <3>1. Head(Item.fields) \in Fields /\ left \in Seq(Fields)
      BY <2>1
    <3>2. filled \in [Members -> [used : BOOLEAN, field : Fields \cup {NoField},
                                 next : Members \cup {NULL}]]
      BY <1>1, <3>1 DEF MembersOK
    <3>3. MembersOK'
      <4>1. members' = IF m = NULL THEN filled ELSE [filled EXCEPT ![m].next = new]
        BY <1>6, <2>5 DEF Input
      <4> HIDE DEF filled, new
      <4> QED
        BY <2>2, <3>2, <4>1 DEF MembersOK
    <3>4. CollectionsOK'
      <4>1. \/ collections' = collections
            \/ \E c \in Collections :
                  collections' = [collections EXCEPT ![c].report_def_start = new]
        BY <1>1, <1>6, <2>5 DEF Input, ParseOK
      <4> HIDE DEF new
      <4> QED
        BY <1>1, <2>2, <4>1 DEF CollectionsOK
    <3>5. ParseOK'
      <4> DEFINE items == IF left = <<>> THEN Tail(parse.items)
                          ELSE <<[tag |-> "Input", fields |-> left]>> \o Tail(parse.items)
      <4>1. items \in Seq(ItemType)
        <5>1. CASE left = <<>>
          BY <2>1, <5>1
        <5>2. CASE left # <<>>
          <6>1. [tag |-> "Input", fields |-> left] \in ItemType
            BY <3>1, <5>2 DEF ItemType
          <6>2. <<[tag |-> "Input", fields |-> left]>> \in Seq(ItemType)
            BY <6>1
          <6> HIDE DEF left
          <6> QED
            BY <2>1, <5>2, <6>2
        <5> QED
          BY <5>1, <5>2
      <4>2. parse' = [parse EXCEPT !.items = items, !.current_member = new]
        BY <1>1, <1>6, <2>1, <2>5 DEF Input, ParseOK
      <4> HIDE DEF items, new
      <4> QED
        BY <1>1, <2>2, <4>1, <4>2 DEF ParseOK
    <3> QED
      BY <1>2, <2>3, <3>3, <3>4, <3>5, TypeParts, PTL
  <2> QED
    BY <2>4, <2>5
<1> QED
  BY <1>3, <1>4, <1>5, <1>6

\* Where the tail of a list is.
LEMMA TailIs ==
  ASSUME NEW pool, NEW N, IsPool(pool, N), NEW from \in 0..N, Unshared(pool, from), from # NULL
  PROVE  TailOf(pool, from) \in Entries(pool, from) /\ pool[TailOf(pool, from)].next = NULL
<1>1. \E x \in Entries(pool, from) : pool[x].next = NULL
  BY ListEnds
<1> QED
  BY <1>1 DEF TailOf

\* The end of the items, and the steps of the compression.
LEMMA CompressTypes ==
  ASSUME TypeOK, ItemsEnd \/ Join \/ NextBase \/ Defined PROVE TypeOK'
<1>1. CollectionsOK /\ MembersOK /\ DevicesOK /\ ParseOK /\ MountedOK /\ ReaderOK
  BY TypeParts
<1>2. (ReaderOK /\ MountedOK /\ DevicesOK)'
  BY <1>1 DEF ItemsEnd, Join, NextBase, Defined, pools, ReaderOK, MountedOK, DevicesOK
<1>3. CASE ItemsEnd
  <2>1. (CollectionsOK /\ MembersOK)'
    BY <1>1, <1>3 DEF ItemsEnd, pools, CollectionsOK, MembersOK
  <2>2. ParseOK'
    <3>1. parse.pc = "parse" /\ parse.slot \in Devices
      BY <1>1, <1>3 DEF ItemsEnd, ParseOK
    <3> DEFINE first == devices[parse.slot].id_collection
    <3>2. first \in Collections \cup {NULL}
      BY <1>1, <3>1 DEF DevicesOK
    <3>3. CASE first = NULL
      <4>1. parse' = Idle
        BY <1>3, <3>3 DEF ItemsEnd
      <4> QED
        BY <4>1, IdleTypes DEF ParseOK
    <3>4. CASE first # NULL
      <4>1. PICK c \in Collections \cup {NULL} : c = collections[first].next
        BY <1>1, <3>2, <3>4 DEF CollectionsOK
      <4>2. parse' = [Idle EXCEPT !.pc = "compress", !.interface = parse.interface,
                                  !.base = first, !.collection = c]
        BY <1>3, <3>4, <4>1 DEF ItemsEnd
      <4> HIDE DEF first
      <4> QED
        BY <1>1, <3>2, <3>4, <4>2, IdleTypes DEF ParseOK
    <3> QED
      BY <3>3, <3>4
  <2> QED
    BY <1>2, <2>1, <2>2, TypeParts, PTL
<1>4. CASE Join
  <2> DEFINE tail == TailOf(members, collections[parse.base].report_def_start)
  <2>1. PICK c \in [id : Nat, report_def_start : Members \cup {NULL},
                    next : Collections \cup {NULL}] :
           c = collections[parse.collection]
    BY <1>1, <1>4 DEF Join, ParseOK, CollectionsOK
  <2>2. /\ members' = [members EXCEPT ![tail].next = c.report_def_start]
        /\ collections' = [collections EXCEPT ![parse.base].next = c.next,
                                              ![parse.collection] = NoCollection]
        /\ parse' = [parse EXCEPT !.collection = c.next]
    BY <1>4, <2>1 DEF Join
  <2> HIDE DEF tail
  <2>3. MembersOK'
    <3>1. CASE tail \in Members
      <4>1. members[tail] \in [used : BOOLEAN, field : Fields \cup {NoField},
                               next : Members \cup {NULL}]
        BY <1>1, <3>1 DEF MembersOK
      <4>2. members' = [members EXCEPT ![tail] = [@ EXCEPT !.next = c.report_def_start]]
        BY <2>2
      <4> QED
        BY <1>1, <2>1, <3>1, <4>1, <4>2 DEF MembersOK
    <3>2. CASE tail \notin Members
      <4>1. members' = members
        BY <1>1, <2>2, <3>2 DEF MembersOK
      <4> QED
        BY <1>1, <4>1 DEF MembersOK
    <3> QED
      BY <3>1, <3>2
  <2>4. CollectionsOK'
    BY <1>1, <2>1, <2>2 DEF CollectionsOK, NoCollection
  <2>5. ParseOK'
    BY <1>1, <2>1, <2>2 DEF ParseOK
  <2> QED
    BY <1>2, <2>3, <2>4, <2>5, TypeParts, PTL
<1>5. CASE NextBase
  <2>1. (CollectionsOK /\ MembersOK)'
    BY <1>1, <1>5 DEF NextBase, pools, CollectionsOK, MembersOK
  <2>2. /\ parse.pc = "compress" /\ parse.collection \in Collections
        /\ collections[parse.collection].next \in Collections \cup {NULL}
    BY <1>1, <1>5 DEF NextBase, ParseOK, CollectionsOK
  <2>3. ParseOK'
    BY <1>1, <1>5, <2>2 DEF NextBase, ParseOK
  <2> QED
    BY <1>2, <2>1, <2>3, TypeParts, PTL
<1>6. CASE Defined
  <2>1. (CollectionsOK /\ MembersOK)'
    BY <1>1, <1>6 DEF Defined, pools, CollectionsOK, MembersOK
  <2>2. ParseOK'
    BY <1>6, IdleTypes DEF Defined, ParseOK
  <2> QED
    BY <1>2, <2>1, <2>2, TypeParts, PTL
<1> QED
  BY <1>3, <1>4, <1>5, <1>6

\* The steps of core 0.
LEMMA ReaderTypes ==
  ASSUME TypeOK, (\E i \in Instances : parse_report(i)) \/ MatchCollection \/ ReadMember \/ Return
  PROVE  TypeOK'
<1>1. CollectionsOK /\ MembersOK /\ DevicesOK /\ ParseOK /\ MountedOK /\ ReaderOK
  BY TypeParts
<1>2. (CollectionsOK /\ MembersOK /\ DevicesOK /\ ParseOK /\ MountedOK)'
  BY <1>1 DEF parse_report, MatchCollection, ReadMember, Return, pools, core1,
              CollectionsOK, MembersOK, DevicesOK, ParseOK, MountedOK
<1>3. ASSUME NEW i \in Instances, parse_report(i) PROVE ReaderOK'
  <2> DEFINE s == GetHidDeviceDef(i)
  <2> DEFINE first == IF s = NULL THEN NULL ELSE devices[s].id_collection
  <2> DEFINE empty == i = 0 /\ first = NULL /\ HasCollections(i)
  <2>1. first \in Collections \cup {NULL}
    <3>1. {t \in Devices : devices[t].interface = i} \subseteq Nat \ {0}
      BY HasShape DEF Shape
    <3>2. s \in Devices \cup {NULL}
      BY <3>1, FirstIs DEF GetHidDeviceDef
    <3> QED
      BY <1>1, <3>2 DEF DevicesOK
  <2>2. PICK c \in ToSet(Declared(mounted[i])) :
           reader' = [pc |-> "first", interface |-> i, id |-> c.id, at |-> first,
                      fields |-> <<>>, declared |-> IF empty THEN <<>> ELSE c.fields,
                      torn |-> empty]
    BY <1>3 DEF parse_report
  <2>3. Declared(mounted[i]) \in Seq([id : Nat, fields : Seq(Fields)])
    BY <1>1, <1>3, DescriptorAssumption DEF parse_report, MountedOK
  <2>4. c \in [id : Nat, fields : Seq(Fields)]
    <3>1. PICK T : T = [id : Nat, fields : Seq(Fields)]
      OBVIOUS
    <3>2. PICK q \in Seq(T) : q = Declared(mounted[i])
      BY <2>3, <3>1
    <3>3. PICK k \in 1..Len(q) : c = q[k]
      BY <2>2, <3>2 DEF ToSet
    <3>4. c \in T
      BY <3>3
    <3> QED
      BY <3>1, <3>4
  <2>5. <<>> \in Seq(Fields) /\ <<>> \in Seq(Fields \cup {NoField}) /\ empty \in BOOLEAN
    OBVIOUS
  <2>6. PICK d \in Seq(Fields) : d = IF empty THEN <<>> ELSE c.fields
    BY <2>4, <2>5
  <2> HIDE DEF s, first, empty
  <2> QED
    BY <2>1, <2>2, <2>4, <2>5, <2>6 DEF ReaderOK
<1>4. ASSUME MatchCollection PROVE ReaderOK'
  <2>1. /\ reader.pc \in {"first", "search"} /\ reader.at \in Collections
        /\ \/ reader' = [reader EXCEPT !.pc = "members",
                                       !.at = collections[reader.at].report_def_start]
           \/ reader' = [reader EXCEPT !.pc = "search", !.at = collections[reader.at].next]
    BY <1>1, <1>4 DEF MatchCollection, ReaderOK
  <2>2. /\ collections[reader.at].report_def_start \in Members \cup {NULL}
        /\ collections[reader.at].next \in Collections \cup {NULL}
    BY <1>1, <2>1 DEF CollectionsOK
  <2> QED
    BY <1>1, <2>1, <2>2 DEF ReaderOK
<1>5. ASSUME ReadMember PROVE ReaderOK'
  <2>1. reader.pc = "members" /\ reader.at \in Members
    BY <1>1, <1>5 DEF ReadMember, ReaderOK
  <2>2. /\ members[reader.at].next \in Members \cup {NULL}
        /\ members[reader.at].field \in Fields \cup {NoField}
    BY <1>1, <2>1 DEF MembersOK
  <2>3. PICK f \in Seq(Fields \cup {NoField}) :
           f = IF reader.torn THEN reader.fields
               ELSE Append(reader.fields, members[reader.at].field)
    <3>1. PICK S : S = Fields \cup {NoField}
      OBVIOUS
    <3>2. reader.fields \in Seq(S) /\ members[reader.at].field \in S
      BY <1>1, <2>2, <3>1 DEF ReaderOK
    <3>3. Append(reader.fields, members[reader.at].field) \in Seq(S)
      BY <3>2
    <3> QED
      BY <3>1, <3>2, <3>3
  <2>4. reader' = [reader EXCEPT !.at = members[reader.at].next, !.fields = f]
    BY <1>5, <2>3 DEF ReadMember
  <2> QED
    BY <1>1, <2>1, <2>2, <2>3, <2>4 DEF ReaderOK
<1>6. ASSUME Return PROVE ReaderOK'
  <2>1. <<>> \in Seq(Fields) /\ <<>> \in Seq(Fields \cup {NoField})
    OBVIOUS
  <2> QED
    BY <1>6, <2>1 DEF Return, ReaderOK, NotReading
<1>7. ReaderOK'
  BY <1>3, <1>4, <1>5, <1>6
<1> QED
  BY <1>2, <1>7, TypeParts, PTL

\* An interface leaves.
LEMMA UmountTypes == ASSUME TypeOK, NEW i \in Instances, tuh_hid_umount_cb(i) PROVE TypeOK'
<1>1. CollectionsOK /\ MembersOK /\ DevicesOK /\ ParseOK /\ MountedOK /\ ReaderOK
  BY TypeParts
<1>2. (CollectionsOK /\ MembersOK /\ DevicesOK /\ ParseOK /\ ReaderOK)'
  BY <1>1 DEF tuh_hid_umount_cb, pools, CollectionsOK, MembersOK, DevicesOK, ParseOK, ReaderOK
<1>3. MountedOK'
  BY <1>1 DEF tuh_hid_umount_cb, MountedOK
<1> QED
  BY <1>2, <1>3, TypeParts, PTL

\* Every step keeps the types.
LEMMA StepTypes == TypeOK /\ [Next]_vars => TypeOK'
<1>1. TypeOK /\ UNCHANGED vars => TypeOK'
  BY DEF TypeOK, vars, pools, core1
<1>2. ASSUME TypeOK, Next PROVE TypeOK'
  <2>1. CASE \E i \in Instances : \/ \E d \in Descriptors : tuh_hid_mount_cb(i, d)
                                 \/ tuh_hid_umount_cb(i)
    BY <1>2, <2>1, MountTypes, UmountTypes
  <2>2. CASE (\E i \in Instances : parse_report(i)) \/ MatchCollection \/ ReadMember \/ Return
    BY <1>2, <2>2, ReaderTypes
  <2>3. CASE TakeSlot
    BY <1>2, <2>3, TakeSlotTypes
  <2>4. CASE Collection \/ EndCollection \/ ReportId \/ Input
    BY <1>2, <2>4, ItemTypes
  <2>5. CASE ItemsEnd \/ Join \/ NextBase \/ Defined
    BY <1>2, <2>5, CompressTypes
  <2> QED
    BY <1>2, <2>1, <2>2, <2>3, <2>4, <2>5 DEF Next
<1> QED
  BY <1>1, <1>2

\* Every index that is stored or kept in a variable is in its pool or NULL, for any size
\* of the pools, any number of interfaces and whatever devices declare.
THEOREM PoolTypes == Spec => []TypeOK
BY InitTypes, StepTypes, PTL DEF Spec

-----------------------------------------------------------------------------
(* Pointers that are added.                                                 *)

\* A link to an entry that had no pointer.
LEMMA LinkAdded ==
  ASSUME NEW p, NEW q, NEW H, NEW t \in DOMAIN p, NEW x, Linked(p, H), ~Pointed(p, H, x),
         DOMAIN q = DOMAIN p, q[t].next = x,
         \A y \in DOMAIN p : y # t => q[y].next = p[y].next
  PROVE  Linked(q, H) /\ \A z : Pointed(q, H, z) => z = x \/ Pointed(p, H, z)
<1>1. ASSUME NEW a \in DOMAIN H PROVE Unshared(q, H[a])
  <2>1. Unshared(p, H[a])
    BY DEF Linked
  <2>2. H[a] # x /\ \A y \in DOMAIN p : p[y].next # x
    BY DEF Pointed
  <2> QED
    BY <2>1, <2>2 DEF Unshared
<1>2. \A z : Pointed(q, H, z) => z = x \/ Pointed(p, H, z)
  BY DEF Pointed
<1> QED
  BY <1>1, <1>2 DEF Linked

\* A head at an entry that had no pointer.
LEMMA HeadAdded ==
  ASSUME NEW p, NEW H, NEW G, NEW a \in DOMAIN H, NEW x, Linked(p, H), ~Pointed(p, H, x),
         DOMAIN G = DOMAIN H, G[a] = x, \A b \in DOMAIN H : b # a => G[b] = H[b]
  PROVE  Linked(p, G) /\ \A z : Pointed(p, G, z) => z = x \/ Pointed(p, H, z)
<1>1. ASSUME NEW b \in DOMAIN G PROVE Unshared(p, G[b])
  <2>1. Unshared(p, H[b]) /\ Unshared(p, H[a])
    BY DEF Linked
  <2>2. \A y \in DOMAIN p : p[y].next # x
    BY DEF Pointed
  <2> QED
    BY <2>1, <2>2 DEF Unshared
<1>2. \A z : Pointed(p, G, z) => z = x \/ Pointed(p, H, z)
  BY DEF Pointed
<1>3. \A b, c \in DOMAIN G : b # c /\ G[b] = G[c] => G[b] = NULL
  BY DEF Linked, Pointed
<1> QED
  BY <1>1, <1>2, <1>3 DEF Linked

\* An entry of a list does not link to itself.
LEMMA NotItself ==
  ASSUME NEW p, NEW N, IsPool(p, N), NEW from \in 0..N, Unshared(p, from),
         NEW x \in Entries(p, from)
  PROVE  p[x].next # x
<1> SUFFICES ASSUME p[x].next = x PROVE FALSE
  OBVIOUS
<1> DEFINE X == Entries(p, from) \ {x}
<1>1. /\ Entries(p, from) \subseteq 1..N /\ (from # NULL => from \in Entries(p, from))
      /\ \A y \in Entries(p, from) : p[y].next # NULL => p[y].next \in Entries(p, from)
  BY EntriesAre, ListEnds
<1>2. DOMAIN p = 1..N /\ x # NULL
  BY <1>1 DEF IsPool, NULL
<1>3. from # x
  BY <1>1, <1>2 DEF Unshared
<1>4. from \in X \/ from = NULL
  BY <1>1, <1>3
<1>5. \A y \in X : y \in 1..N /\ p[y].next # NULL => p[y].next \in X
  BY <1>1, <1>2 DEF Unshared
<1>6. x \notin X
  OBVIOUS
<1> HIDE DEF X
<1>7. Entries(p, from) \subseteq X
  BY <1>4, <1>5, EntriesLeast
<1> QED
  BY <1>6, <1>7

-----------------------------------------------------------------------------
(* Chained, action by action.                                               *)

\* No pointer changes, and what is built has none.
LEMMA SameChained ==
  ASSUME PoolInv, TypeOK',
         \A c \in Collections : collections'[c].next = collections[c].next /\ Start'[c] = Start[c],
         \A s \in Devices : First'[s] = First[s], members' = members,
         parse'.current_collection \in {NULL, parse.current_collection}
            \/ Start[parse'.current_collection] = NULL
  PROVE  Chained'
<1>1. Shape /\ Shape' /\ TypeOK /\ Chained
  BY HasShape, PTL DEF PoolInv
<1>2. /\ DOMAIN collections = Collections /\ DOMAIN collections' = Collections
      /\ DOMAIN First = Devices /\ DOMAIN First' = Devices
      /\ DOMAIN Start = Collections /\ DOMAIN Start' = Collections
  BY <1>1 DEF TypeOK, First, Start
<1>3. Start' = Start
  BY <1>2 DEF Start
<1>4. /\ Linked(collections', First')
      /\ \A x : x # NULL /\ Pointed(collections', First', x) => Pointed(collections, First, x)
  <2>1. /\ Linked(collections, First)
        /\ \A x \in DOMAIN collections : collections'[x].next \in {NULL, collections[x].next}
        /\ \A a \in DOMAIN First : First'[a] \in {NULL, First[a]}
    BY <1>1, <1>2 DEF Chained
  <2> QED
    BY <1>2, <2>1, FewerPointers, Zenon
<1>5. \A c \in Collections : Pointed(collections', First', c) =>
         Start'[c] # NULL /\ c # parse'.current_collection
  <2> SUFFICES ASSUME NEW c \in Collections, Pointed(collections', First', c)
               PROVE  Start'[c] # NULL /\ c # parse'.current_collection
    OBVIOUS
  <2>1. c # NULL
    BY <1>1 DEF Shape, NULL
  <2>2. Start[c] # NULL /\ c # parse.current_collection
    BY <1>1, <1>4, <2>1 DEF Chained
  <2> QED
    BY <1>3, <2>1, <2>2
<1> QED
  BY <1>1, <1>3, <1>4, <1>5 DEF Chained

\* What delete_hid_device frees, and keeps.
Freed(i) == UNION {Attached(s) : s \in DeletedSlots(i)}
FreedMembers(i) == UNION {MembersOf(c) : c \in Freed(i)}

\* What the pools are after it.
LEMMA Deletion ==
  ASSUME PoolInv, NEW i \in Instances, NEW d \in Descriptors, tuh_hid_mount_cb(i, d)
  PROVE  /\ DeletedSlots(i) \subseteq Devices /\ Freed(i) \subseteq Collections
         /\ collections' = [c \in Collections |->
                              IF c \in Freed(i) THEN NoCollection ELSE collections[c]]
         /\ members' = [m \in Members |-> IF m \in FreedMembers(i) THEN NoMember ELSE members[m]]
         /\ First' = [s \in Devices |-> IF s \in DeletedSlots(i) THEN NULL ELSE First[s]]
         /\ Start' = [c \in Collections |-> IF c \in Freed(i) THEN NULL ELSE Start[c]]
         /\ parse'.pc = "take" /\ parse'.current_collection = NULL /\ parse'.current_member = NULL
<1>1. Shape /\ TypeOK
  BY HasShape DEF PoolInv
<1>2. DeletedSlots(i) \subseteq Devices
  BY DEF DeletedSlots
<1>3. Freed(i) \subseteq Collections
  <2>1. ASSUME NEW s \in DeletedSlots(i) PROVE Attached(s) \subseteq Collections
    <3>1. First[s] = devices[s].id_collection /\ First[s] \in 0..CollectionCount
      BY <1>1, <1>2 DEF First, Shape
    <3> QED
      BY <1>1, <3>1, EntriesAre DEF Shape, Attached
  <2> QED
    BY <2>1 DEF Freed
<1>4. /\ collections' = [c \in Collections |->
                           IF c \in Freed(i) THEN NoCollection ELSE collections[c]]
      /\ members' = [m \in Members |-> IF m \in FreedMembers(i) THEN NoMember ELSE members[m]]
  BY DEF tuh_hid_mount_cb, delete_hid_device, Freed, FreedMembers, Attached, MembersOf
<1>5. First' = [s \in Devices |-> IF s \in DeletedSlots(i) THEN NULL ELSE First[s]]
  <2>1. devices' = [s \in Devices |-> IF s \in DeletedSlots(i) THEN NoDevice ELSE devices[s]]
    BY DEF tuh_hid_mount_cb
  <2>2. \A s \in Devices : devices'[s].id_collection =
           IF s \in DeletedSlots(i) THEN NULL ELSE devices[s].id_collection
    BY <2>1 DEF NoDevice
  <2>3. First' = [s \in Devices |-> devices'[s].id_collection]
    BY DEF First
  <2>4. \A s \in Devices : First[s] = devices[s].id_collection
    BY DEF First
  <2> QED
    BY <2>2, <2>3, <2>4
<1>6. Start' = [c \in Collections |-> IF c \in Freed(i) THEN NULL ELSE Start[c]]
  <2>1. Start' = [c \in Collections |-> collections'[c].report_def_start]
    BY DEF Start
  <2>2. \A c \in Collections : Start[c] = collections[c].report_def_start
    BY DEF Start
  <2> QED
    BY <1>4, <2>1, <2>2 DEF NoCollection
<1>7. parse'.pc = "take" /\ parse'.current_collection = NULL /\ parse'.current_member = NULL
  BY DEF tuh_hid_mount_cb, Idle
<1> QED
  BY <1>2, <1>3, <1>4, <1>5, <1>6, <1>7

\* Whole lists are freed, so nothing that is kept points to what was.
LEMMA MountInv ==
  ASSUME PoolInv, NEW i \in Instances, NEW d \in Descriptors, tuh_hid_mount_cb(i, d)
  PROVE  PoolInv'
<1>0. TypeOK'
  BY MountTypes DEF PoolInv
<1>1. Shape /\ Shape' /\ TypeOK /\ Chained
  BY <1>0, HasShape, PTL DEF PoolInv
<1> DEFINE F == Freed(i)
<1> DEFINE M == FreedMembers(i)
<1> DEFINE D == DeletedSlots(i)
<1>2. /\ D \subseteq Devices /\ F \subseteq Collections
      /\ collections' = [c \in Collections |-> IF c \in F THEN NoCollection ELSE collections[c]]
      /\ members' = [m \in Members |-> IF m \in M THEN NoMember ELSE members[m]]
      /\ First' = [s \in Devices |-> IF s \in D THEN NULL ELSE First[s]]
      /\ Start' = [c \in Collections |-> IF c \in F THEN NULL ELSE Start[c]]
      /\ parse'.pc = "take" /\ parse'.current_collection = NULL /\ parse'.current_member = NULL
  BY Deletion
<1>3. /\ \A s \in Devices : Entries(collections, First[s]) = Attached(s)
      /\ \A c \in Collections : Entries(members, Start[c]) = MembersOf(c)
  BY DEF Attached, MembersOf, First, Start
<1>4. /\ \A s \in D : \A x \in Entries(collections, First[s]) : x \in F
      /\ \A c \in F : \A x \in Entries(members, Start[c]) : x \in M
      /\ \A x \in F : \E s \in D : x \in Entries(collections, First[s])
      /\ \A x \in M : \E c \in F : x \in Entries(members, Start[c])
  BY <1>2, <1>3 DEF Freed, FreedMembers
<1> HIDE DEF F, M, D
<1>5. /\ DOMAIN collections = Collections /\ DOMAIN collections' = Collections
      /\ DOMAIN members = Members /\ DOMAIN members' = Members
      /\ DOMAIN First = Devices /\ DOMAIN First' = Devices
      /\ DOMAIN Start = Collections /\ DOMAIN Start' = Collections
  BY <1>0, <1>1 DEF TypeOK, First, Start
<1>6. /\ \A x \in Collections : collections'[x].next = IF x \in F THEN NULL ELSE collections[x].next
      /\ \A x \in Members : members'[x].next = IF x \in M THEN NULL ELSE members[x].next
  BY <1>2 DEF NoCollection, NoMember
<1>7. /\ Linked(collections', First')
      /\ \A x : x # NULL /\ Pointed(collections', First', x) => Pointed(collections, First, x)
  <2>1. /\ Linked(collections, First)
        /\ \A x \in DOMAIN collections : collections'[x].next \in {NULL, collections[x].next}
        /\ \A a \in DOMAIN First : First'[a] \in {NULL, First[a]}
    BY <1>1, <1>2, <1>5, <1>6 DEF Chained
  <2> QED
    BY <1>5, <2>1, FewerPointers, Zenon
<1>8. /\ Linked(members', Start')
      /\ \A x : x # NULL /\ Pointed(members', Start', x) => Pointed(members, Start, x)
  <2>1. /\ Linked(members, Start)
        /\ \A x \in DOMAIN members : members'[x].next \in {NULL, members[x].next}
        /\ \A a \in DOMAIN Start : Start'[a] \in {NULL, Start[a]}
    BY <1>1, <1>2, <1>5, <1>6 DEF Chained
  <2> QED
    BY <1>5, <2>1, FewerPointers, Zenon
<1>9. \A x \in F : ~Pointed(collections', First', x)
  <2>1. /\ IsPool(collections, CollectionCount) /\ Linked(collections, First)
        /\ \A a \in DOMAIN First : First[a] \in 0..CollectionCount
        /\ \A x \in DOMAIN collections : collections'[x].next \in {NULL, collections[x].next}
        /\ \A a \in DOMAIN First : First'[a] \in {NULL, First[a]}
        /\ D \in SUBSET DOMAIN First /\ \A a \in D : First'[a] = NULL
        /\ \A a \in D : \A x \in Entries(collections, First[a]) : collections'[x].next = NULL
    BY <1>1, <1>2, <1>4, <1>5, <1>6 DEF Chained, Shape
  <2>2. \A a \in D : \A x \in Entries(collections, First[a]) : ~Pointed(collections', First', x)
    BY <1>5, <2>1, FreedUnpointed
  <2> QED
    BY <1>4, <2>2
<1>10. \A x \in M : ~Pointed(members', Start', x)
  <2>1. /\ IsPool(members, MemberCount) /\ Linked(members, Start)
        /\ \A a \in DOMAIN Start : Start[a] \in 0..MemberCount
        /\ \A x \in DOMAIN members : members'[x].next \in {NULL, members[x].next}
        /\ \A a \in DOMAIN Start : Start'[a] \in {NULL, Start[a]}
        /\ F \in SUBSET DOMAIN Start /\ \A a \in F : Start'[a] = NULL
    BY <1>1, <1>2, <1>4, <1>5, <1>6 DEF Chained, Shape
  <2>2. \A a \in F : \A x \in Entries(members, Start[a]) : members'[x].next = NULL
    <3> SUFFICES ASSUME NEW a \in F, NEW x \in Entries(members, Start[a])
                 PROVE  members'[x].next = NULL
      OBVIOUS
    <3>1. x \in 1..MemberCount
      BY <2>1, EntriesAre
    <3> QED
      BY <1>1, <1>4, <1>6, <3>1 DEF Shape
  <2>3. \A a \in F : \A x \in Entries(members, Start[a]) : ~Pointed(members', Start', x)
    BY <1>5, <2>1, <2>2, FreedUnpointed
  <2> QED
    BY <1>4, <2>3
<1>11. \A c \in Collections : Pointed(collections', First', c) =>
          Start'[c] # NULL /\ c # parse'.current_collection
  <2> SUFFICES ASSUME NEW c \in Collections, Pointed(collections', First', c)
               PROVE  Start'[c] # NULL /\ c # parse'.current_collection
    OBVIOUS
  <2>1. c # NULL /\ c \notin F
    BY <1>1, <1>9 DEF Shape, NULL
  <2>2. Start[c] # NULL
    BY <1>1, <1>7, <2>1 DEF Chained
  <2> QED
    BY <1>2, <2>1, <2>2
<1>12. \A m \in Members : Pointed(members', Start', m) => members'[m].used
  <2> SUFFICES ASSUME NEW m \in Members, Pointed(members', Start', m) PROVE members'[m].used
    OBVIOUS
  <2>1. m # NULL /\ m \notin M
    BY <1>1, <1>10 DEF Shape, NULL
  <2>2. members[m].used
    BY <1>1, <1>8, <2>1 DEF Chained
  <2> QED
    BY <1>2, <2>1, <2>2
<1>13. Chained'
  BY <1>7, <1>8, <1>11, <1>12 DEF Chained
<1>14. AtBase'
  BY <1>2 DEF AtBase
<1> QED
  BY <1>0, <1>13, <1>14 DEF PoolInv

\* The steps of core 0, and an interface that leaves, change no pool and no parse.
LEMMA QuietInv ==
  ASSUME PoolInv, UNCHANGED <<devices, collections, members, parse>>, TypeOK' PROVE PoolInv'
<1>1. Chained' /\ AtBase'
  BY DEF PoolInv, Chained, AtBase, Linked, Unshared, Pointed, First, Start, Attached
<1> QED
  BY <1>1 DEF PoolInv

\* The slot had no list, and has none.
LEMMA TakeSlotInv == PoolInv /\ TakeSlot => PoolInv'
<1> SUFFICES ASSUME PoolInv, TakeSlot PROVE PoolInv'
  OBVIOUS
<1>1. TypeOK /\ TypeOK' /\ AtBase
  BY TakeSlotTypes DEF PoolInv
<1>2. parse.pc = "take" /\ parse.current_collection = NULL /\ parse.current_member = NULL
  BY <1>1 DEF TakeSlot, AtBase
<1>3. \A s \in Devices : First'[s] = First[s]
  <2>1. FindEmptyDevice # NULL => FindEmptyDevice \in Devices /\ First[FindEmptyDevice] = NULL
    BY <1>1, FoundFree
  <2>2. \/ devices' = devices
        \/ /\ FindEmptyDevice # NULL
           /\ devices' = [devices EXCEPT ![FindEmptyDevice] = [interface |-> parse.interface,
                                                              id_collection |-> NULL]]
    BY DEF TakeSlot
  <2> QED
    BY <1>1, <2>1, <2>2 DEF First, TypeOK
<1>4. /\ parse'.current_collection = NULL /\ parse'.current_member = NULL
      /\ parse'.pc \in {"idle", "parse"}
  <2>1. parse' = Idle \/ \E s : parse' = [parse EXCEPT !.pc = "parse", !.slot = s]
    BY DEF TakeSlot
  <2>2. CASE parse' = Idle
    BY <2>2 DEF Idle
  <2>3. ASSUME NEW s, parse' = [parse EXCEPT !.pc = "parse", !.slot = s]
        PROVE  /\ parse'.current_collection = NULL /\ parse'.current_member = NULL
               /\ parse'.pc \in {"idle", "parse"}
    <3>1. ParseOK
      BY <1>1, TypeParts
    <3> QED
      BY <1>2, <2>3, <3>1 DEF ParseOK
  <2> QED
    BY <2>1, <2>2, <2>3
<1>5. Chained'
  <2>1. /\ members' = members
        /\ \A c \in Collections : collections'[c].next = collections[c].next /\ Start'[c] = Start[c]
    BY DEF TakeSlot, Start
  <2> QED
    BY <1>1, <1>3, <1>4, <2>1, SameChained
<1>6. AtBase'
  BY <1>4 DEF AtBase
<1> QED
  BY <1>1, <1>5, <1>6 DEF PoolInv

\* A collection with no member is begun: nothing points to it.
LEMMA CollectionInv == PoolInv /\ Collection => PoolInv'
<1> SUFFICES ASSUME PoolInv, Collection PROVE PoolInv'
  OBVIOUS
<1>1. TypeOK /\ TypeOK' /\ AtBase
  BY ItemTypes DEF PoolInv
<1>2. parse.pc = "parse" /\ Rest = [parse EXCEPT !.items = Tail(parse.items)]
  BY <1>1, NextItem DEF Collection, NextIs
<1>3. /\ parse'.pc = "parse"
      /\ parse'.current_member \in {NULL, parse.current_member}
      /\ parse'.current_collection \in {parse.current_collection, FindEmptyIdIdxBegin}
  <2>1. ParseOK
    BY <1>1, TypeParts
  <2>2. CASE parse.level # 0
    <3>1. PICK l : parse' = [parse EXCEPT !.items = Tail(parse.items), !.level = l]
      BY <1>2, <2>1, <2>2 DEF Collection, ParseOK
    <3> QED
      BY <1>2, <2>1, <3>1 DEF ParseOK
  <2>3. CASE parse.level = 0
    <3>1. PICK l, m : /\ m \in {NULL, parse.current_member}
                      /\ parse' = [parse EXCEPT !.items = Tail(parse.items),
                                                !.current_collection = FindEmptyIdIdxBegin,
                                                !.level = l, !.current_member = m]
      <4>1. PICK l, m : /\ l = IF FindEmptyIdIdxBegin = NULL THEN 0 ELSE 1
                        /\ m = IF FindEmptyIdIdxBegin = NULL THEN parse.current_member ELSE NULL
        OBVIOUS
      <4>2. parse' = [parse EXCEPT !.items = Tail(parse.items),
                                   !.current_collection = FindEmptyIdIdxBegin,
                                   !.level = l, !.current_member = m]
        BY <1>2, <2>1, <2>3, <4>1 DEF Collection, ParseOK
      <4> QED
        BY <4>1, <4>2
    <3> QED
      BY <1>2, <2>1, <3>1 DEF ParseOK
  <2> QED
    BY <2>2, <2>3
<1>4. FindEmptyIdIdxBegin # NULL => Start[FindEmptyIdIdxBegin] = NULL
  BY <1>1, FoundFree
<1>5. Chained'
  <2>1. /\ members' = members /\ \A s \in Devices : First'[s] = First[s]
        /\ \A c \in Collections : collections'[c].next = collections[c].next /\ Start'[c] = Start[c]
    BY DEF Collection, pools, Start, First
  <2> QED
    BY <1>1, <1>3, <1>4, <2>1, SameChained
<1>6. AtBase'
  BY <1>1, <1>3 DEF AtBase, Collection, pools
<1> QED
  BY <1>1, <1>5, <1>6 DEF PoolInv

\* The id of what is being built changes no link.
LEMMA ReportIdInv == PoolInv /\ ReportId => PoolInv'
<1> SUFFICES ASSUME PoolInv, ReportId PROVE PoolInv'
  OBVIOUS
<1>1. TypeOK /\ TypeOK' /\ AtBase
  BY ItemTypes DEF PoolInv
<1>2. parse.pc = "parse" /\ parse' = [parse EXCEPT !.items = Tail(parse.items)]
  BY <1>1, NextItem DEF ReportId, NextIs
<1>3. /\ parse'.pc = "parse" /\ parse'.current_member = parse.current_member
      /\ parse'.current_collection = parse.current_collection
  BY <1>1, <1>2 DEF TypeOK
<1>4. Chained'
  <2>1. members' = members /\ \A s \in Devices : First'[s] = First[s]
    BY DEF ReportId, First
  <2>2. \A c \in Collections : collections'[c].next = collections[c].next /\ Start'[c] = Start[c]
    BY <1>1 DEF ReportId, Start, TypeOK
  <2> QED
    BY <1>1, <1>3, <2>1, <2>2, SameChained
<1>5. AtBase'
  BY <1>1, <1>3 DEF AtBase, ReportId
<1> QED
  BY <1>1, <1>4, <1>5 DEF PoolInv

\* What was built had no pointer: it gets one, from the device or the end of its list.
LEMMA EndCollectionInv == PoolInv /\ EndCollection => PoolInv'
<1> SUFFICES ASSUME PoolInv, EndCollection PROVE PoolInv'
  OBVIOUS
<1>1. TypeOK /\ TypeOK' /\ AtBase /\ Chained /\ Shape
  BY ItemTypes, HasShape DEF PoolInv
<1>2. parse.pc = "parse" /\ Rest = [parse EXCEPT !.items = Tail(parse.items)]
  BY <1>1, NextItem DEF EndCollection, NextIs
<1>3. /\ parse'.pc = "parse"
      /\ parse'.current_member \in {NULL, parse.current_member}
      /\ parse'.current_collection \in {NULL, parse.current_collection}
      /\ parse.level = 1 => parse'.current_collection = NULL
  BY <1>1, <1>2 DEF EndCollection, TypeOK
<1>4. AtBase'
  BY <1>1, <1>3 DEF AtBase, EndCollection
<1>5. CASE UNCHANGED <<devices, collections>>
  <2>1. /\ members' = members /\ \A s \in Devices : First'[s] = First[s]
        /\ \A c \in Collections : collections'[c].next = collections[c].next /\ Start'[c] = Start[c]
    BY <1>5 DEF EndCollection, Start, First
  <2>2. Chained'
    BY <1>1, <1>3, <2>1, SameChained
  <2> QED
    BY <1>1, <1>4, <2>2 DEF PoolInv
<1>6. CASE ~ UNCHANGED <<devices, collections>>
  <2> DEFINE c == parse.current_collection
  <2> DEFINE s == parse.slot
  <2>1. /\ c # NULL /\ parse.level = 1 /\ Start[c] # NULL /\ Attach(c) /\ c \in Collections
        /\ s \in Devices /\ First[s] = devices[s].id_collection
    BY <1>1, <1>2, <1>6 DEF EndCollection, TypeOK, Start, First
  <2>2. ~Pointed(collections, First, c) /\ Linked(collections, First)
    BY <1>1, <2>1 DEF Chained
  <2>3. /\ DOMAIN collections = Collections /\ DOMAIN collections' = Collections
        /\ DOMAIN First = Devices /\ DOMAIN First' = Devices
        /\ DOMAIN Start = Collections /\ DOMAIN Start' = Collections
    BY <1>1 DEF TypeOK, First, Start
  <2>4. /\ Linked(collections', First')
        /\ \A z : Pointed(collections', First', z) => z = c \/ Pointed(collections, First, z)
        /\ Start' = Start
    <3>1. CASE First[s] = NULL
      <4>1. collections' = collections /\ devices' = [devices EXCEPT ![s].id_collection = c]
        BY <2>1, <3>1 DEF Attach
      <4>2. First'[s] = c /\ \A b \in Devices : b # s => First'[b] = First[b]
        BY <1>1, <2>1, <4>1 DEF First, TypeOK
      <4>3. Start' = Start
        BY <4>1 DEF Start
      <4>4. /\ Linked(collections, First')
            /\ \A z : Pointed(collections, First', z) => z = c \/ Pointed(collections, First, z)
        BY <2>1, <2>2, <2>3, <4>2, HeadAdded
      <4> QED
        BY <4>1, <4>3, <4>4
    <3>2. CASE First[s] # NULL
      <4> DEFINE t == TailOf(collections, First[s])
      <4>1. devices' = devices /\ collections' = [collections EXCEPT ![t].next = c]
        BY <2>1, <3>2 DEF Attach
      <4>2. t \in Collections
        <5>1. Unshared(collections, First[s])
          BY <1>1, <2>1, <2>2, <2>3 DEF Linked
        <5>2. t \in Entries(collections, First[s])
          BY <1>1, <2>1, <3>2, <5>1, TailIs DEF Shape
        <5> QED
          BY <1>1, <2>1, <5>2, EntriesAre DEF Shape
      <4> HIDE DEF t
      <4>3. /\ collections'[t].next = c
            /\ \A y \in Collections : y # t => collections'[y].next = collections[y].next
        BY <1>1, <4>1, <4>2 DEF TypeOK
      <4>4. Start' = Start /\ First' = First
        BY <1>1, <4>1, <4>2 DEF Start, First, TypeOK
      <4>5. /\ Linked(collections', First)
            /\ \A z : Pointed(collections', First, z) => z = c \/ Pointed(collections, First, z)
        BY <2>2, <2>3, <4>2, <4>3, LinkAdded
      <4> QED
        BY <4>4, <4>5
    <3> QED
      BY <3>1, <3>2
  <2>5. \A z \in Collections : Pointed(collections', First', z) =>
           Start'[z] # NULL /\ z # parse'.current_collection
    <3> SUFFICES ASSUME NEW z \in Collections, Pointed(collections', First', z)
                 PROVE  Start'[z] # NULL /\ z # NULL
      BY <1>3, <2>1
    <3>1. z # NULL
      BY <1>1 DEF Shape, NULL
    <3>2. z = c \/ Pointed(collections, First, z)
      BY <2>4
    <3> QED
      BY <1>1, <2>1, <2>4, <3>1, <3>2 DEF Chained
  <2>6. /\ Linked(members', Start')
        /\ \A m \in Members : Pointed(members', Start', m) => members'[m].used
    <3>1. members' = members
      BY DEF EndCollection
    <3> QED
      BY <1>1, <2>4, <3>1 DEF Chained
  <2>7. Chained'
    BY <2>4, <2>5, <2>6 DEF Chained
  <2> QED
    BY <1>1, <1>4, <2>7 DEF PoolInv
<1> QED
  BY <1>5, <1>6

\* A free member had no pointer: it gets one, from the last member or the collection.
LEMMA InputInv == PoolInv /\ Input => PoolInv'
<1> SUFFICES ASSUME PoolInv, Input PROVE PoolInv'
  OBVIOUS
<1>1. TypeOK /\ TypeOK' /\ AtBase /\ Chained /\ Shape
  BY ItemTypes, HasShape DEF PoolInv
<1>2. parse.pc = "parse" /\ Rest = [parse EXCEPT !.items = Tail(parse.items)]
  BY <1>1, NextItem DEF Input, NextIs
<1> DEFINE new == FindEmptyReportDef
<1>3. new \in Members \cup {NULL} /\ (new # NULL => ~members[new].used)
  BY <1>1, FoundFree
<1>4. CASE new = NULL
  <2>1. parse' = Rest /\ UNCHANGED <<members, collections, devices>>
    BY <1>4 DEF Input
  <2>2. /\ parse'.pc = "parse" /\ parse'.current_member = parse.current_member
        /\ parse'.current_collection = parse.current_collection
    BY <1>1, <1>2, <2>1 DEF TypeOK
  <2>3. Chained'
    BY <1>1, <2>1, <2>2, SameChained DEF Start, First
  <2>4. AtBase'
    BY <1>1, <2>1, <2>2 DEF AtBase
  <2> QED
    BY <1>1, <2>3, <2>4 DEF PoolInv
<1>5. CASE new # NULL
  <2> DEFINE m == parse.current_member
  <2> DEFINE c == parse.current_collection
  <2> DEFINE filled == [members EXCEPT ![new] = [used |-> TRUE, field |-> Head(Item.fields),
                                                 next |-> NULL]]
  <2> DEFINE begins == m = NULL /\ c # NULL /\ Start[c] = NULL
  <2>1. /\ m \in Members \cup {NULL} /\ c \in Collections \cup {NULL} /\ new \in Members
        /\ m # NULL => members[m].used /\ m # new
    BY <1>1, <1>3, <1>5 DEF TypeOK, AtBase
  <2>2. /\ members' = IF m = NULL THEN filled ELSE [filled EXCEPT ![m].next = new]
        /\ collections' = IF begins THEN [collections EXCEPT ![c].report_def_start = new]
                          ELSE collections
        /\ parse'.pc = "parse" /\ parse'.current_member = new /\ parse'.current_collection = c
        /\ devices' = devices
    <3>1. begins <=> m = NULL /\ c # NULL /\ collections[c].report_def_start = NULL
      BY <2>1 DEF Start
    <3>2. \E items : parse' = [Rest EXCEPT !.items = items, !.current_member = new]
      BY <1>5, Zenon DEF Input
    <3>3. parse'.pc = "parse" /\ parse'.current_member = new /\ parse'.current_collection = c
      <4>1. ParseOK
        BY <1>1, TypeParts
      <4> QED
        BY <1>2, <3>2, <4>1 DEF ParseOK
    <3> QED
      BY <1>5, <3>1, <3>3 DEF Input
  <2>3. /\ DOMAIN members = Members /\ DOMAIN members' = Members /\ DOMAIN filled = Members
        /\ DOMAIN collections = Collections /\ DOMAIN collections' = Collections
        /\ DOMAIN Start = Collections /\ DOMAIN Start' = Collections
        /\ DOMAIN First = Devices /\ First' = First
    BY <1>1, <2>2 DEF TypeOK, Start, First
  <2>4. /\ filled[new].next = NULL /\ filled[new].used
        /\ \A x \in Members : x # new => filled[x] = members[x]
        /\ \A x \in Members : filled[x].next \in {NULL, members[x].next}
    BY <2>1, <2>3
  <2> HIDE DEF filled, begins, new, m, c
  <2>5. ~Pointed(members, Start, new) /\ Linked(members, Start) /\ new # NULL
    BY <1>1, <1>3, <1>5, <2>1 DEF Chained
  <2>6. /\ Linked(filled, Start)
        /\ \A x : x # NULL /\ Pointed(filled, Start, x) => Pointed(members, Start, x)
    BY <2>3, <2>4, <2>5, FewerPointers
  <2>7. \A c_1 \in Collections : Start'[c_1] = IF begins /\ c_1 = c THEN new ELSE Start[c_1]
    BY <1>1, <2>1, <2>2 DEF Start, TypeOK, begins
  <2>8. /\ \A c_1 \in Collections : collections'[c_1].next = collections[c_1].next
        /\ \A c_1 \in Collections : Start[c_1] # NULL => Start'[c_1] = Start[c_1]
    <3>1. \A c_1 \in Collections : collections'[c_1].next = collections[c_1].next
      BY <1>1, <2>2 DEF TypeOK
    <3> QED
      BY <3>1, <2>7 DEF begins
  <2>9. /\ Linked(members', Start')
        /\ \A z : z # NULL /\ Pointed(members', Start', z) => z = new \/ Pointed(members, Start, z)
        /\ \A x \in Members : members[x].used \/ x = new => members'[x].used
    <3>1. CASE m # NULL
      <4>1. /\ members'[m].next = new /\ m \in Members
            /\ \A y \in Members : y # m => members'[y].next = filled[y].next
            /\ \A x \in Members : members'[x].used = filled[x].used
        <5>1. members' = [filled EXCEPT ![m].next = new] /\ m \in Members
          BY <2>1, <2>2, <3>1
        <5>2. filled[m] = members[m]
          BY <2>1, <2>4, <3>1
        <5> QED
          BY <1>1, <2>3, <5>1, <5>2 DEF TypeOK
      <4>2. ~Pointed(filled, Start, new)
        BY <2>5, <2>6
      <4>3. /\ Linked(members', Start)
            /\ \A z : Pointed(members', Start, z) => z = new \/ Pointed(filled, Start, z)
        BY <2>3, <2>6, <4>1, <4>2, LinkAdded
      <4>4. Start' = Start
        BY <2>3, <2>7, <3>1 DEF begins, Start
      <4> QED
        BY <2>4, <2>6, <4>1, <4>3, <4>4
    <3>2. CASE m = NULL /\ begins
      <4>1. members' = filled /\ c \in Collections
        BY <2>1, <2>2, <3>2 DEF begins
      <4>2. Start'[c] = new /\ \A b \in Collections : b # c => Start'[b] = Start[b]
        BY <2>7, <3>2, <4>1
      <4>3. ~Pointed(filled, Start, new)
        BY <2>5, <2>6
      <4>4. /\ Linked(filled, Start')
            /\ \A z : Pointed(filled, Start', z) => z = new \/ Pointed(filled, Start, z)
        BY <2>3, <2>6, <4>1, <4>2, <4>3, HeadAdded
      <4> QED
        BY <2>4, <2>6, <4>1, <4>4
    <3>3. CASE m = NULL /\ ~begins
      <4>1. members' = filled
        BY <2>2, <3>3
      <4>2. Start' = Start
        BY <2>3, <2>7, <3>3 DEF Start
      <4> QED
        BY <2>4, <2>6, <4>1, <4>2
    <3> QED
      BY <3>1, <3>2, <3>3
  <2>10. \A z \in Members : Pointed(members', Start', z) => members'[z].used
    <3> SUFFICES ASSUME NEW z \in Members, Pointed(members', Start', z) PROVE members'[z].used
      OBVIOUS
    <3>1. z # NULL
      BY <1>1 DEF Shape, NULL
    <3>2. z = new \/ members[z].used
      BY <1>1, <2>9, <3>1 DEF Chained
    <3> QED
      BY <2>9, <3>2
  <2>11. /\ Linked(collections', First')
         /\ \A x : x # NULL /\ Pointed(collections', First', x) => Pointed(collections, First, x)
    <3>1. /\ Linked(collections, First)
          /\ \A x \in DOMAIN collections : collections'[x].next \in {NULL, collections[x].next}
          /\ \A a \in DOMAIN First : First[a] \in {NULL, First[a]}
      BY <1>1, <2>3, <2>8 DEF Chained
    <3>2. /\ Linked(collections', First)
          /\ \A x : x # NULL /\ Pointed(collections', First, x) => Pointed(collections, First, x)
      BY <2>3, <3>1, FewerPointers, Zenon
    <3> QED
      BY <2>3, <3>2
  <2>12. \A z \in Collections : Pointed(collections', First', z) =>
            Start'[z] # NULL /\ z # parse'.current_collection
    <3> SUFFICES ASSUME NEW z \in Collections, Pointed(collections', First', z)
                 PROVE  Start'[z] # NULL /\ z # parse'.current_collection
      OBVIOUS
    <3>1. z # NULL
      BY <1>1 DEF Shape, NULL
    <3>2. Start[z] # NULL /\ z # parse.current_collection
      BY <1>1, <2>11, <3>1 DEF Chained
    <3> QED
      BY <2>2, <2>8, <3>2 DEF c
  <2>13. Chained'
    BY <2>9, <2>10, <2>11, <2>12 DEF Chained
  <2>14. AtBase'
    BY <2>1, <2>2, <2>9 DEF AtBase
  <2> QED
    BY <1>1, <2>13, <2>14 DEF PoolInv
<1> QED
  BY <1>4, <1>5

\* A device's list holds collections in use, and none that is being built.
LEMMA AttachedIs ==
  ASSUME PoolInv, NEW s \in Devices
  PROVE  /\ Attached(s) = Entries(collections, First[s]) /\ Attached(s) \subseteq Collections
         /\ First[s] \in 0..CollectionCount /\ Unshared(collections, First[s])
         /\ First[s] # NULL => First[s] \in Attached(s)
         /\ \A c \in Attached(s) :
               /\ collections[c].next # NULL => collections[c].next \in Attached(s)
               /\ Pointed(collections, First, c)
               /\ Start[c] # NULL /\ c # parse.current_collection
<1>1. Shape /\ Chained
  BY HasShape DEF PoolInv
<1>2. First[s] \in 0..CollectionCount /\ s \in DOMAIN First /\ IsPool(collections, CollectionCount)
  BY <1>1 DEF Shape
<1>3. Attached(s) = Entries(collections, First[s])
  BY DEF Attached, First
<1>4. Unshared(collections, First[s])
  BY <1>1, <1>2 DEF Chained, Linked
<1>5. Attached(s) \subseteq Collections /\ (First[s] # NULL => First[s] \in Attached(s))
  BY <1>1, <1>2, <1>3, EntriesAre DEF Shape
<1>6. \A c \in Attached(s) : collections[c].next # NULL => collections[c].next \in Attached(s)
  BY <1>2, <1>3, <1>4, ListEnds
<1>7. \A c \in Attached(s) : Pointed(collections, First, c)
  BY <1>2, <1>3, EntryPointed
<1>8. \A c \in Attached(s) : Start[c] # NULL /\ c # parse.current_collection
  BY <1>1, <1>5, <1>7 DEF Chained
<1> QED
  BY <1>2, <1>3, <1>4, <1>5, <1>6, <1>7, <1>8

\* A collection's list holds members in use.
LEMMA MembersAre ==
  ASSUME PoolInv, NEW c \in Collections
  PROVE  /\ MembersOf(c) = Entries(members, Start[c]) /\ MembersOf(c) \subseteq Members
         /\ Start[c] \in 0..MemberCount /\ Unshared(members, Start[c])
         /\ Start[c] # NULL => Start[c] \in MembersOf(c)
         /\ \A m \in MembersOf(c) :
               /\ members[m].next # NULL => members[m].next \in MembersOf(c)
               /\ Pointed(members, Start, m) /\ members[m].used
<1>1. Shape /\ Chained
  BY HasShape DEF PoolInv
<1>2. Start[c] \in 0..MemberCount /\ c \in DOMAIN Start /\ IsPool(members, MemberCount)
  BY <1>1 DEF Shape
<1>3. MembersOf(c) = Entries(members, Start[c])
  BY DEF MembersOf, Start
<1>4. Unshared(members, Start[c])
  BY <1>1, <1>2 DEF Chained, Linked
<1>5. MembersOf(c) \subseteq Members /\ (Start[c] # NULL => Start[c] \in MembersOf(c))
  BY <1>1, <1>2, <1>3, EntriesAre DEF Shape
<1>6. \A m \in MembersOf(c) : members[m].next # NULL => members[m].next \in MembersOf(c)
  BY <1>2, <1>3, <1>4, ListEnds
<1>7. \A m \in MembersOf(c) : Pointed(members, Start, m)
  BY <1>2, <1>3, EntryPointed
<1>8. \A m \in MembersOf(c) : members[m].used
  BY <1>1, <1>5, <1>7 DEF Chained
<1> QED
  BY <1>2, <1>3, <1>4, <1>5, <1>6, <1>7, <1>8

\* The compression starts at the first collection of the device.
LEMMA ItemsEndInv == PoolInv /\ ItemsEnd => PoolInv'
<1> SUFFICES ASSUME PoolInv, ItemsEnd PROVE PoolInv'
  OBVIOUS
<1>0. TypeOK'
  BY CompressTypes DEF PoolInv
<1>1. TypeOK' /\ TypeOK /\ AtBase /\ parse.pc = "parse" /\ parse.slot \in Devices
  BY <1>0 DEF PoolInv, ItemsEnd, TypeOK
<1> DEFINE first == devices[parse.slot].id_collection
<1>2. /\ parse'.current_collection = NULL /\ parse'.current_member = NULL /\ parse'.pc # "parse"
      /\ parse'.pc = "compress" =>
           /\ first # NULL /\ parse'.base = first
           /\ parse'.collection = collections[first].next
  BY DEF ItemsEnd, Idle
<1>3. UNCHANGED <<devices, collections, members>>
  BY DEF ItemsEnd, pools
<1>4. Chained'
  BY <1>1, <1>2, <1>3, SameChained DEF Start, First
<1>5. first # NULL => first \in Attached(parse.slot)
  BY <1>1, AttachedIs DEF First
<1>6. AtBase'
  BY <1>1, <1>2, <1>3, <1>5 DEF AtBase, Attached
<1> QED
  BY <1>0, <1>4, <1>6 DEF PoolInv

\* It goes on at the next entry of the same list.
LEMMA NextBaseInv == PoolInv /\ NextBase => PoolInv'
<1> SUFFICES ASSUME PoolInv, NextBase PROVE PoolInv'
  OBVIOUS
<1>1. TypeOK /\ TypeOK' /\ AtBase /\ ParseOK
  BY CompressTypes, TypeParts DEF PoolInv
<1> DEFINE c == parse.collection
<1>2. /\ parse.pc = "compress" /\ c # NULL /\ UNCHANGED <<devices, collections, members>>
      /\ parse' = [parse EXCEPT !.base = c, !.collection = collections[c].next]
  BY <1>1 DEF NextBase, pools, ParseOK
<1>3. /\ parse'.pc = "compress" /\ parse'.base = c /\ parse'.collection = collections[c].next
      /\ parse'.current_collection = NULL /\ parse'.current_member = NULL
  BY <1>1, <1>2 DEF ParseOK, AtBase
<1>4. Chained'
  BY <1>1, <1>2, <1>3, SameChained DEF Start, First
<1>5. PICK s \in Devices : parse.base \in Attached(s)
  BY <1>1, <1>2 DEF AtBase
<1>6. c \in Attached(s)
  BY <1>1, <1>2, <1>5, AttachedIs DEF AtBase
<1>7. AtBase'
  BY <1>2, <1>3, <1>6 DEF AtBase, Attached
<1> QED
  BY <1>1, <1>4, <1>7 DEF PoolInv

\* It ends.
LEMMA DefinedInv == PoolInv /\ Defined => PoolInv'
<1> SUFFICES ASSUME PoolInv, Defined PROVE PoolInv'
  OBVIOUS
<1>1. TypeOK' /\ UNCHANGED <<devices, collections, members>> /\ parse' = Idle
  BY CompressTypes DEF PoolInv, Defined, pools
<1>2. parse'.pc = "idle" /\ parse'.current_collection = NULL /\ parse'.current_member = NULL
  BY <1>1 DEF Idle
<1>3. Chained'
  BY <1>1, <1>2, SameChained DEF Start, First
<1>4. AtBase'
  BY <1>2 DEF AtBase
<1> QED
  BY <1>1, <1>3, <1>4 DEF PoolInv

\* What a collection that joins its base does to the links: the base links to the one
\* behind it, its members are linked behind those of the base, and nothing points to it.
LEMMA JoinLinks ==
  ASSUME PoolInv, Join, NEW b, b = parse.base, NEW x, x = parse.collection,
         NEW r, r = Start[x], NEW tail, tail = TailOf(members, Start[b])
  PROVE  /\ b \in Collections /\ x \in Collections /\ b # x /\ collections[b].next = x
         /\ \E s \in Devices : b \in Attached(s) /\ x \in Attached(s)
         /\ tail \in MembersOf(b) /\ r \in MembersOf(x) /\ r # NULL /\ members[tail].next = NULL
         /\ collections'[b].next = collections[x].next /\ collections'[x].next = NULL
         /\ \A y \in Collections : y \notin {b, x} => collections'[y] = collections[y]
         /\ members'[tail].next = r
         /\ \A y \in Members : y # tail => members'[y].next = members[y].next
         /\ \A y \in Members : members'[y].used = members[y].used
         /\ Start' = [Start EXCEPT ![x] = NULL] /\ First' = First
         /\ parse'.collection = collections[x].next /\ parse'.base = b
         /\ parse'.pc = "compress" /\ parse'.current_collection = NULL
         /\ parse'.current_member = NULL
<1>1. TypeOK /\ AtBase /\ ParseOK /\ Shape
  BY TypeParts, HasShape DEF PoolInv
<1>2. parse.pc = "compress" /\ b \in Collections /\ x \in Collections /\ x # NULL
  BY <1>1 DEF Join, ParseOK
<1>3. PICK s \in Devices : b \in Attached(s)
  BY <1>1, <1>2 DEF AtBase
<1>4. collections[b].next = x
  BY <1>1, <1>2 DEF AtBase
<1>5. x \in Attached(s)
  BY <1>2, <1>3, <1>4, AttachedIs
<1>6. b # x
  <2>1. First[s] \in 0..CollectionCount /\ Unshared(collections, First[s])
        /\ Attached(s) = Entries(collections, First[s])
    BY AttachedIs
  <2> QED
    BY <1>1, <1>3, <1>4, <2>1, NotItself DEF Shape
<1>7. Start[b] # NULL /\ r # NULL
  BY <1>3, <1>5, AttachedIs
<1>8. /\ tail \in MembersOf(b) /\ members[tail].next = NULL /\ tail \in Members
  <2>1. Start[b] \in 0..MemberCount /\ Unshared(members, Start[b])
        /\ MembersOf(b) = Entries(members, Start[b]) /\ MembersOf(b) \subseteq Members
    BY <1>2, MembersAre
  <2> QED
    BY <1>1, <1>7, <2>1, TailIs DEF Shape
<1>9. r \in MembersOf(x)
  BY <1>2, <1>7, MembersAre
<1>10. /\ members' = [members EXCEPT ![tail].next = r]
       /\ collections' = [collections EXCEPT ![b].next = collections[x].next, ![x] = NoCollection]
       /\ parse' = [parse EXCEPT !.collection = collections[x].next]
       /\ devices' = devices
  <2>1. Start[b] = collections[b].report_def_start /\ Start[x] = collections[x].report_def_start
    BY <1>2 DEF Start
  <2> QED
    BY <2>1 DEF Join
<1>11. /\ collections'[b].next = collections[x].next /\ collections'[x] = NoCollection
       /\ \A y \in Collections : y \notin {b, x} => collections'[y] = collections[y]
       /\ collections'[b].report_def_start = collections[b].report_def_start
  BY <1>1, <1>2, <1>6, <1>10 DEF TypeOK
<1>12. collections'[x].next = NULL
  BY <1>11 DEF NoCollection
<1>13. /\ members'[tail].next = r
       /\ \A y \in Members : y # tail => members'[y].next = members[y].next
       /\ \A y \in Members : members'[y].used = members[y].used
  BY <1>1, <1>8, <1>10 DEF TypeOK
<1>14. Start' = [Start EXCEPT ![x] = NULL]
  <2>1. Start' = [c \in Collections |-> collections'[c].report_def_start]
    BY DEF Start
  <2>2. \A c \in Collections : collections'[c].report_def_start =
           IF c = x THEN NULL ELSE collections[c].report_def_start
    BY <1>6, <1>11 DEF NoCollection
  <2> QED
    BY <2>1, <2>2 DEF Start
<1>15. First' = First
  BY <1>10 DEF First
<1>16. /\ parse'.collection = collections[x].next /\ parse'.base = b
       /\ parse'.pc = "compress" /\ parse'.current_collection = NULL
       /\ parse'.current_member = NULL
  BY <1>1, <1>2, <1>10 DEF ParseOK, AtBase
<1> QED
  BY <1>2, <1>3, <1>4, <1>5, <1>6, <1>7, <1>8, <1>9, <1>11, <1>12, <1>13, <1>14, <1>15, <1>16

\* A collection that joins leaves the list, which its base stays on.
LEMMA JoinInv ==
  ASSUME PoolInv, Join
  PROVE  /\ PoolInv'
         /\ \E s \in Devices : /\ parse.base \in Attached(s) /\ parse.base \in Attached(s)'
                               /\ parse.collection \in Attached(s)
<1>1. TypeOK /\ TypeOK' /\ AtBase /\ Chained /\ Shape /\ Shape'
  BY CompressTypes, HasShape, PTL DEF PoolInv
<1>2. PICK b, x, r, tail : /\ b = parse.base /\ x = parse.collection
                           /\ r = Start[x] /\ tail = TailOf(members, Start[b])
  OBVIOUS
<1>3. /\ b \in Collections /\ x \in Collections /\ b # x /\ collections[b].next = x
      /\ \E s \in Devices : b \in Attached(s) /\ x \in Attached(s)
      /\ tail \in MembersOf(b) /\ r \in MembersOf(x) /\ r # NULL /\ members[tail].next = NULL
      /\ collections'[b].next = collections[x].next /\ collections'[x].next = NULL
      /\ \A y \in Collections : y \notin {b, x} => collections'[y] = collections[y]
      /\ members'[tail].next = r
      /\ \A y \in Members : y # tail => members'[y].next = members[y].next
      /\ \A y \in Members : members'[y].used = members[y].used
      /\ Start' = [Start EXCEPT ![x] = NULL] /\ First' = First
      /\ parse'.collection = collections[x].next /\ parse'.base = b
      /\ parse'.pc = "compress" /\ parse'.current_collection = NULL
      /\ parse'.current_member = NULL
  BY <1>2, JoinLinks
<1>4. PICK s \in Devices : b \in Attached(s) /\ x \in Attached(s)
  BY <1>3
<1>5. /\ DOMAIN collections = Collections /\ DOMAIN collections' = Collections
      /\ DOMAIN members = Members /\ DOMAIN members' = Members
      /\ DOMAIN First = Devices /\ DOMAIN Start = Collections /\ DOMAIN Start' = Collections
      /\ x # NULL /\ tail \in Members /\ Linked(collections, First) /\ Linked(members, Start)
  <2>1. MembersOf(b) \subseteq Members
    BY <1>3, MembersAre
  <2> QED
    BY <1>1, <1>3, <2>1 DEF TypeOK, First, Start, Chained, Shape, NULL
<1> DEFINE n == collections[x].next
<1>6. n # x
  <2>1. First[s] \in 0..CollectionCount /\ Unshared(collections, First[s])
        /\ Attached(s) = Entries(collections, First[s])
    BY AttachedIs
  <2> QED
    BY <1>1, <1>4, <2>1, NotItself DEF Shape
<1> HIDE DEF n
<1>7. /\ Linked(collections', First)
      /\ \A z : z # NULL /\ Pointed(collections', First, z) => Pointed(collections, First, z)
  \* The base first links to nothing.
  <2> DEFINE cut == [collections EXCEPT ![b].next = NULL, ![x] = NoCollection]
  <2>1. /\ cut[b].next = NULL /\ cut[x].next = NULL /\ DOMAIN cut = Collections
        /\ \A y \in Collections : y \notin {b, x} => cut[y].next = collections[y].next
    BY <1>1, <1>3, <1>5 DEF TypeOK, NoCollection
  <2> HIDE DEF cut
  <2>2. /\ \A y \in DOMAIN collections : cut[y].next \in {NULL, collections[y].next}
        /\ \A a \in DOMAIN First : First[a] \in {NULL, First[a]}
    BY <1>5, <2>1
  <2>3. /\ Linked(cut, First)
        /\ \A z : z # NULL /\ Pointed(cut, First, z) => Pointed(collections, First, z)
    BY <1>5, <2>1, <2>2, FewerPointers, Zenon
  <2>4. /\ collections'[b].next = n
        /\ \A y \in Collections : y # b => collections'[y].next = cut[y].next
    BY <1>3, <2>1 DEF n
  <2>5. CASE n = NULL
    <3>1. /\ \A y \in DOMAIN cut : collections'[y].next \in {NULL, cut[y].next}
          /\ \A a \in DOMAIN First : First[a] \in {NULL, First[a]}
      BY <2>1, <2>4, <2>5
    <3>2. /\ Linked(collections', First)
          /\ \A z : z # NULL /\ Pointed(collections', First, z) => Pointed(cut, First, z)
      BY <1>5, <2>1, <2>3, <3>1, FewerPointers, Zenon
    <3> QED
      BY <2>3, <3>2
  <2>6. CASE n # NULL
    <3>1. ~Pointed(cut, First, n)
      <4>1. \A a \in DOMAIN First : First[a] # n
        BY <1>3, <1>5, <2>6 DEF Linked, Unshared, n
      <4>2. \A y \in Collections : cut[y].next # n
        <5>1. Unshared(collections, First[s])
          BY <1>5 DEF Linked
        <5>2. \A y \in Collections : collections[y].next = n => y = x
          BY <1>3, <1>5, <2>6, <5>1 DEF Unshared, n
        <5> QED
          BY <2>1, <2>6, <5>2
      <4> QED
        BY <2>1, <4>1, <4>2 DEF Pointed
    <3>2. /\ Linked(collections', First)
          /\ \A z : Pointed(collections', First, z) => z = n \/ Pointed(cut, First, z)
      <4>1. /\ Linked(cut, First) /\ ~Pointed(cut, First, n) /\ b \in DOMAIN cut
            /\ DOMAIN collections' = DOMAIN cut /\ collections'[b].next = n
            /\ \A y \in DOMAIN cut : y # b => collections'[y].next = cut[y].next
        BY <1>3, <1>5, <2>1, <2>3, <2>4, <3>1
      <4> HIDE DEF n
      <4> QED
        BY <4>1, LinkAdded
    <3>3. Pointed(collections, First, n)
      BY <1>3, <1>5 DEF Pointed, n
    <3> QED
      BY <2>3, <3>2, <3>3
  <2> QED
    BY <2>5, <2>6
<1>8. ~Pointed(collections', First, x)
  <2>1. \A a \in DOMAIN First : First[a] # x
    BY <1>3, <1>5 DEF Linked, Unshared
  <2>2. Unshared(collections, First[s])
    BY <1>5 DEF Linked
  <2>3. \A y \in Collections : collections[y].next = x => y = b
    BY <1>3, <1>5, <2>2 DEF Unshared
  <2>4. \A y \in Collections : collections'[y].next # x
    BY <1>3, <1>5, <1>6, <2>3 DEF n
  <2> QED
    BY <1>5, <2>1, <2>4 DEF Pointed
<1>9. /\ Linked(members', Start')
      /\ \A z : z # NULL /\ Pointed(members', Start', z) => Pointed(members, Start, z)
  <2>1. /\ \A y \in DOMAIN members : members[y].next \in {NULL, members[y].next}
        /\ \A a \in DOMAIN Start : Start'[a] \in {NULL, Start[a]}
    BY <1>3, <1>5
  <2>2. /\ Linked(members, Start')
        /\ \A z : z # NULL /\ Pointed(members, Start', z) => Pointed(members, Start, z)
    BY <1>5, <2>1, FewerPointers, Zenon
  <2>3. ~Pointed(members, Start', r)
    <3>1. \A a \in Collections : Start'[a] # r
      BY <1>2, <1>3, <1>5 DEF Linked
    <3>2. \A y \in Members : members[y].next # r
      BY <1>2, <1>3, <1>5 DEF Linked, Unshared
    <3> QED
      BY <1>5, <3>1, <3>2 DEF Pointed
  <2>4. /\ Linked(members', Start')
        /\ \A z : Pointed(members', Start', z) => z = r \/ Pointed(members, Start', z)
    <3>1. /\ Linked(members, Start') /\ ~Pointed(members, Start', r) /\ tail \in DOMAIN members
          /\ DOMAIN members' = DOMAIN members /\ members'[tail].next = r
          /\ \A y \in DOMAIN members : y # tail => members'[y].next = members[y].next
      BY <1>3, <1>5, <2>2, <2>3
    <3> QED
      BY <3>1, LinkAdded
  <2>5. Pointed(members, Start, r)
    BY <1>2, <1>3, <1>5 DEF Pointed
  <2> QED
    BY <2>2, <2>4, <2>5
<1>10. Chained'
  <2>1. ASSUME NEW c \in Collections, Pointed(collections', First, c)
        PROVE  Start'[c] # NULL /\ c # parse'.current_collection
    <3>1. c # NULL /\ c # x
      BY <1>1, <1>8, <2>1 DEF Shape, NULL
    <3>2. Start[c] # NULL
      BY <1>1, <1>7, <2>1, <3>1 DEF Chained
    <3> QED
      BY <1>3, <1>5, <3>1, <3>2
  <2>2. ASSUME NEW m \in Members, Pointed(members', Start', m) PROVE members'[m].used
    <3>1. m # NULL
      BY <1>1 DEF Shape, NULL
    <3> QED
      BY <1>1, <1>3, <1>9, <2>2, <3>1 DEF Chained
  <2> QED
    BY <1>3, <1>7, <1>9, <2>1, <2>2 DEF Chained
<1>11. b \in Attached(s)'
  <2> DEFINE X == Attached(s)'
  <2>1. X = Entries(collections', First[s]) /\ First[s] \in 0..CollectionCount
    <3>1. X = Entries(collections', First'[s])
      BY DEF Attached, First
    <3> QED
      BY <1>1, <1>3, <3>1 DEF Shape
  <2>2. /\ IsPool(collections', CollectionCount) /\ Unshared(collections', First[s])
        /\ IsPool(collections, CollectionCount)
    BY <1>1, <1>5, <1>7 DEF Shape, Linked
  <2>3. /\ X \subseteq 1..CollectionCount /\ (First[s] # NULL => First[s] \in X)
        /\ \A y \in X : collections'[y].next # NULL => collections'[y].next \in X
    BY <2>1, <2>2, EntriesAre, ListEnds
  <2>4. x \notin X
    BY <1>5, <1>8, <2>1, <2>2, EntryPointed
  <2> HIDE DEF X
  <2>5. SUFFICES ASSUME b \notin X PROVE FALSE
    BY DEF X
  <2>6. \A y \in X : y \in 1..CollectionCount /\ collections[y].next # NULL =>
              collections[y].next \in X
    <3>1. \A y \in X : y \in Collections /\ y \notin {b, x}
      BY <1>1, <2>3, <2>4, <2>5 DEF Shape
    <3> QED
      BY <1>3, <2>3, <3>1
  <2>7. (First[s] \in X \/ First[s] = NULL) /\ First[s] \in 0..CollectionCount
    BY <2>1, <2>3
  <2>8. Entries(collections, First[s]) \subseteq X
    BY <2>2, <2>6, <2>7, EntriesLeast
  <2>9. b \in Entries(collections, First[s])
    BY <1>4, AttachedIs
  <2> QED
    BY <2>5, <2>8, <2>9
<1>12. AtBase'
  BY <1>3, <1>11 DEF AtBase
<1> QED
  BY <1>1, <1>2, <1>4, <1>10, <1>11, <1>12 DEF PoolInv

\* Nothing points anywhere.
LEMMA InitInv == Init => PoolInv
<1> SUFFICES ASSUME Init PROVE PoolInv
  OBVIOUS
<1>1. TypeOK /\ Shape
  BY InitTypes, HasShape
<1>2. /\ \A s \in Devices : First[s] = NULL
      /\ \A c \in Collections : Start[c] = NULL /\ collections[c].next = NULL
      /\ \A m \in Members : members[m].next = NULL
  BY DEF Init, First, Start, NoDevice, NoCollection, NoMember
<1>3. /\ DOMAIN collections = Collections /\ DOMAIN members = Members
      /\ DOMAIN First = Devices /\ DOMAIN Start = Collections
  BY <1>1 DEF TypeOK, First, Start
<1>4. Linked(collections, First) /\ Linked(members, Start)
  BY <1>2, <1>3 DEF Linked, Unshared
<1>5. /\ \A c \in Collections : ~Pointed(collections, First, c)
      /\ \A m \in Members : ~Pointed(members, Start, m)
  BY <1>1, <1>2, <1>3 DEF Pointed, Shape, NULL
<1>6. Chained
  BY <1>4, <1>5 DEF Chained
<1>7. AtBase
  BY DEF Init, Idle, AtBase
<1> QED
  BY <1>1, <1>6, <1>7 DEF PoolInv

\* A step that is not one of core 1 in the pools.
Aside ==
  \/ \E i \in Instances : tuh_hid_umount_cb(i) \/ parse_report(i)
  \/ MatchCollection \/ ReadMember \/ Return

\* Core 0, and an interface that leaves, disturb nothing.
LEMMA AsideInv == PoolInv /\ Aside => PoolInv'
<1> SUFFICES ASSUME PoolInv, Aside PROVE PoolInv'
  OBVIOUS
<1>1. TypeOK'
  <2>1. TypeOK
    BY DEF PoolInv
  <2>2. CASE \E i \in Instances : tuh_hid_umount_cb(i)
    BY <2>1, <2>2, UmountTypes
  <2>3. CASE (\E i \in Instances : parse_report(i)) \/ MatchCollection \/ ReadMember \/ Return
    BY <2>1, <2>3, ReaderTypes
  <2> QED
    BY <2>2, <2>3 DEF Aside
<1>2. UNCHANGED <<devices, collections, members, parse>>
  BY DEF Aside, tuh_hid_umount_cb, parse_report, MatchCollection, ReadMember, Return, pools, core1
<1> QED
  BY <1>1, <1>2, QuietInv

\* Every step keeps the lists separate.
LEMMA StepInv == PoolInv /\ [Next]_vars => PoolInv'
<1> SUFFICES ASSUME PoolInv, [Next]_vars PROVE PoolInv'
  OBVIOUS
<1>1. CASE UNCHANGED vars
  <2>1. TypeOK' /\ UNCHANGED <<devices, collections, members, parse>>
    BY <1>1, StepTypes DEF PoolInv, vars, pools, core1
  <2> QED
    BY <2>1, QuietInv
<1>2. CASE \E i \in Instances, d \in Descriptors : tuh_hid_mount_cb(i, d)
  BY <1>2, MountInv
<1>3. CASE Aside
  BY <1>3, AsideInv
<1>4. CASE TakeSlot
  BY <1>4, TakeSlotInv
<1>5. CASE Collection
  BY <1>5, CollectionInv
<1>6. CASE EndCollection
  BY <1>6, EndCollectionInv
<1>7. CASE ReportId
  BY <1>7, ReportIdInv
<1>8. CASE Input
  BY <1>8, InputInv
<1>9. CASE ItemsEnd
  BY <1>9, ItemsEndInv
<1>10. CASE Join
  BY <1>10, JoinInv
<1>11. CASE NextBase
  BY <1>11, NextBaseInv
<1>12. CASE Defined
  BY <1>12, DefinedInv
<1> QED
  BY <1>1, <1>2, <1>3, <1>4, <1>5, <1>6, <1>7, <1>8, <1>9, <1>10, <1>11, <1>12 DEF Next, Aside

\* Where no entry has two pointers lists end and share nothing.
LEMMA Separate == PoolInv => ListsSeparate
<1> SUFFICES ASSUME PoolInv PROVE ListsSeparate
  OBVIOUS
<1>1. TypeOK /\ Chained /\ Shape
  BY HasShape DEF PoolInv
<1>2. ASSUME NEW s \in Devices PROVE Ends(collections, devices[s].id_collection)
  <2>1. /\ First[s] \in 0..CollectionCount /\ Unshared(collections, First[s])
        /\ First[s] = devices[s].id_collection
    BY AttachedIs DEF First
  <2> QED
    BY <1>1, <2>1, ListEnds DEF Shape
<1>3. ASSUME NEW c \in Collections PROVE Ends(members, collections[c].report_def_start)
  <2>1. /\ Start[c] \in 0..MemberCount /\ Unshared(members, Start[c])
        /\ Start[c] = collections[c].report_def_start
    BY MembersAre DEF Start
  <2> QED
    BY <1>1, <2>1, ListEnds DEF Shape
<1>4. ASSUME NEW s \in Devices, NEW t \in Devices, s # t PROVE Attached(s) \cap Attached(t) = {}
  <2>1. /\ First[s] \in 0..CollectionCount /\ Unshared(collections, First[s])
        /\ First[t] \in 0..CollectionCount /\ Unshared(collections, First[t])
        /\ Attached(s) = Entries(collections, First[s])
        /\ Attached(t) = Entries(collections, First[t])
    BY AttachedIs
  <2>2. First[s] # First[t] \/ First[s] = NULL
    BY <1>1, <1>4 DEF Chained, Linked, Shape
  <2> QED
    BY <1>1, <2>1, <2>2, ListsDisjoint DEF Shape
<1>5. ASSUME NEW c \in Collections, NEW e \in Collections, c # e
      PROVE  MembersOf(c) \cap MembersOf(e) = {}
  <2>1. /\ Start[c] \in 0..MemberCount /\ Unshared(members, Start[c])
        /\ Start[e] \in 0..MemberCount /\ Unshared(members, Start[e])
        /\ MembersOf(c) = Entries(members, Start[c])
        /\ MembersOf(e) = Entries(members, Start[e])
    BY MembersAre
  <2>2. Start[c] # Start[e] \/ Start[c] = NULL
    BY <1>1, <1>5 DEF Chained, Linked, Shape
  <2> QED
    BY <1>1, <2>1, <2>2, ListsDisjoint DEF Shape
<1>6. \A s \in Devices : \A c \in Attached(s) : MembersOf(c) # {} /\ c # parse.current_collection
  <2> TAKE s \in Devices
  <2> TAKE c \in Attached(s)
  <2>1. c \in Collections /\ Start[c] # NULL /\ c # parse.current_collection
    BY AttachedIs
  <2>2. Start[c] \in MembersOf(c)
    BY <2>1, MembersAre
  <2> QED
    BY <2>1, <2>2
<1>7. \A c \in Collections : \A m \in MembersOf(c) : members[m].used
  BY MembersAre
<1> QED
  BY <1>2, <1>3, <1>4, <1>5, <1>6, <1>7 DEF ListsSeparate

\* The lists of report_descriptor_parser.c end and share no entry, and what is on one is
\* in use, after any sequence of mounts, unmounts and steps of the parser, for pools of
\* any size: the loops over them end, and deleting an interface takes nothing of another.
THEOREM ListsAreSeparate == Spec => []ListsSeparate
BY InitInv, StepInv, Separate, PTL DEF Spec

-----------------------------------------------------------------------------
(* Nothing is lost.                                                         *)

\* A list only grows where no link of it is replaced.
LEMMA Grown ==
  ASSUME NEW p, NEW q, NEW N, IsPool(p, N), IsPool(q, N), NEW from \in 0..N, NEW to \in 0..N,
         Unshared(p, from), Unshared(q, to), from \in {NULL, to},
         \A x \in Entries(p, from) : p[x].next # NULL => q[x].next = p[x].next
  PROVE  Entries(p, from) \subseteq Entries(q, to)
<1> DEFINE X == Entries(p, from) \cap Entries(q, to)
<1>1. /\ Entries(p, from) \subseteq 1..N
      /\ from # NULL => from \in Entries(p, from) /\ from \in Entries(q, to)
  BY EntriesAre
<1>2. \A x \in Entries(p, from) : p[x].next # NULL => p[x].next \in Entries(p, from)
  BY ListEnds
<1>3. \A x \in Entries(q, to) : q[x].next # NULL => q[x].next \in Entries(q, to)
  BY ListEnds
<1>4. /\ from \in X \/ from = NULL
      /\ \A x \in X : x \in 1..N /\ p[x].next # NULL => p[x].next \in X
  BY <1>1, <1>2, <1>3
<1>5. X \subseteq Entries(q, to)
  OBVIOUS
<1> HIDE DEF X
<1>6. Entries(p, from) \subseteq X
  BY <1>4, EntriesLeast
<1> QED
  BY <1>5, <1>6

\* The list of a device after a step.
LEMMA AttachedNext ==
  ASSUME PoolInv', NEW s \in Devices
  PROVE  /\ Attached(s)' = Entries(collections', First'[s])
         /\ IsPool(collections', CollectionCount)
         /\ First'[s] \in 0..CollectionCount /\ Unshared(collections', First'[s])
         /\ First'[s] # NULL => First'[s] \in Attached(s)'
         /\ \A c \in Attached(s)' :
               collections'[c].next # NULL => collections'[c].next \in Attached(s)'
<1>1. Shape' /\ Chained'
  BY HasShape, PTL DEF PoolInv
<1>2. /\ First'[s] \in 0..CollectionCount /\ s \in DOMAIN First'
      /\ IsPool(collections', CollectionCount)
  BY <1>1 DEF Shape
<1>3. Attached(s)' = Entries(collections', First'[s])
  BY DEF Attached, First
<1>4. Unshared(collections', First'[s])
  BY <1>1, <1>2 DEF Chained, Linked
<1>5. First'[s] # NULL => First'[s] \in Attached(s)'
  BY <1>2, <1>3, EntriesAre
<1>6. \A c \in Attached(s)' : collections'[c].next # NULL => collections'[c].next \in Attached(s)'
  BY <1>2, <1>3, <1>4, ListEnds
<1> QED
  BY <1>2, <1>3, <1>4, <1>5, <1>6

\* The list of a collection after a step.
LEMMA MembersNext ==
  ASSUME PoolInv', NEW c \in Collections
  PROVE  /\ MembersOf(c)' = Entries(members', Start'[c])
         /\ IsPool(members', MemberCount)
         /\ Start'[c] \in 0..MemberCount /\ Unshared(members', Start'[c])
         /\ Start'[c] # NULL => Start'[c] \in MembersOf(c)'
         /\ \A m \in MembersOf(c)' :
               members'[m].next # NULL => members'[m].next \in MembersOf(c)'
<1>1. Shape' /\ Chained'
  BY HasShape, PTL DEF PoolInv
<1>2. Start'[c] \in 0..MemberCount /\ c \in DOMAIN Start' /\ IsPool(members', MemberCount)
  BY <1>1 DEF Shape
<1>3. MembersOf(c)' = Entries(members', Start'[c])
  BY DEF MembersOf, Start
<1>4. Unshared(members', Start'[c])
  BY <1>1, <1>2 DEF Chained, Linked
<1>5. Start'[c] # NULL => Start'[c] \in MembersOf(c)'
  BY <1>2, <1>3, EntriesAre
<1>6. \A m \in MembersOf(c)' : members'[m].next # NULL => members'[m].next \in MembersOf(c)'
  BY <1>2, <1>3, <1>4, ListEnds
<1> QED
  BY <1>2, <1>3, <1>4, <1>5, <1>6

\* A device keeps the collections whose links no step replaces.
LEMMA AttachedGrown ==
  ASSUME PoolInv, PoolInv', NEW s \in Devices, First[s] \in {NULL, First'[s]},
         \A c \in Attached(s) :
            collections[c].next # NULL => collections'[c].next = collections[c].next
  PROVE  Attached(s) \subseteq Attached(s)'
<1>1. /\ Attached(s) = Entries(collections, First[s]) /\ IsPool(collections, CollectionCount)
      /\ First[s] \in 0..CollectionCount /\ Unshared(collections, First[s])
  BY AttachedIs, HasShape DEF Shape, PoolInv
<1>2. /\ Attached(s)' = Entries(collections', First'[s]) /\ IsPool(collections', CollectionCount)
      /\ First'[s] \in 0..CollectionCount /\ Unshared(collections', First'[s])
  BY AttachedNext
<1> QED
  BY <1>1, <1>2, Grown

\* A collection keeps the members whose links no step replaces.
LEMMA MembersGrown ==
  ASSUME PoolInv, PoolInv', NEW c \in Collections, Start[c] \in {NULL, Start'[c]},
         \A m \in MembersOf(c) : members[m].next # NULL => members'[m].next = members[m].next
  PROVE  MembersOf(c) \subseteq MembersOf(c)'
<1>1. /\ MembersOf(c) = Entries(members, Start[c]) /\ IsPool(members, MemberCount)
      /\ Start[c] \in 0..MemberCount /\ Unshared(members, Start[c])
  BY MembersAre, HasShape DEF Shape, PoolInv
<1>2. /\ MembersOf(c)' = Entries(members', Start'[c]) /\ IsPool(members', MemberCount)
      /\ Start'[c] \in 0..MemberCount /\ Unshared(members', Start'[c])
  BY MembersNext
<1> QED
  BY <1>1, <1>2, Grown

\* What a collection that has members is found in.
LEMMA HasMembers ==
  ASSUME PoolInv, NEW c \in Collections, NEW m \in MembersOf(c) PROVE Start[c] # NULL
<1>1. MembersOf(c) = Entries(members, Start[c]) /\ IsPool(members, MemberCount)
  BY MembersAre, HasShape DEF Shape, PoolInv
<1> QED
  BY <1>1, NoEntries

\* The items behind the first are nested too, at the level it leaves.
LEMMA NestedTail ==
  ASSUME NEW items \in Seq(ItemType), items # <<>>, NEW level, Nested(items, level)
  PROVE  /\ level \in Nat
         /\ Head(items).tag = "Collection" => Nested(Tail(items), level + 1)
         /\ Head(items).tag = "EndCollection" => level > 0 /\ Nested(Tail(items), level - 1)
         /\ Head(items).tag \in {"ReportId", "Input"} => Nested(Tail(items), level)
         /\ Head(items).tag = "Input" => level > 0
         /\ Head(items).tag # "LongItem"
<1>1. PICK f \in [0..Len(items) -> Nat] : Nesting(items, level, f)
  BY DEF Nested
<1> DEFINE rest == Tail(items)
<1> DEFINE g == [i \in 0..Len(rest) |-> f[i + 1]]
<1>2. /\ Len(items) \in Nat \ {0} /\ Len(rest) = Len(items) - 1 /\ Head(items) = items[1]
      /\ \A i \in 1..Len(rest) : rest[i] = items[i + 1]
  BY DEF Nesting
<1>3. f[0] = level /\ f[Len(items)] = 0 /\ level \in Nat
  BY <1>1, <1>2 DEF Nesting
<1>4. \A i \in 1..Len(items) :
         /\ f[i] = CASE items[i].tag = "Collection" -> f[i - 1] + 1
                     [] items[i].tag = "EndCollection" -> f[i - 1] - 1
                     [] OTHER -> f[i - 1]
         /\ items[i].tag = "Input" => f[i - 1] > 0
         /\ items[i].tag # "LongItem"
  BY <1>1 DEF Nesting
<1> HIDE DEF rest
<1>5. g \in [0..Len(rest) -> Nat] /\ g[0] = f[1] /\ g[Len(rest)] = 0 /\ f[1] \in Nat
  BY <1>2, <1>3
<1>6. ASSUME NEW i \in 1..Len(rest)
      PROVE  /\ g[i] = CASE rest[i].tag = "Collection" -> g[i - 1] + 1
                         [] rest[i].tag = "EndCollection" -> g[i - 1] - 1
                         [] OTHER -> g[i - 1]
             /\ rest[i].tag = "Input" => g[i - 1] > 0
             /\ rest[i].tag # "LongItem"
  <2>1. /\ i + 1 \in 1..Len(items) /\ (i + 1) - 1 = i /\ rest[i] = items[i + 1]
        /\ g[i] = f[i + 1] /\ g[i - 1] = f[i]
    BY <1>2
  <2> HIDE DEF g
  <2> QED
    BY <1>4, <2>1
<1> HIDE DEF g
<1>7. Nested(rest, f[1])
  BY <1>5, <1>6 DEF Nested, Nesting
<1>8. /\ f[1] = CASE items[1].tag = "Collection" -> level + 1
                  [] items[1].tag = "EndCollection" -> level - 1
                  [] OTHER -> level
      /\ items[1].tag = "Input" => level > 0
      /\ items[1].tag # "LongItem"
  <2>1. 1 \in 1..Len(items) /\ 1 - 1 = 0
    BY <1>2
  <2> QED
    BY <1>3, <1>4, <2>1
<1>9. items[1].tag = "EndCollection" => level > 0
  BY <1>3, <1>5, <1>8
<1> QED
  BY <1>2, <1>3, <1>7, <1>8, <1>9 DEF rest

\* The rest of an Input item in its place is nested like it.
LEMMA NestedRest ==
  ASSUME NEW items \in Seq(ItemType), items # <<>>, NEW level, Nested(items, level),
         Head(items).tag = "Input", NEW left \in ItemType, left.tag = "Input"
  PROVE  Nested(<<left>> \o Tail(items), level)
<1>1. PICK f \in [0..Len(items) -> Nat] : Nesting(items, level, f)
  BY DEF Nested
<1> DEFINE more == <<left>> \o Tail(items)
<1>2. /\ Len(more) = Len(items) /\ \A i \in 1..Len(items) : more[i].tag = items[i].tag
  <2>1. PICK T : T = ItemType
    OBVIOUS
  <2>2. items \in Seq(T) /\ left \in T
    BY <2>1
  <2>3. Len(items) \in Nat \ {0} /\ Head(items) = items[1] /\ Len(Tail(items)) = Len(items) - 1
        /\ Tail(items) \in Seq(T) /\ <<left>> \in Seq(T) /\ Len(<<left>>) = 1
    BY <2>2
  <2>4. Len(more) = Len(items) /\ more[1] = left
    BY <2>3
  <2>5. \A i \in 1..Len(items) : i # 1 => more[i] = items[i]
    BY <2>2, <2>3
  <2> QED
    BY <2>3, <2>4, <2>5
<1> HIDE DEF more
<1>3. Nesting(more, level, f)
  BY <1>1, <1>2 DEF Nesting
<1>4. Nested(more, level)
  BY <1>2, <1>3 DEF Nested
<1> QED
  BY <1>4 DEF more

\* Between parses nothing is being built; what is not freed stays on the list it was on.
LEMMA MountWhole ==
  ASSUME LeakInv, NEW i \in Instances, NEW d \in Descriptors, tuh_hid_mount_cb(i, d)
  PROVE  LeakInv'
<1>1. PoolInv /\ PoolInv' /\ AtBase /\ ListsSeparate
  BY MountInv, Separate DEF LeakInv, PoolInv
<1> SUFFICES ASSUME ~spoiled' PROVE Whole'
  BY <1>1 DEF LeakInv
<1>2. ~spoiled /\ ~d.cut /\ Kept
  <2>1. d.cut \in BOOLEAN /\ spoiled \in BOOLEAN
    BY <1>1, DescriptorAssumption DEF PoolInv, TypeOK
  <2> QED
    BY <2>1 DEF tuh_hid_mount_cb, LeakInv, Whole
<1>3. /\ DeletedSlots(i) \subseteq Devices /\ Freed(i) \subseteq Collections
      /\ collections' = [c \in Collections |->
                           IF c \in Freed(i) THEN NoCollection ELSE collections[c]]
      /\ members' = [m \in Members |-> IF m \in FreedMembers(i) THEN NoMember ELSE members[m]]
      /\ First' = [s \in Devices |-> IF s \in DeletedSlots(i) THEN NULL ELSE First[s]]
      /\ Start' = [c \in Collections |-> IF c \in Freed(i) THEN NULL ELSE Start[c]]
  BY <1>1, Deletion
<1>4. parse.pc = "idle" /\ parse.current_collection = NULL
  BY <1>1 DEF tuh_hid_mount_cb, AtBase
<1>5. ASSUME NEW c \in Collections, Start'[c] # NULL PROVE \E s \in Devices : c \in Attached(s)'
  <2>1. c \notin Freed(i) /\ Start[c] # NULL
    BY <1>3, <1>5
  <2>2. c # NULL
    BY <1>1, HasShape DEF PoolInv, Shape, NULL
  <2>3. PICK s \in Devices : c \in Attached(s)
    BY <1>2, <1>4, <2>1, <2>2 DEF Kept
  <2>4. s \notin DeletedSlots(i)
    BY <2>1, <2>3 DEF Freed
  <2>5. ASSUME NEW e \in Attached(s) PROVE e \notin Freed(i) /\ e \in Collections
    <3>1. \A t \in DeletedSlots(i) : Attached(s) \cap Attached(t) = {}
      BY <1>1, <1>3, <2>4 DEF ListsSeparate
    <3>2. e \in Collections
      BY <1>1, AttachedIs
    <3> QED
      BY <3>1, <3>2 DEF Freed
  <2>6. First[s] = First'[s] /\ \A e \in Attached(s) : collections'[e].next = collections[e].next
    BY <1>3, <2>4, <2>5
  <2>7. Attached(s) \subseteq Attached(s)'
    BY <1>1, <2>6, AttachedGrown
  <2> QED
    BY <2>3, <2>7
<1>6. ASSUME NEW m \in Members, members'[m].used
      PROVE  \E c \in Collections : m \in MembersOf(c)'
  <2>1. m \notin FreedMembers(i) /\ members[m].used
    BY <1>3, <1>6 DEF NoMember
  <2>2. PICK c \in Collections : m \in MembersOf(c)
    BY <1>2, <2>1 DEF Kept
  <2>3. c \notin Freed(i)
    BY <2>1, <2>2 DEF FreedMembers
  <2>4. ASSUME NEW e \in MembersOf(c) PROVE e \notin FreedMembers(i) /\ e \in Members
    <3>1. \A b \in Freed(i) : MembersOf(c) \cap MembersOf(b) = {}
      BY <1>1, <1>3, <2>3 DEF ListsSeparate
    <3>2. e \in Members
      BY <1>1, MembersAre
    <3> QED
      BY <3>1, <3>2 DEF FreedMembers
  <2>5. Start[c] = Start'[c] /\ \A e \in MembersOf(c) : members'[e].next = members[e].next
    BY <1>3, <2>3, <2>4
  <2>6. MembersOf(c) \subseteq MembersOf(c)'
    BY <1>1, <2>5, MembersGrown
  <2> QED
    BY <2>2, <2>6
<1>7. parse'.items = Items(d) /\ parse'.level = 0
      /\ parse'.current_collection = NULL /\ parse'.current_member = NULL
  BY DEF tuh_hid_mount_cb, Idle
<1>8. Nested(Items(d), 0)
  <2>1. Nesting(Items(d), 0, Depth(Items(d)))
    BY <1>2, DescriptorAssumption
  <2> QED
    BY <2>1 DEF Nested, Nesting
<1> QED
  BY <1>5, <1>6, <1>7, <1>8 DEF Whole, Kept, Building

\* Where no link changes what is on a list stays on it.
LEMMA SameKept ==
  ASSUME PoolInv, PoolInv', Kept, First' = First, Start' = Start, members' = members,
         \A c \in Collections : collections'[c].next = collections[c].next,
         parse.current_collection \in {NULL, parse'.current_collection}
  PROVE  Kept' /\ \A c \in Collections : MembersOf(c)' = MembersOf(c)
<1>1. ASSUME NEW s \in Devices PROVE Attached(s) \subseteq Attached(s)'
  <2>1. Attached(s) \subseteq Collections
    BY AttachedIs
  <2> QED
    BY <2>1, AttachedGrown
<1>2. \A c \in Collections : MembersOf(c)' = MembersOf(c)
  <2> TAKE c \in Collections
  <2>1. MembersOf(c) = Entries(members, Start[c]) /\ MembersOf(c)' = Entries(members', Start'[c])
    BY MembersAre, MembersNext
  <2> QED
    BY <2>1
<1>3. ASSUME NEW c \in Collections, Start'[c] # NULL
      PROVE  c = parse'.current_collection \/ \E s \in Devices : c \in Attached(s)'
  <2>1. c # NULL
    BY HasShape DEF PoolInv, Shape, NULL
  <2>2. c = parse.current_collection \/ \E s \in Devices : c \in Attached(s)
    BY <1>3 DEF Kept
  <2> QED
    BY <1>1, <2>1, <2>2
<1> QED
  BY <1>2, <1>3 DEF Kept

\* The parse has its slot, and the pools are as before.
LEMMA TakeSlotWhole == LeakInv /\ TakeSlot => LeakInv'
<1> SUFFICES ASSUME LeakInv, TakeSlot PROVE LeakInv'
  OBVIOUS
<1>1. PoolInv /\ PoolInv' /\ TypeOK /\ ParseOK
  BY TakeSlotInv, TypeParts DEF LeakInv, PoolInv
<1> SUFFICES ASSUME ~spoiled' PROVE Whole'
  BY <1>1 DEF LeakInv
<1>2. ~spoiled /\ FindEmptyDevice # NULL /\ parse.pc = "take"
  BY <1>1 DEF TakeSlot, TypeOK
<1>3. Kept /\ Nested(parse.items, parse.level) /\ Building
  BY <1>2 DEF LeakInv, Whole
<1>4. /\ devices' = [devices EXCEPT ![FindEmptyDevice] = [interface |-> parse.interface,
                                                         id_collection |-> NULL]]
      /\ parse' = [parse EXCEPT !.pc = "parse", !.slot = FindEmptyDevice]
      /\ UNCHANGED <<collections, members>>
  BY <1>2 DEF TakeSlot
<1>5. FindEmptyDevice \in Devices /\ First[FindEmptyDevice] = NULL
  BY <1>1, <1>2, FoundFree
<1>6. First' = First
  <2>1. \A s \in Devices : devices'[s].id_collection = devices[s].id_collection
    BY <1>1, <1>4, <1>5 DEF First, TypeOK
  <2> QED
    BY <2>1 DEF First
<1>7. Start' = Start
  BY <1>4 DEF Start
<1>8. /\ parse'.items = parse.items /\ parse'.level = parse.level
      /\ parse'.current_collection = parse.current_collection
      /\ parse'.current_member = parse.current_member
  BY <1>1, <1>4 DEF ParseOK
<1>9. Kept' /\ \A c \in Collections : MembersOf(c)' = MembersOf(c)
  BY <1>1, <1>3, <1>4, <1>6, <1>7, <1>8, SameKept
<1>10. Building'
  <2>1. parse.current_collection \in Collections \cup {NULL}
    BY <1>1 DEF ParseOK
  <2> QED
    BY <1>3, <1>4, <1>7, <1>8, <1>9, <2>1 DEF Building
<1> QED
  BY <1>3, <1>8, <1>9, <1>10 DEF Whole

\* The level tells whether a collection is being built.
LEMMA CollectionWhole == LeakInv /\ Collection => LeakInv'
<1> SUFFICES ASSUME LeakInv, Collection PROVE LeakInv'
  OBVIOUS
<1>1. PoolInv /\ PoolInv' /\ TypeOK /\ ParseOK
  BY CollectionInv, TypeParts DEF LeakInv, PoolInv
<1> SUFFICES ASSUME ~spoiled' PROVE Whole'
  BY <1>1 DEF LeakInv
<1>2. ~spoiled /\ (parse.level = 0 => FindEmptyIdIdxBegin # NULL) /\ parse.pc = "parse"
  BY <1>1 DEF Collection, NextIs, TypeOK
<1>3. Kept /\ Nested(parse.items, parse.level) /\ Building
  BY <1>2 DEF LeakInv, Whole
<1>4. /\ parse.items \in Seq(ItemType) /\ parse.items # <<>> /\ Head(parse.items).tag = "Collection"
      /\ Rest = [parse EXCEPT !.items = Tail(parse.items)]
  BY <1>1, NextItem DEF Collection, NextIs, ParseOK
<1>5. parse.level \in Nat /\ Nested(Tail(parse.items), parse.level + 1)
  BY <1>3, <1>4, NestedTail
<1>6. UNCHANGED <<devices, collections, members>> /\ First' = First /\ Start' = Start
  BY DEF Collection, pools, First, Start
<1>7. CASE parse.level # 0
  <2>1. /\ parse'.items = Tail(parse.items) /\ parse'.level = parse.level + 1
        /\ parse'.current_collection = parse.current_collection
        /\ parse'.current_member = parse.current_member
    <3>1. PICK l \in Int : l = parse.level + 1
      BY <1>5
    <3>2. parse' = [parse EXCEPT !.items = Tail(parse.items), !.level = l]
      BY <1>1, <1>4, <1>7, <3>1 DEF Collection, ParseOK
    <3> QED
      BY <1>1, <3>1, <3>2 DEF ParseOK
  <2>2. Kept' /\ \A c \in Collections : MembersOf(c)' = MembersOf(c)
    BY <1>1, <1>3, <1>6, <2>1, SameKept
  <2>3. Building'
    <3>1. parse.current_collection \in Collections \cup {NULL} /\ parse.level + 1 # 0
      BY <1>1, <1>5 DEF ParseOK
    <3> QED
      BY <1>3, <1>6, <1>7, <2>1, <2>2, <3>1 DEF Building
  <2> QED
    BY <1>5, <2>1, <2>2, <2>3 DEF Whole
<1>8. CASE parse.level = 0
  <2>1. /\ parse'.items = Tail(parse.items) /\ parse'.level = parse.level + 1
        /\ parse'.current_collection = FindEmptyIdIdxBegin /\ parse'.current_member = NULL
    <3>1. PICK l \in Int, n \in {NULL} : l = 1 /\ n = NULL
      OBVIOUS
    <3>2. parse' = [parse EXCEPT !.items = Tail(parse.items), !.level = l,
                                 !.current_collection = FindEmptyIdIdxBegin, !.current_member = n]
      BY <1>1, <1>2, <1>4, <1>8, <3>1 DEF Collection, ParseOK
    <3> QED
      BY <1>1, <1>8, <3>1, <3>2 DEF ParseOK
  <2>2. parse.current_collection = NULL
    BY <1>3, <1>8 DEF Building
  <2>3. Kept'
    BY <1>1, <1>3, <1>6, <2>2, SameKept
  <2>4. Start[FindEmptyIdIdxBegin] = NULL
    BY <1>1, <1>2, <1>8, FoundFree
  <2>5. Building'
    BY <1>2, <1>6, <1>8, <2>1, <2>4 DEF Building
  <2> QED
    BY <1>5, <2>1, <2>3, <2>5 DEF Whole
<1> QED
  BY <1>7, <1>8

\* No link and no level changes.
LEMMA ReportIdWhole == LeakInv /\ ReportId => LeakInv'
<1> SUFFICES ASSUME LeakInv, ReportId PROVE LeakInv'
  OBVIOUS
<1>1. PoolInv /\ PoolInv' /\ TypeOK /\ ParseOK
  BY ReportIdInv, TypeParts DEF LeakInv, PoolInv
<1> SUFFICES ASSUME ~spoiled' PROVE Whole'
  BY <1>1 DEF LeakInv
<1>2. ~spoiled /\ parse.pc = "parse"
  BY DEF ReportId, NextIs
<1>3. Kept /\ Nested(parse.items, parse.level) /\ Building
  BY <1>2 DEF LeakInv, Whole
<1>4. /\ parse.items \in Seq(ItemType) /\ parse.items # <<>> /\ Head(parse.items).tag = "ReportId"
      /\ parse' = [parse EXCEPT !.items = Tail(parse.items)]
  BY <1>1, NextItem DEF ReportId, NextIs, ParseOK
<1>5. Nested(Tail(parse.items), parse.level)
  BY <1>3, <1>4, NestedTail
<1>6. /\ parse'.items = Tail(parse.items) /\ parse'.level = parse.level
      /\ parse'.current_collection = parse.current_collection
      /\ parse'.current_member = parse.current_member
  BY <1>1, <1>4 DEF ParseOK
<1>7. /\ First' = First /\ Start' = Start /\ members' = members
      /\ \A c \in Collections : collections'[c].next = collections[c].next
  <2>1. \A c \in Collections : /\ collections'[c].next = collections[c].next
                               /\ collections'[c].report_def_start = collections[c].report_def_start
    BY <1>1 DEF ReportId, TypeOK
  <2> QED
    BY <2>1 DEF ReportId, First, Start
<1>8. Kept' /\ \A c \in Collections : MembersOf(c)' = MembersOf(c)
  BY <1>1, <1>3, <1>6, <1>7, SameKept
<1>9. Building'
  <2>1. parse.current_collection \in Collections \cup {NULL}
    BY <1>1 DEF ParseOK
  <2> QED
    BY <1>3, <1>6, <1>7, <1>8, <2>1 DEF Building
<1> QED
  BY <1>5, <1>6, <1>8, <1>9 DEF Whole

\* Attaching a collection puts it on the list of the device, and takes nothing off.
LEMMA Attaching ==
  ASSUME PoolInv, PoolInv', NEW c \in Collections, Attach(c), parse.slot \in Devices, c # NULL
  PROVE  /\ \A s \in Devices : Attached(s) \subseteq Attached(s)'
         /\ Start' = Start /\ \E s \in Devices : c \in Attached(s)'
<1>1. TypeOK /\ Shape
  BY HasShape DEF PoolInv
<1>2. PICK s \in Devices : s = parse.slot /\ First[s] = devices[s].id_collection
  BY DEF First
<1> DEFINE t == TailOf(collections, First[s])
<1>3. CASE First[s] = NULL
  <2>1. devices' = [devices EXCEPT ![s].id_collection = c] /\ collections' = collections
    BY <1>2, <1>3 DEF Attach
  <2>2. First'[s] = c /\ Start' = Start /\ \A u \in Devices : First[u] \in {NULL, First'[u]}
    BY <1>1, <1>3, <2>1 DEF First, Start, TypeOK
  <2>3. \A u \in Devices : Attached(u) \subseteq Attached(u)'
    BY <2>1, <2>2, AttachedGrown
  <2>4. c \in Attached(s)'
    BY <2>2, AttachedNext
  <2> QED
    BY <2>2, <2>3, <2>4
<1>4. CASE First[s] # NULL
  <2>1. devices' = devices /\ collections' = [collections EXCEPT ![t].next = c]
    BY <1>2, <1>4 DEF Attach
  <2>2. t \in Attached(s) /\ collections[t].next = NULL /\ t \in Collections
    <3>1. /\ Attached(s) = Entries(collections, First[s]) /\ Attached(s) \subseteq Collections
          /\ First[s] \in 0..CollectionCount /\ Unshared(collections, First[s])
      BY AttachedIs
    <3> QED
      BY <1>1, <1>4, <3>1, TailIs DEF Shape
  <2> HIDE DEF t
  <2>3. /\ collections'[t].next = c
        /\ \A e \in Collections : collections[e].next # NULL =>
                 collections'[e].next = collections[e].next
        /\ First' = First /\ Start' = Start
    BY <1>1, <2>1, <2>2 DEF TypeOK, First, Start
  <2>4. ASSUME NEW u \in Devices PROVE Attached(u) \subseteq Attached(u)'
    <3>1. Attached(u) \subseteq Collections
      BY AttachedIs
    <3> QED
      BY <2>3, <3>1, AttachedGrown
  <2>5. t \in Attached(s)'
    BY <2>2, <2>4
  <2>6. c \in Attached(s)'
    BY <2>3, <2>5, AttachedNext
  <2> QED
    BY <2>3, <2>4, <2>6
<1> QED
  BY <1>3, <1>4

\* What was built is attached, or had no member to lose.
LEMMA EndCollectionWhole == LeakInv /\ EndCollection => LeakInv'
<1> SUFFICES ASSUME LeakInv, EndCollection PROVE LeakInv'
  OBVIOUS
<1>1. PoolInv /\ PoolInv' /\ TypeOK /\ ParseOK
  BY EndCollectionInv, TypeParts DEF LeakInv, PoolInv
<1> SUFFICES ASSUME ~spoiled' PROVE Whole'
  BY <1>1 DEF LeakInv
<1> DEFINE c == parse.current_collection
<1> DEFINE attaches == parse.level = 1 /\ c # NULL /\ Start[c] # NULL
<1>2. parse.pc = "parse" /\ parse.slot \in Devices /\ c \in Collections \cup {NULL}
  BY <1>1 DEF EndCollection, NextIs, ParseOK
<1>3. /\ attaches => Attach(c)
      /\ ~attaches => UNCHANGED <<devices, collections>>
      /\ members' = members /\ ~spoiled
  <2>1. c # NULL => Start[c] = collections[c].report_def_start
    BY <1>2 DEF Start
  <2> QED
    BY <1>1, <2>1 DEF EndCollection, TypeOK
<1>4. Kept /\ Nested(parse.items, parse.level) /\ Building
  BY <1>2, <1>3 DEF LeakInv, Whole
<1>5. /\ parse.items \in Seq(ItemType) /\ parse.items # <<>>
      /\ Head(parse.items).tag = "EndCollection"
      /\ Rest = [parse EXCEPT !.items = Tail(parse.items)]
  BY <1>1, NextItem DEF EndCollection, NextIs, ParseOK
<1>6. /\ parse.level \in Nat /\ parse.level > 0
      /\ Nested(Tail(parse.items), parse.level - 1)
  BY <1>4, <1>5, NestedTail
<1>7. /\ parse'.items = Tail(parse.items) /\ parse'.level = parse.level - 1
      /\ parse'.current_collection = IF parse.level = 1 THEN NULL ELSE c
      /\ parse'.current_member = IF parse.level = 1 THEN NULL ELSE parse.current_member
  <2>1. CASE parse.level = 1
    <3>1. PICK l \in Int, n \in {NULL} : l = 0 /\ n = NULL
      OBVIOUS
    <3>2. parse' = [parse EXCEPT !.items = Tail(parse.items), !.level = l,
                                 !.current_collection = n, !.current_member = n]
      BY <1>5, <2>1, <3>1 DEF EndCollection
    <3> QED
      BY <1>1, <2>1, <3>1, <3>2 DEF ParseOK
  <2>2. CASE parse.level # 1
    <3>1. PICK l \in Int : l = parse.level - 1
      BY <1>6
    <3>2. parse' = [parse EXCEPT !.items = Tail(parse.items), !.level = l]
      BY <1>1, <1>5, <2>2, <3>1 DEF EndCollection, ParseOK
    <3> QED
      BY <1>1, <2>2, <3>1, <3>2 DEF ParseOK
  <2> QED
    BY <2>1, <2>2
<1>8. Kept' /\ Start' = Start /\ \A e \in Collections : MembersOf(e)' = MembersOf(e)
  <2>1. CASE attaches
    <3>1. /\ \A s \in Devices : Attached(s) \subseteq Attached(s)'
          /\ Start' = Start /\ \E s \in Devices : c \in Attached(s)'
      BY <1>1, <1>2, <1>3, <2>1, Attaching
    <3>2. \A e \in Collections : MembersOf(e)' = MembersOf(e)
      <4> TAKE e \in Collections
      <4>1. /\ MembersOf(e) = Entries(members, Start[e])
            /\ MembersOf(e)' = Entries(members', Start'[e])
        BY <1>1, MembersAre, MembersNext
      <4> QED
        BY <1>3, <3>1, <4>1
    <3> QED
      BY <1>2, <1>3, <1>4, <3>1, <3>2 DEF Kept
  <2>2. CASE ~attaches
    <3>1. First' = First /\ Start' = Start /\ collections' = collections
      BY <1>3, <2>2 DEF First, Start
    <3>2. CASE parse.level # 1
      BY <1>1, <1>3, <1>4, <1>7, <3>1, <3>2, SameKept
    <3>3. CASE parse.level = 1
      \* What was begun has no member.
      <4>1. Start[c] = NULL \/ c = NULL
        BY <2>2, <3>3
      <4>2. \A e \in Collections : MembersOf(e)' = MembersOf(e)
        <5> TAKE e \in Collections
        <5>1. /\ MembersOf(e) = Entries(members, Start[e])
              /\ MembersOf(e)' = Entries(members', Start'[e])
          BY <1>1, MembersAre, MembersNext
        <5> QED
          BY <1>3, <3>1, <5>1
      <4>3. \A s \in Devices : Attached(s) \subseteq Attached(s)'
        BY <1>1, <3>1, AttachedGrown
      <4>4. ASSUME NEW e \in Collections, Start[e] # NULL
            PROVE \E s \in Devices : e \in Attached(s)'
        <5>1. e # NULL
          BY <1>1, HasShape DEF PoolInv, Shape, NULL
        <5> QED
          BY <1>4, <4>1, <4>3, <4>4, <5>1 DEF Kept
      <4> QED
        BY <1>3, <1>4, <3>1, <4>2, <4>4 DEF Kept
    <3> QED
      BY <3>1, <3>2, <3>3
  <2> QED
    BY <2>1, <2>2
<1>9. Building'
  <2>1. CASE parse.level = 1
    BY <1>7, <2>1 DEF Building
  <2>2. CASE parse.level # 1
    <3>1. parse.level - 1 # 0 /\ c # NULL /\ c \in Collections
      BY <1>2, <1>4, <1>6, <2>2 DEF Building
    <3> QED
      BY <1>3, <1>4, <1>7, <1>8, <2>2, <3>1 DEF Building
  <2> QED
    BY <2>1, <2>2
<1> QED
  BY <1>6, <1>7, <1>8, <1>9 DEF Whole

\* The member taken is behind the last of the collection being built.
LEMMA InputWhole == LeakInv /\ Input => LeakInv'
<1> SUFFICES ASSUME LeakInv, Input PROVE LeakInv'
  OBVIOUS
<1>1. PoolInv /\ PoolInv' /\ TypeOK /\ ParseOK /\ AtBase /\ Shape
  BY InputInv, TypeParts, HasShape DEF LeakInv, PoolInv
<1> SUFFICES ASSUME ~spoiled' PROVE Whole'
  BY <1>1 DEF LeakInv
<1>2. ~spoiled /\ FindEmptyReportDef # NULL /\ parse.pc = "parse"
  BY <1>1 DEF Input, NextIs, TypeOK
<1>3. Kept /\ Nested(parse.items, parse.level) /\ Building
  BY <1>2 DEF LeakInv, Whole
<1>4. /\ parse.items \in Seq(ItemType) /\ parse.items # <<>> /\ Head(parse.items).tag = "Input"
      /\ Item.fields \in Seq(Fields) \ {<<>>}
      /\ Rest = [parse EXCEPT !.items = Tail(parse.items)] /\ Tail(parse.items) \in Seq(ItemType)
  BY <1>1, NextItem DEF Input, NextIs, ParseOK
<1>5. parse.level \in Nat /\ parse.level > 0 /\ Nested(Tail(parse.items), parse.level)
  BY <1>3, <1>4, NestedTail
<1>6. PICK new, m, c : /\ new = FindEmptyReportDef /\ m = parse.current_member
                       /\ c = parse.current_collection
  OBVIOUS
<1>7. /\ new \in Members /\ new # NULL /\ ~members[new].used
      /\ c \in Collections /\ c # NULL /\ m \in Members \cup {NULL}
      /\ m = NULL => Start[c] = NULL
      /\ m # NULL => m \in MembersOf(c) /\ members[m].next = NULL /\ m # new
  <2>1. new \in Members /\ new # NULL /\ ~members[new].used
    BY <1>1, <1>2, <1>6, FoundFree
  <2>2. c \in Collections /\ c # NULL /\ m \in Members \cup {NULL}
    BY <1>1, <1>3, <1>5, <1>6 DEF Building, ParseOK
  <2>3. m # NULL => members[m].used
    BY <1>1, <1>6 DEF AtBase
  <2> QED
    BY <1>3, <1>6, <2>1, <2>2, <2>3 DEF Building
<1> DEFINE left == Tail(Item.fields)
<1> DEFINE items == IF left = <<>> THEN Tail(parse.items)
                    ELSE <<[tag |-> "Input", fields |-> left]>> \o Tail(parse.items)
<1> DEFINE filled == [members EXCEPT ![new] = [used |-> TRUE, field |-> Head(Item.fields),
                                               next |-> NULL]]
<1>8. /\ members' = IF m = NULL THEN filled ELSE [filled EXCEPT ![m].next = new]
      /\ collections' = IF m = NULL THEN [collections EXCEPT ![c].report_def_start = new]
                        ELSE collections
      /\ parse' = [parse EXCEPT !.items = items, !.current_member = new]
      /\ devices' = devices
  <2>1. m = NULL => collections[c].report_def_start = NULL
    BY <1>7 DEF Start
  <2> QED
    BY <1>1, <1>2, <1>4, <1>6, <1>7, <2>1 DEF Input, ParseOK
<1>9. Nested(items, parse.level)
  <2>1. CASE left = <<>>
    BY <1>5, <2>1
  <2>2. CASE left # <<>>
    <3>1. PICK i : i = [tag |-> "Input", fields |-> left]
      OBVIOUS
    <3>2. i \in ItemType /\ i.tag = "Input"
      BY <1>4, <2>2, <3>1 DEF ItemType
    <3>3. Nested(<<i>> \o Tail(parse.items), parse.level)
      BY <1>3, <1>4, <3>2, NestedRest
    <3> HIDE DEF left
    <3> QED
      BY <2>2, <3>1, <3>3
  <2> QED
    BY <2>1, <2>2
<1> HIDE DEF items
<1>10. /\ parse'.items = items /\ parse'.level = parse.level
       /\ parse'.current_collection = c /\ parse'.current_member = new
  BY <1>1, <1>6, <1>8 DEF ParseOK
<1>11. /\ filled[new].next = NULL /\ filled[new].used /\ DOMAIN filled = Members
       /\ \A x \in Members : x # new => filled[x] = members[x]
  BY <1>1, <1>7 DEF TypeOK
<1> HIDE DEF filled
<1>12. /\ members'[new].next = NULL /\ (m # NULL => members'[m].next = new)
       /\ \A x \in Members : /\ x \notin {new, m} => members'[x].next = members[x].next
                             /\ x # new => members'[x].used = members[x].used
  <2>1. CASE m = NULL
    BY <1>8, <1>11, <2>1
  <2>2. CASE m # NULL
    <3>1. m \in Members /\ m # new /\ members' = [filled EXCEPT ![m].next = new]
      BY <1>7, <1>8, <2>2
    <3>2. filled[m] = members[m] /\ members[m] \in [used : BOOLEAN, field : Fields \cup {NoField},
                                                   next : Members \cup {NULL}]
      BY <1>1, <1>11, <3>1 DEF TypeOK
    <3>3. /\ members'[m].next = new /\ members'[m].used = members[m].used
          /\ \A x \in Members : x # m => members'[x] = filled[x]
      BY <1>11, <3>1, <3>2
    <3> QED
      BY <1>11, <3>1, <3>3
  <2> QED
    BY <2>1, <2>2
<1>13. /\ \A e \in Collections : /\ collections'[e].next = collections[e].next
                                 /\ Start'[e] = IF e = c /\ m = NULL THEN new ELSE Start[e]
       /\ First' = First
  BY <1>1, <1>7, <1>8 DEF Start, First, TypeOK
<1>14. ASSUME NEW e \in Collections PROVE MembersOf(e) \subseteq MembersOf(e)'
  <2>1. Start[e] \in {NULL, Start'[e]}
    BY <1>7, <1>13
  <2>2. ASSUME NEW x \in MembersOf(e), members[x].next # NULL
        PROVE  members'[x].next = members[x].next
    <3>1. x \in Members /\ members[x].used /\ x # NULL
      BY <1>1, MembersAre DEF Shape, NULL
    <3>2. x # new /\ x # m
      BY <1>7, <2>2, <3>1
    <3> QED
      BY <1>12, <3>1, <3>2
  <2> QED
    BY <1>1, <2>1, <2>2, MembersGrown
<1>15. new \in MembersOf(c)'
  <2>1. PICK e \in Collections : e = c
    BY <1>7
  <2>2. CASE m = NULL
    <3>1. Start'[e] = new
      BY <1>13, <2>1, <2>2
    <3>2. new \in MembersOf(e)'
      BY <1>1, <1>7, <3>1, MembersNext
    <3> QED
      BY <2>1, <3>2
  <2>3. CASE m # NULL
    <3>1. m \in MembersOf(e)'
      BY <1>7, <1>14, <2>1, <2>3
    <3>2. new \in MembersOf(e)'
      BY <1>1, <1>7, <1>12, <2>3, <3>1, MembersNext
    <3> QED
      BY <2>1, <3>2
  <2> QED
    BY <2>2, <2>3
<1>16. ASSUME NEW s \in Devices PROVE Attached(s) \subseteq Attached(s)'
  <2>1. Attached(s) \subseteq Collections
    BY <1>1, AttachedIs
  <2> QED
    BY <1>1, <1>13, <2>1, AttachedGrown
<1>17. Kept'
  <2>1. ASSUME NEW e \in Collections, Start'[e] # NULL
        PROVE  e = c \/ \E s \in Devices : e \in Attached(s)'
    BY <1>3, <1>6, <1>13, <1>16, <2>1 DEF Kept
  <2>2. ASSUME NEW x \in Members, members'[x].used PROVE \E e \in Collections : x \in MembersOf(e)'
    <3>1. CASE x = new
      BY <1>7, <1>15, <3>1
    <3>2. CASE x # new
      BY <1>3, <1>12, <1>14, <2>2, <3>2 DEF Kept
    <3> QED
      BY <3>1, <3>2
  <2> QED
    BY <1>10, <2>1, <2>2 DEF Kept
<1>18. Building'
  <2>1. (parse.current_member \in MembersOf(parse.current_collection))'
    BY <1>10, <1>15 DEF MembersOf
  <2>2. /\ parse'.current_collection # NULL /\ parse'.level # 0
        /\ parse'.current_member # NULL /\ members'[parse'.current_member].next = NULL
    BY <1>5, <1>7, <1>10, <1>12
  <2> QED
    BY <2>1, <2>2 DEF Building
<1> QED
  BY <1>9, <1>10, <1>17, <1>18 DEF Whole

\* The members of the collection that is freed go to its base.
LEMMA JoinWhole == LeakInv /\ Join => LeakInv'
<1> SUFFICES ASSUME LeakInv, Join PROVE LeakInv'
  OBVIOUS
<1>1. PoolInv /\ PoolInv' /\ Shape /\ AtBase /\ ListsSeparate
  BY JoinInv, HasShape, Separate DEF LeakInv, PoolInv
<1> SUFFICES ASSUME ~spoiled' PROVE Whole'
  BY <1>1 DEF LeakInv
<1>2. Kept /\ parse.current_collection = NULL
  BY <1>1 DEF Join, LeakInv, Whole, AtBase
<1>3. PICK b, x, r, tail : /\ b = parse.base /\ x = parse.collection
                           /\ r = Start[x] /\ tail = TailOf(members, Start[b])
  OBVIOUS
<1>4. /\ b \in Collections /\ x \in Collections /\ b # x /\ collections[b].next = x
      /\ tail \in MembersOf(b) /\ r \in MembersOf(x) /\ r # NULL /\ members[tail].next = NULL
      /\ collections'[b].next = collections[x].next /\ collections'[x].next = NULL
      /\ \A y \in Collections : y \notin {b, x} => collections'[y] = collections[y]
      /\ members'[tail].next = r
      /\ \A y \in Members : y # tail => members'[y].next = members[y].next
      /\ \A y \in Members : members'[y].used = members[y].used
      /\ Start' = [Start EXCEPT ![x] = NULL] /\ First' = First
      /\ parse'.pc = "compress"
  BY <1>1, <1>3, JoinLinks
<1>5. PICK u \in Devices : b \in Attached(u) /\ b \in Attached(u)' /\ x \in Attached(u)
  BY <1>1, <1>3, JoinInv
<1>6. /\ DOMAIN Start = Collections
      /\ \A c \in Collections : Start'[c] = IF c = x THEN NULL ELSE Start[c]
  BY <1>4 DEF Start
<1>7. ASSUME NEW s \in Devices PROVE Attached(s) \subseteq Attached(s)' \cup {x}
  <2>1. /\ Attached(s) = Entries(collections, First[s]) /\ Attached(s) \subseteq Collections
        /\ First[s] \in 0..CollectionCount
        /\ \A c \in Attached(s) : collections[c].next # NULL => collections[c].next \in Attached(s)
    BY <1>1, AttachedIs
  <2>2. CASE s # u
    <3>1. b \notin Attached(s) /\ x \notin Attached(s)
      BY <1>1, <1>5, <2>2 DEF ListsSeparate
    <3>2. \A c \in Attached(s) : collections'[c].next = collections[c].next
      BY <1>4, <2>1, <3>1
    <3> QED
      BY <1>1, <1>4, <3>2, AttachedGrown
  <2>3. CASE s = u
    <3> DEFINE X == Attached(s)' \cup {x}
    <3>1. /\ First[s] # NULL => First[s] \in Attached(s)'
          /\ \A c \in Attached(s)' : collections'[c].next # NULL =>
                   collections'[c].next \in Attached(s)'
      BY <1>1, <1>4, AttachedNext
    <3>2. b \in Attached(s)'
      BY <1>5, <2>3
    <3>3. ASSUME NEW c \in X, c \in 1..CollectionCount, collections[c].next # NULL
          PROVE  collections[c].next \in X
      <4>1. CASE c = x
        BY <1>4, <3>1, <3>2, <3>3, <4>1
      <4>2. CASE c = b
        BY <1>4, <4>2
      <4>3. CASE c \notin {b, x}
        <5>1. collections'[c].next = collections[c].next /\ c \in Attached(s)'
          BY <1>1, <1>4, <3>3, <4>3 DEF Shape
        <5> QED
          BY <3>1, <3>3, <5>1
      <4> QED
        BY <4>1, <4>2, <4>3
    <3>4. First[s] \in X \/ First[s] = NULL
      BY <3>1
    <3>5. IsPool(collections, CollectionCount)
      BY <1>1 DEF Shape
    <3> HIDE DEF X
    <3>6. \A c \in X : c \in 1..CollectionCount /\ collections[c].next # NULL =>
                collections[c].next \in X
      BY <3>3
    <3>7. Entries(collections, First[s]) \subseteq X
      BY <2>1, <3>4, <3>5, <3>6, EntriesLeast
    <3> QED
      BY <2>1, <3>7 DEF X
  <2> QED
    BY <2>2, <2>3
<1>8. ASSUME NEW c \in Collections, c # x PROVE MembersOf(c) \subseteq MembersOf(c)'
  <2>1. MembersOf(c) \subseteq Members
    BY <1>1, MembersAre
  <2>2. Start[c] \in {NULL, Start'[c]}
    BY <1>6, <1>8
  <2>3. \A m \in MembersOf(c) : members[m].next # NULL => members'[m].next = members[m].next
    BY <1>4, <2>1
  <2> QED
    BY <1>1, <2>2, <2>3, MembersGrown
<1>9. MembersOf(x) \subseteq MembersOf(b)'
  <2>1. PICK c \in Collections : c = b
    BY <1>4
  <2> DEFINE X == MembersOf(c)'
  <2>2. tail \in X
    BY <1>4, <1>8, <2>1
  <2>3. r \in X
    BY <1>1, <1>4, <2>2, MembersNext
  <2>4. \A m \in X : m \in 1..MemberCount /\ members[m].next # NULL => members[m].next \in X
    <3> SUFFICES ASSUME NEW m \in X, m \in 1..MemberCount, members[m].next # NULL
                 PROVE  members[m].next \in X
      OBVIOUS
    <3>1. m # tail /\ m \in Members
      BY <1>1, <1>4 DEF Shape
    <3>2. members'[m].next = members[m].next
      BY <1>4, <3>1
    <3> QED
      BY <1>1, <3>2, MembersNext
  <2>5. /\ MembersOf(x) = Entries(members, r) /\ r \in 0..MemberCount
        /\ IsPool(members, MemberCount)
    BY <1>1, <1>3, <1>4, MembersAre DEF Shape
  <2> HIDE DEF X
  <2>6. Entries(members, r) \subseteq X
    BY <2>3, <2>4, <2>5, EntriesLeast
  <2> QED
    BY <2>1, <2>5, <2>6 DEF X
<1>10. ASSUME NEW c \in Collections, Start'[c] # NULL PROVE \E s \in Devices : c \in Attached(s)'
  <2>1. c # x /\ Start[c] # NULL /\ c # NULL
    BY <1>1, <1>6, <1>10 DEF Shape, NULL
  <2>2. PICK s \in Devices : c \in Attached(s)
    BY <1>2, <2>1 DEF Kept
  <2> QED
    BY <1>7, <2>1, <2>2
<1>11. ASSUME NEW m \in Members, members'[m].used PROVE \E c \in Collections : m \in MembersOf(c)'
  <2>1. PICK c \in Collections : m \in MembersOf(c)
    BY <1>2, <1>4, <1>11 DEF Kept
  <2>2. PICK e \in Collections : e = b
    BY <1>4
  <2>3. CASE c = x
    <3>1. m \in MembersOf(e)'
      BY <1>9, <2>1, <2>2, <2>3
    <3> QED
      BY <3>1
  <2>4. CASE c # x
    BY <1>8, <2>1, <2>4
  <2> QED
    BY <2>3, <2>4
<1> QED
  BY <1>4, <1>10, <1>11 DEF Whole, Kept

\* The other steps of the compression change no pool.
LEMMA RestWhole == LeakInv /\ (ItemsEnd \/ NextBase \/ Defined) => LeakInv'
<1> SUFFICES ASSUME LeakInv, ItemsEnd \/ NextBase \/ Defined PROVE LeakInv'
  OBVIOUS
<1>1. PoolInv /\ PoolInv' /\ AtBase /\ ParseOK
  BY ItemsEndInv, NextBaseInv, DefinedInv, TypeParts DEF LeakInv, PoolInv
<1> SUFFICES ASSUME ~spoiled' PROVE Whole'
  BY <1>1 DEF LeakInv
<1>2. ~spoiled /\ UNCHANGED <<devices, collections, members>>
  BY DEF ItemsEnd, NextBase, Defined, pools
<1>3. Kept
  BY <1>2 DEF LeakInv, Whole
<1>4. parse.current_collection = NULL
  <2>1. CASE ItemsEnd
    <3>1. /\ parse.pc = "parse" /\ parse.items \in Seq(ItemType)
          /\ parse.items = <<>> \/ (parse.items # <<>> /\ Head(parse.items).tag = "LongItem")
      BY <1>1, <2>1 DEF ItemsEnd, NextIs, ParseOK
    <3>2. Nested(parse.items, parse.level) /\ Building
      BY <1>2, <3>1 DEF LeakInv, Whole
    <3>3. parse.items = <<>>
      BY <3>1, <3>2, NestedTail
    <3>4. parse.level = 0
      BY <3>2, <3>3 DEF Nested, Nesting
    <3> QED
      BY <3>2, <3>4 DEF Building
  <2>2. CASE NextBase \/ Defined
    BY <1>1, <2>2 DEF NextBase, Defined, AtBase
  <2> QED
    BY <2>1, <2>2
<1>5. Kept'
  BY <1>1, <1>2, <1>3, <1>4, SameKept DEF First, Start
<1>6. parse'.pc \in {"idle", "compress"}
  <2>1. CASE ItemsEnd \/ Defined
    <3>1. parse' = Idle \/ \E i, b, c : parse' = [Idle EXCEPT !.pc = "compress", !.interface = i,
                                                            !.base = b, !.collection = c]
      BY <2>1, Zenon DEF ItemsEnd, Defined
    <3>2. parse' = Idle => parse'.pc = "idle"
      BY DEF Idle
    <3>3. ASSUME NEW i, NEW b, NEW c,
                 parse' = [Idle EXCEPT !.pc = "compress", !.interface = i, !.base = b,
                                       !.collection = c]
          PROVE  parse'.pc = "compress"
      BY <3>3 DEF Idle
    <3> QED
      BY <3>1, <3>2, <3>3
  <2>2. CASE NextBase
    <3>1. PICK c, n : parse' = [parse EXCEPT !.base = c, !.collection = n] /\ parse.pc = "compress"
      BY <1>1, <2>2 DEF NextBase, ParseOK
    <3> QED
      BY <1>1, <3>1 DEF ParseOK
  <2> QED
    BY <2>1, <2>2
<1> QED
  BY <1>5, <1>6 DEF Whole

\* Steps that change no pool and no parse.
LEMMA StillWhole ==
  LeakInv /\ PoolInv' /\ UNCHANGED <<devices, collections, members, parse, spoiled>> => LeakInv'
BY DEF LeakInv, Whole, Kept, Building, Start, Attached, MembersOf

\* Every entry is free.
LEMMA InitWhole == Init => LeakInv
<1> SUFFICES ASSUME Init PROVE LeakInv
  OBVIOUS
<1>1. Kept
  BY DEF Init, Kept, Start, NoCollection, NoMember
<1>2. parse.pc = "idle"
  BY DEF Init, Idle
<1> QED
  BY <1>1, <1>2, InitInv DEF LeakInv, Whole

\* Every step keeps all that is in use on a list.
LEMMA StepWhole == LeakInv /\ [Next]_vars => LeakInv'
<1> SUFFICES ASSUME LeakInv, [Next]_vars PROVE LeakInv'
  OBVIOUS
<1>0. PoolInv /\ PoolInv'
  BY StepInv DEF LeakInv
<1>1. CASE UNCHANGED vars
  BY <1>0, <1>1, StillWhole DEF vars, pools, core1
<1>2. CASE \E i \in Instances, d \in Descriptors : tuh_hid_mount_cb(i, d)
  BY <1>2, MountWhole
<1>3. CASE Aside
  <2>1. UNCHANGED <<devices, collections, members, parse, spoiled>>
    BY <1>3 DEF Aside, tuh_hid_umount_cb, parse_report, MatchCollection, ReadMember, Return,
                pools, core1
  <2> QED
    BY <1>0, <2>1, StillWhole
<1>4. CASE TakeSlot
  BY <1>4, TakeSlotWhole
<1>5. CASE Collection
  BY <1>5, CollectionWhole
<1>6. CASE EndCollection
  BY <1>6, EndCollectionWhole
<1>7. CASE ReportId
  BY <1>7, ReportIdWhole
<1>8. CASE Input
  BY <1>8, InputWhole
<1>9. CASE Join
  BY <1>9, JoinWhole
<1>10. CASE ItemsEnd \/ NextBase \/ Defined
  BY <1>10, RestWhole
<1> QED
  BY <1>1, <1>2, <1>3, <1>4, <1>5, <1>6, <1>7, <1>8, <1>9, <1>10 DEF Next, Aside

\* Between parses nothing is being built, so what is in use is on a device's list.
LEMMA Leakless == LeakInv => NoLeak
<1> SUFFICES ASSUME LeakInv, parse.pc = "idle", ~spoiled
             PROVE  LET live == UNION {Attached(s) : s \in Devices}
                    IN /\ \A c \in Collections :
                             collections[c].report_def_start # NULL => c \in live
                       /\ \A m \in Members : members[m].used => \E c \in live : m \in MembersOf(c)
  BY DEF NoLeak
<1>1. PoolInv /\ AtBase /\ Shape /\ Kept
  BY HasShape DEF LeakInv, PoolInv, Whole
<1>2. ASSUME NEW c \in Collections, Start[c] # NULL PROVE \E s \in Devices : c \in Attached(s)
  BY <1>1, <1>2 DEF Kept, AtBase, Shape, NULL
<1>3. \A c \in Collections : Start[c] = collections[c].report_def_start
  BY DEF Start
<1>4. ASSUME NEW m \in Members, members[m].used
      PROVE  \E c \in Collections : Start[c] # NULL /\ m \in MembersOf(c)
  <2>1. PICK c \in Collections : m \in MembersOf(c)
    BY <1>1, <1>4 DEF Kept
  <2> QED
    BY <1>1, <2>1, HasMembers
<1> QED
  BY <1>2, <1>3, <1>4

\* Unless something has spoiled the pools, every collection and every member in use is on
\* the list of a device whenever no descriptor is being parsed, so that re-mounting its
\* interface gives it back, for any descriptors whose collections end.
THEOREM NothingLeaks == Spec => []NoLeak
BY InitWhole, StepWhole, Leakless, PTL DEF Spec
=============================================================================
