---------------------------- MODULE EepromProofs ----------------------------
(***************************************************************************)
(* Proofs about the EEPROM emulation, for every size of the compacted area *)
(* and of the log.  IInv is the inductive invariant: its first part says   *)
(* how far the loops of eeprom_clear, eeprom_compact and the replay have   *)
(* come, its second part (Sound) what the flash looks like as long as      *)
(* neither of the hazards that intact records has struck.                  *)
(***************************************************************************)
EXTENDS MCEeprom, TLAPS, WellFoundedInduction

Blank        == \A w \in Words : compacted[w] = Zero
EmptyFrom(n) == \A p \in LogIdx : p >= n => wlog[p].kind = "empty"

\* n is where an entry may start.
Boundary(n) == n > 2 => wlog[n - 1].kind # "next"

\* A value follows its address, an address is followed by its value or by a
\* halfword a crash left erased, and nothing else interrupts the log.
CellShape(p) ==
    /\ wlog[p].kind \in {"empty", "byte", "word", "next", "data"}
    /\ wlog[p].kind = "data" => ~Boundary(p)
    /\ wlog[p].kind = "next" => p + 1 \in LogIdx /\ wlog[p + 1].kind \in {"empty", "data"}
    /\ wlog[p].kind = "empty" => ~Boundary(p) \/ EmptyFrom(p)

\* No entry is missing below n: a halfword left erased there follows an address.
Filled(n) ==
    \A p \in LogIdx : p >= 2 /\ p < n /\ wlog[p].kind = "empty" => ~Boundary(p)

LogShape == \A p \in LogIdx : p >= 2 => CellShape(p)

\* What every interrupted operation leaves behind.
FlashFit ==
    /\ MagicOK => LogShape
    /\ ~MagicOK => Blank

-----------------------------------------------------------------------------
(* How far the loops have come.                                            *)
ReplayPos == pc = "replay" => pos \in 2 .. LogLen

ErasePos ==
    pc = "erase" =>
        /\ pos \in 0 .. NumPages - 1
        /\ \A w \in Words : CPage(w) < pos => compacted[w] = Zero
        /\ \A p \in LogIdx : LPage(p) < pos => wlog[p].kind = "empty"

MagicPos ==
    /\ pc = "magic0" => Blank /\ EmptyFrom(0)
    /\ pc = "magic1" => Blank /\ EmptyFrom(1) /\ wlog[0].kind = "magic0"

CompactPos ==
    pc = "compact" =>
        /\ pos <= NumWords /\ empty_slot = 0
        /\ MagicOK /\ EmptyFrom(2)
        /\ \A w \in Words : compacted[w] = IF w < pos THEN DataBuf[w] ELSE Zero

WritePos ==
    /\ todo # {} => \/ pc \in {"log", "value", "compact"}
                    \/ pc \in {"erase", "magic0", "magic1"} /\ resume = "compact"
    /\ cur >= ByteWords => todo \in {{}, Halves}
    /\ pc \in {"log", "value"} => todo # {}
    /\ pc = "value" => empty_slot < LogLen /\ cur >= ByteWords

Loops == ReplayPos /\ ErasePos /\ MagicPos /\ CompactPos /\ WritePos

-----------------------------------------------------------------------------
(* What the flash looks like while the state is intact.                    *)
Serving == pc \in {"idle", "log", "value"}

\* The first free halfword; 0 stands for a log nobody has written to since it
\* was compacted.
SlotFit ==
    /\ empty_slot # 1
    /\ EmptyFrom(IF empty_slot = 0 THEN 2 ELSE empty_slot)
    /\ Filled(empty_slot)
    /\ IF pc = "value" THEN empty_slot > 2 /\ wlog[empty_slot - 1] = NextEntry(cur)
                       ELSE Boundary(empty_slot)

\* What has reached the flash is all but the bytes a write still has to log.
Reached ==
    \A w \in Words, s \in Halves :
        pc = "idle" \/ w # cur \/ s \notin todo => Persisted(w, s, DataBuf[w][s])

Replayed == \A w \in Words, s \in Halves : ReadUpTo(pos, w, s, DataBuf[w][s])

Sound ==
    intact =>
        /\ FlashFit
        /\ pc # "erase" => ~Orphaned
        /\ pc \in {"erase", "magic0", "magic1"} /\ resume = "init"
              => \A w \in Words : DataBuf[w] = Zero
        /\ pc = "replay" => MagicOK /\ Boundary(pos) /\ Filled(pos) /\ Replayed
        /\ Serving => MagicOK /\ SlotFit /\ Reached
        /\ pc \in {"log", "value"} /\ empty_slot > 0 => compacted[cur] # Zero

IInv == TypeOK /\ Loops /\ Sound

-----------------------------------------------------------------------------
(* Types.                                                                  *)

\* Zero is a word, and what the constructors of log cells build are cells.
LEMMA CellTypes ==
    /\ Zero \in Word
    /\ \A k \in Kinds : Marker(k) \in Cell
    /\ \A w \in Words, s \in Halves, b \in Byte : ByteEntry(w, s, b) \in Cell
    /\ \A w \in Words, v \in Word : WordEntry(w, v) \in Cell /\ NextEntry(w) \in Cell /\ DataCell(v) \in Cell
<1>1. Zero \in Word /\ 0 \in Words /\ 0 \in Halves
  BY SizeAssumption DEF Zero, Word, Byte, Words, Halves
<1>2. \A s \in Halves, b \in Byte : [Zero EXCEPT ![s] = b] \in Word
  BY <1>1 DEF Word
<1> QED
  BY <1>1, <1>2 DEF Cell, Kinds, Marker, ByteEntry, WordEntry, NextEntry, DataCell

\* Programming one halfword changes that halfword only.
LEMMA ProgramEffect ==
    ASSUME NEW p, NEW cell \in Cell, wlog \in [LogIdx -> Cell], Program(p, cell)
    PROVE  /\ wlog' \in [LogIdx -> Cell]
           /\ \A q \in LogIdx : q # p => wlog'[q] = wlog[q]
           /\ p \in LogIdx /\ wlog[p].kind = "empty" => wlog'[p] = cell
           /\ p \in LogIdx => wlog'[p].kind # "empty" \/ cell.kind = "empty"
<1>1. PICK g \in BOOLEAN :
        wlog' = [q \in LogIdx |-> IF q = p THEN Programmed(wlog[q], cell, g) ELSE wlog[q]]
  BY DEF Program
<1>2. Marker("garbled") \in Cell
  BY CellTypes DEF Kinds
<1>3. Marker("garbled").kind # "empty"
  BY DEF Marker
<1> QED
  BY <1>1, <1>2, <1>3 DEF Programmed

\* An erased flash satisfies the inductive invariant before the first EEPROM_Init.
LEMMA InitInv == Init => IInv
<1> SUFFICES ASSUME Init PROVE IInv
  OBVIOUS
<1>1. Zero \in Word /\ Empty \in Cell /\ Empty.kind = "empty" /\ 0 \in Words
  BY CellTypes, SizeAssumption DEF Empty, Kinds, Marker, Words
<1>2. TypeOK
  BY <1>1, SizeAssumption DEF Init, TypeOK
<1>3. Loops
  BY DEF Init, Loops, ReplayPos, ErasePos, MagicPos, CompactPos, WritePos
<1>4. ~MagicOK /\ Blank
  BY <1>1, SizeAssumption DEF Init, MagicOK, Blank, LogIdx, Empty, Marker
<1>5. Sound
  BY <1>4 DEF Init, Sound, FlashFit, Orphaned, Serving
<1> QED
  BY <1>2, <1>3, <1>5 DEF IInv

-----------------------------------------------------------------------------
(* The types and the loops, one action at a time.                          *)

\* Loading the compacted area starts the replay or the erase at its first position.
LEMMA InitLoops ==
    ASSUME TypeOK, Loops, EEPROM_Init PROVE TypeOK' /\ Loops'
<1> USE DEF EEPROM_Init, flash
<1>1. TypeOK'
  BY DEF TypeOK
<1>2. ReplayPos' /\ MagicPos' /\ CompactPos' /\ WritePos'
  BY SizeAssumption DEF TypeOK, Loops, ReplayPos, MagicPos, CompactPos, WritePos
<1>3. ErasePos'
  <2> SUFFICES ASSUME pc' = "erase" PROVE ErasePos'
    BY DEF ErasePos
  <2>1. pos' = 0 /\ 0 \in 0 .. NumPages - 1
    BY PageAssumption, SizeAssumption DEF LogIdx
  <2>2. (\A w \in Words : ~(CPage(w) < 0)) /\ (\A p \in LogIdx : ~(LPage(p) < 0))
    BY PageAssumption
  <2> QED
    BY <2>1, <2>2 DEF ErasePos
<1> QED
  BY <1>1, <1>2, <1>3 DEF Loops

\* The replay stays within the log.
LEMMA ReplayLoops ==
    ASSUME TypeOK, Loops, ReplayEntry \/ ReplayEnd PROVE TypeOK' /\ Loops'
<1>1. pos \in 2 .. LogLen /\ pc = "replay" /\ UNCHANGED <<flash, cur, todo, resume, intact>>
  BY DEF ReplayEntry, ReplayEnd, Loops, ReplayPos
<1>2. CASE ReplayEntry
  <2> DEFINE e == wlog[pos]
  <2>1. pos \in LogIdx /\ e \in Cell /\ pos < LogLen
    BY <1>1, <1>2, SizeAssumption DEF ReplayEntry, AtEntry, TypeOK, LogIdx
  <2>2. e.w \in Words /\ e.s \in Halves /\ e.val \in Word /\ e.val[e.s] \in Byte
    BY <2>1 DEF Cell, Word
  <2>3. Misread => DataBuf' \in [Words -> Word] /\ pos' \in 2 .. LogLen
    BY <1>1, SizeAssumption DEF Misread, TypeOK
  <2>4. e.kind = "next" /\ ReplayNext(e) => DataBuf' \in [Words -> Word] /\ pos' \in 2 .. LogLen
    <3>1. pos + 1 < LogLen => wlog[pos + 1].val \in Word
      BY <2>1, SizeAssumption DEF TypeOK, Cell, LogIdx
    <3> QED
      BY <1>1, <2>1, <2>2, <2>3, <3>1, SizeAssumption DEF ReplayNext, TypeOK
  <2>5. e.kind = "byte" /\ DataBuf' = [DataBuf EXCEPT ![e.w][e.s] = e.val[e.s]]
            => DataBuf' \in [Words -> Word]
    BY <2>2 DEF TypeOK, Word
  <2>6. e.kind = "word" /\ DataBuf' = [DataBuf EXCEPT ![e.w] = e.val] => DataBuf' \in [Words -> Word]
    BY <2>2 DEF TypeOK
  <2>7. DataBuf' \in [Words -> Word] /\ pos' \in 2 .. LogLen
    BY <1>1, <1>2, <2>1, <2>3, <2>4, <2>5, <2>6, SizeAssumption DEF ReplayEntry
  <2>8. UNCHANGED <<flash, empty_slot, pc, resume, cur, todo, intact>>
    BY <1>2 DEF ReplayEntry
  <2> QED
    BY <1>1, <2>7, <2>8, SizeAssumption DEF TypeOK, flash, Loops, ReplayPos, ErasePos, MagicPos, CompactPos, WritePos
<1>3. CASE ReplayEnd
  BY <1>1, <1>3, SizeAssumption
     DEF ReplayEnd, TypeOK, flash, Loops, ReplayPos, ErasePos, MagicPos, CompactPos, WritePos
<1> QED
  BY <1>2, <1>3

\* The arithmetic of the pages, and the cells the magic is made of.
LEMMA SizeFacts ==
    /\ 0 \in LogIdx /\ 1 \in LogIdx /\ LogIdx \subseteq Nat /\ Words \subseteq Nat
    /\ FirstLogPage < NumPages /\ 0 \in Words
    /\ Empty \in Cell /\ Empty.kind = "empty"
    /\ Marker("magic0") \in Cell /\ Marker("magic0").kind = "magic0"
    /\ Marker("magic1") \in Cell /\ Marker("magic1").kind = "magic1"
<1>1. 0 \in LogIdx /\ 1 \in LogIdx /\ LogIdx \subseteq Nat /\ Words \subseteq Nat /\ 0 \in Words
  BY SizeAssumption DEF LogIdx, Words
<1>2. FirstLogPage < NumPages
  BY <1>1, PageAssumption
<1> QED
  BY <1>1, <1>2, CellTypes DEF Empty, Kinds, Marker

\* A page erase clears the cells of its page and keeps the others.
LEMMA ErasePageLoops ==
    ASSUME TypeOK, Loops, ErasePage PROVE TypeOK' /\ Loops'
<1>1. pc = "erase" /\ pos \in 0 .. NumPages - 1
  BY DEF ErasePage, Loops, ErasePos
<1>2. /\ compacted' = [w \in Words |-> IF CPage(w) = pos THEN Zero ELSE compacted[w]]
      /\ wlog' = [p \in LogIdx |-> IF LPage(p) = pos THEN Empty ELSE wlog[p]]
      /\ UNCHANGED <<DataBuf, empty_slot, resume, cur, todo, intact>>
  BY DEF ErasePage
<1>3. \/ pos + 1 < NumPages /\ pos' = pos + 1 /\ pc' = "erase"
      \/ pos + 1 = NumPages /\ pos' = 0 /\ pc' = "magic0"
  BY <1>1, PageAssumption DEF ErasePage
<1>4. compacted' \in [Words -> Word] /\ wlog' \in [LogIdx -> Cell]
  BY <1>2, CellTypes, SizeFacts DEF TypeOK
<1>5. TypeOK'
  BY <1>1, <1>2, <1>3, <1>4 DEF TypeOK
<1>6. /\ \A w \in Words : CPage(w) < pos + 1 => compacted'[w] = Zero
      /\ \A p \in LogIdx : LPage(p) < pos + 1 => wlog'[p].kind = "empty"
  <2>1. \A w \in Words : CPage(w) < pos + 1 => CPage(w) < pos \/ CPage(w) = pos
    BY <1>1, PageAssumption
  <2>2. \A p \in LogIdx : LPage(p) < pos + 1 => LPage(p) < pos \/ LPage(p) = pos
    BY <1>1, PageAssumption
  <2> QED
    BY <1>1, <1>2, <2>1, <2>2, SizeFacts DEF Loops, ErasePos
<1>7. ErasePos'
  BY <1>1, <1>3, <1>6, PageAssumption DEF ErasePos
<1>8. pos + 1 = NumPages => Blank' /\ EmptyFrom(0)'
  <2> SUFFICES ASSUME pos + 1 = NumPages PROVE Blank' /\ EmptyFrom(0)'
    OBVIOUS
  <2>1. \A w \in Words : CPage(w) < pos + 1
    BY PageAssumption, SizeFacts
  <2>2. \A p \in LogIdx : LPage(p) < pos + 1
    BY PageAssumption
  <2> QED
    BY <1>6, <2>1, <2>2 DEF Blank, EmptyFrom
<1>9. ReplayPos' /\ MagicPos' /\ CompactPos' /\ WritePos'
  BY <1>1, <1>2, <1>3, <1>8, PageAssumption
     DEF Loops, ReplayPos, MagicPos, CompactPos, WritePos
<1> QED
  BY <1>5, <1>7, <1>9 DEF Loops

\* The magic is written on an erased log; the next loop starts at its beginning.
LEMMA MagicLoops ==
    ASSUME TypeOK, Loops, ProgramMagic0 \/ ProgramMagic1 PROVE TypeOK' /\ Loops'
<1>1. CASE ProgramMagic0
  <2>1. /\ pc = "magic0" /\ pc' = "magic1" /\ Program(0, Marker("magic0"))
        /\ UNCHANGED <<compacted, DataBuf, empty_slot, pos, resume, cur, todo, intact>>
    BY <1>1 DEF ProgramMagic0
  <2>2. Blank /\ EmptyFrom(0)
    BY <2>1 DEF Loops, MagicPos
  <2>3. /\ wlog' \in [LogIdx -> Cell] /\ wlog'[0] = Marker("magic0")
        /\ \A q \in LogIdx : q # 0 => wlog'[q] = wlog[q]
    BY <2>1, <2>2, SizeFacts, ProgramEffect DEF TypeOK, EmptyFrom
  <2>4. Blank' /\ EmptyFrom(1)'
    BY <2>1, <2>2, <2>3, SizeFacts DEF Blank, EmptyFrom
  <2> QED
    BY <2>1, <2>3, <2>4, SizeFacts
       DEF TypeOK, Loops, ReplayPos, ErasePos, MagicPos, CompactPos, WritePos
<1>2. CASE ProgramMagic1
  <2>1. /\ pc = "magic1" /\ Program(1, Marker("magic1")) /\ empty_slot' = 0
        /\ pc' \in {"replay", "load", "compact"}
        /\ pc' = "replay" => pos' = 2
        /\ pos' \in {0, 2} /\ (pc' = "compact" => pos' = 0)
        /\ intact' \in BOOLEAN /\ (resume = "compact" => pc' = "compact")
        /\ UNCHANGED <<compacted, DataBuf, resume, cur, todo>>
    BY <1>2 DEF ProgramMagic1, ClearedSlot, TypeOK
  <2>2. Blank /\ EmptyFrom(1) /\ wlog[0].kind = "magic0"
    BY <2>1 DEF Loops, MagicPos
  <2>3. /\ wlog' \in [LogIdx -> Cell] /\ wlog'[1] = Marker("magic1")
        /\ \A q \in LogIdx : q # 1 => wlog'[q] = wlog[q]
    BY <2>1, <2>2, SizeFacts, ProgramEffect DEF TypeOK, EmptyFrom
  <2>4. Blank' /\ EmptyFrom(2)' /\ MagicOK'
    BY <2>1, <2>2, <2>3, SizeFacts DEF Blank, EmptyFrom, MagicOK
  <2>5. CompactPos'
    <3>1. \A w \in Words : ~(w < 0)
      BY SizeFacts
    <3> QED
      BY <2>1, <2>4, <3>1, SizeAssumption DEF CompactPos, Blank
  <2> QED
    BY <2>1, <2>3, <2>5, SizeAssumption
       DEF TypeOK, Loops, ReplayPos, ErasePos, MagicPos, WritePos
<1> QED
  BY <1>1, <1>2

\* Compacting fills the erased area word by word; at its end the write goes on.
LEMMA CompactLoops ==
    ASSUME TypeOK, Loops, CompactWord \/ CompactEnd PROVE TypeOK' /\ Loops'
<1>1. /\ pc = "compact" /\ pos <= NumWords /\ empty_slot = 0 /\ MagicOK /\ EmptyFrom(2)
      /\ \A w \in Words : compacted[w] = IF w < pos THEN DataBuf[w] ELSE Zero
  BY DEF CompactWord, CompactEnd, Loops, CompactPos
<1>2. CASE CompactWord
  <2>1. /\ pos \in Words /\ pos' = pos + 1
        /\ compacted' = [compacted EXCEPT ![pos] = ProgrammedWord(compacted[pos], DataBuf[pos])]
        /\ UNCHANGED <<wlog, DataBuf, empty_slot, pc, resume, cur, todo, intact>>
    BY <1>2, SizeAssumption DEF CompactWord, Words, TypeOK
  <2>2. compacted[pos] = Zero /\ DataBuf[pos] \in Word
    BY <1>1, <2>1, SizeFacts DEF TypeOK
  <2>3. ProgrammedWord(compacted[pos], DataBuf[pos]) = DataBuf[pos]
    BY <2>2 DEF ProgrammedWord, Zero, Word
  <2>4. compacted' = [compacted EXCEPT ![pos] = DataBuf[pos]] /\ compacted' \in [Words -> Word]
    BY <2>1, <2>2, <2>3 DEF TypeOK
  <2>5. \A w \in Words : compacted'[w] = IF w < pos + 1 THEN DataBuf[w] ELSE Zero
    BY <1>1, <2>1, <2>4, SizeFacts DEF TypeOK
  <2>6. CompactPos'
    BY <1>1, <2>1, <2>5, SizeAssumption DEF CompactPos, Words, MagicOK, EmptyFrom
  <2> QED
    BY <1>1, <2>1, <2>4, <2>6 DEF TypeOK, Loops, ReplayPos, ErasePos, MagicPos, WritePos
<1>3. CASE CompactEnd
  BY <1>1, <1>3, SizeAssumption
     DEF CompactEnd, Continue, flash, TypeOK, Loops, ReplayPos, ErasePos, MagicPos, CompactPos, WritePos
<1> QED
  BY <1>2, <1>3

\* A write call leaves the byte or word it is about to the log.
LEMMA CallLoops ==
    ASSUME TypeOK, Loops, NEW w \in Words, NEW new \in Word, EEPROM_WriteData(w, new)
    PROVE  TypeOK' /\ Loops'
<1>1. /\ pc = "idle" /\ new # DataBuf[w] /\ DataBuf[w] \in Word
      /\ DataBuf' = [DataBuf EXCEPT ![w] = new] /\ cur' = w
      /\ UNCHANGED <<wlog, empty_slot, pos, resume, intact>>
  BY DEF EEPROM_WriteData, TypeOK
<1>2. {s \in Halves : new[s] # DataBuf[w][s]} # {}
  BY <1>1 DEF Word
<1>3. CASE compacted[w] = Zero
  <2>1. compacted' = [compacted EXCEPT ![w] = new] /\ UNCHANGED <<pc, todo>>
    BY <1>3 DEF EEPROM_WriteData
  <2> QED
    BY <1>1, <2>1
       DEF TypeOK, Loops, ReplayPos, ErasePos, MagicPos, CompactPos, WritePos
<1>4. CASE compacted[w] # Zero
  <2>1. pc' = "log" /\ UNCHANGED compacted /\ todo' \in SUBSET Halves
    BY <1>4 DEF EEPROM_WriteData
  <2>2. todo' # {} /\ (w >= ByteWords => todo' = Halves)
    BY <1>2, <1>4, SizeFacts, SizeAssumption DEF EEPROM_WriteData, Halves
  <2> QED
    BY <1>1, <2>1, <2>2
       DEF TypeOK, Loops, ReplayPos, ErasePos, MagicPos, CompactPos, WritePos
<1> QED
  BY <1>3, <1>4

\* The entries a write appends are cells.
LEMMA EntryCells ==
    ASSUME TypeOK
    PROVE  /\ \A s \in Halves : ByteEntry(cur, s, DataBuf[cur][s]) \in Cell
           /\ WordEntry(cur, DataBuf[cur]) \in Cell
           /\ NextEntry(cur) \in Cell
           /\ DataCell(DataBuf[cur]) \in Cell
BY CellTypes DEF TypeOK, Word

\* Logging stays within the log, and the full log is compacted.
LEMMA LogLoops ==
    ASSUME TypeOK, Loops, LogByte \/ LogWord \/ LogWordValue PROVE TypeOK' /\ Loops'
<1>1. pc \in {"log", "value"} /\ todo # {}
  BY DEF LogByte, LogWord, LogWordValue, Loops, WritePos
<1>2. ASSUME NEW cell \in Cell, Append(cell), empty_slot < LogLen,
             NEW rest \in SUBSET todo, rest = {} \/ cur < ByteWords, Continue(rest),
             UNCHANGED <<compacted, DataBuf, pos, resume, cur>>
      PROVE  TypeOK' /\ Loops'
  <2>1. empty_slot \in LogIdx /\ empty_slot' = empty_slot + 1 /\ empty_slot' \in 0 .. LogLen
    BY <1>2, SizeAssumption DEF Append, TypeOK, LogIdx
  <2>2. wlog' \in [LogIdx -> Cell] /\ intact' \in BOOLEAN
    BY <1>2, ProgramEffect DEF Append, Tarnish, TypeOK
  <2>3. /\ todo' = rest /\ pc' \in {"idle", "log"} /\ rest \in SUBSET Halves
        /\ rest # {} => pc' = "log"
        /\ rest = {} => pc' = "idle"
    BY <1>2 DEF Continue, TypeOK
  <2>4. cur >= ByteWords => rest = {}
    BY <1>2, SizeFacts, SizeAssumption DEF TypeOK
  <2> QED
    BY <1>2, <2>1, <2>2, <2>3, <2>4
       DEF TypeOK, Loops, ReplayPos, ErasePos, MagicPos, CompactPos, WritePos
<1>3. ASSUME NEW rest \in SUBSET todo, rest = {} \/ cur < ByteWords, StartCompact(rest)
      PROVE  TypeOK' /\ Loops'
  <2>1. /\ pc' = "erase" /\ pos' = 0 /\ resume' = "compact" /\ todo' = rest
        /\ UNCHANGED <<flash, DataBuf, empty_slot, cur, intact>>
    BY <1>3 DEF StartCompact
  <2>2. cur >= ByteWords => rest = {}
    BY <1>3, SizeFacts, SizeAssumption DEF TypeOK
  <2>3. TypeOK'
    BY <2>1 DEF TypeOK, flash
  <2>4. ReplayPos' /\ MagicPos' /\ CompactPos' /\ WritePos'
    BY <2>1, <2>2 DEF ReplayPos, MagicPos, CompactPos, WritePos
  <2>5. ErasePos'
    <3>1. 0 \in 0 .. NumPages - 1
      BY SizeFacts, PageAssumption
    <3>2. (\A w \in Words : ~(CPage(w) < 0)) /\ (\A p \in LogIdx : ~(LPage(p) < 0))
      BY PageAssumption
    <3> QED
      BY <2>1, <3>1, <3>2 DEF ErasePos
  <2> QED
    BY <2>3, <2>4, <2>5 DEF Loops
<1>4. CASE LogByte
  <2> DEFINE s == NextHalf
  <2>1. s \in Halves /\ cur < ByteWords /\ todo \ {s} \in SUBSET todo
    BY <1>4 DEF LogByte, NextHalf, Halves
  <2>2. CASE StartCompact(todo \ {s})
    BY <1>3, <2>1, <2>2
  <2>3. CASE /\ ~ByteLogFull
             /\ Append(ByteEntry(cur, s, DataBuf[cur][s]))
             /\ Continue(todo \ {s})
             /\ UNCHANGED <<compacted, DataBuf, pos, resume, cur>>
    <3>1. empty_slot < LogLen
      BY <2>3, SizeAssumption DEF ByteLogFull, TypeOK
    <3>2. ByteEntry(cur, s, DataBuf[cur][s]) \in Cell
      BY <2>1, EntryCells
    <3> QED
      BY <1>2, <2>1, <2>3, <3>1, <3>2
  <2> QED
    BY <1>4, <2>2, <2>3 DEF LogByte
<1>5. CASE LogWord
  <2>1. pc = "log" /\ cur >= ByteWords /\ cur \in Nat
    BY <1>5, SizeFacts DEF LogWord, TypeOK
  <2>2. CASE StartCompact({})
    BY <1>3, <2>2
  <2>3. CASE /\ ~WordLogFull /\ Encodable(DataBuf[cur])
             /\ Append(WordEntry(cur, DataBuf[cur]))
             /\ Continue({})
             /\ UNCHANGED <<compacted, DataBuf, pos, resume, cur>>
    <3>1. empty_slot < LogLen
      BY <2>3, SizeAssumption DEF WordLogFull, EntrySize, TypeOK
    <3> QED
      BY <1>2, <2>3, <3>1, EntryCells
  <2>4. CASE /\ ~WordLogFull /\ ~Encodable(DataBuf[cur])
             /\ Append(NextEntry(cur)) /\ pc' = "value" /\ UNCHANGED todo
             /\ UNCHANGED <<compacted, DataBuf, pos, resume, cur>>
    <3>1. empty_slot + 1 < LogLen /\ empty_slot' = empty_slot + 1
      BY <2>4, SizeAssumption DEF WordLogFull, EntrySize, Append, TypeOK
    <3>2. wlog' \in [LogIdx -> Cell] /\ intact' \in BOOLEAN
      BY <2>4, ProgramEffect, EntryCells DEF Append, Tarnish, TypeOK
    <3>3. TypeOK'
      BY <2>4, <3>1, <3>2, SizeAssumption DEF TypeOK
    <3> QED
      BY <1>1, <2>1, <2>4, <3>1, <3>3
         DEF Loops, ReplayPos, ErasePos, MagicPos, CompactPos, WritePos
  <2> QED
    BY <1>5, <2>2, <2>3, <2>4 DEF LogWord
<1>6. CASE LogWordValue
  <2>1. empty_slot < LogLen
    BY <1>6 DEF LogWordValue, Loops, WritePos
  <2> QED
    BY <1>2, <1>6, <2>1, EntryCells DEF LogWordValue
<1> QED
  BY <1>4, <1>5, <1>6

\* Erasing on demand and a power loss start over.
LEMMA RestartLoops ==
    ASSUME TypeOK, Loops, EEPROM_Erase \/ Crash PROVE TypeOK' /\ Loops'
<1>1. CASE EEPROM_Erase
  <2>1. 0 \in 0 .. NumPages - 1
    BY SizeFacts, PageAssumption
  <2>2. (\A w \in Words : ~(CPage(w) < 0)) /\ (\A p \in LogIdx : ~(LPage(p) < 0))
    BY PageAssumption
  <2> QED
    BY <1>1, <2>1, <2>2
       DEF EEPROM_Erase, flash, TypeOK, Loops, ReplayPos, ErasePos, MagicPos, CompactPos, WritePos
<1>2. CASE Crash
  BY <1>2, CellTypes, SizeFacts, SizeAssumption
     DEF Crash, flash, TypeOK, Loops, ReplayPos, ErasePos, MagicPos, CompactPos, WritePos
<1> QED
  BY <1>1, <1>2

\* Every step keeps the types and the bounds of the loops.
LEMMA StepLoops == TypeOK /\ Loops /\ [Next]_vars => TypeOK' /\ Loops'
<1> SUFFICES ASSUME TypeOK, Loops, [Next]_vars PROVE TypeOK' /\ Loops'
  OBVIOUS
<1>1. CASE Step
  BY <1>1, InitLoops, ReplayLoops, ErasePageLoops, MagicLoops, CompactLoops, LogLoops DEF Step
<1>2. CASE Call
  BY <1>2, CallLoops, RestartLoops DEF Call
<1>3. CASE Crash
  BY <1>3, RestartLoops
<1>4. CASE UNCHANGED vars
  BY <1>4 DEF vars, TypeOK, Loops, ReplayPos, ErasePos, MagicPos, CompactPos, WritePos,
              Blank, EmptyFrom, MagicOK
<1> QED
  BY <1>1, <1>2, <1>3, <1>4 DEF Next

\* TypeOK holds in every reachable state: in particular the log is never addressed
\* beyond its last halfword, whatever the sizes (empty_slot, pos).
THEOREM TypeCorrect == Spec => []TypeOK
<1>1. Init => TypeOK /\ Loops
  BY InitInv DEF IInv
<1> QED
  BY <1>1, StepLoops, PTL DEF Spec

-----------------------------------------------------------------------------
(* Reading the log.                                                        *)

\* Positions that do not affect a byte do not change what is read of it.
LEMMA ReadExtend ==
    ASSUME NEW n \in Nat, NEW m \in Nat, n <= m, NEW w, NEW s, NEW v,
           ReadUpTo(n, w, s, v),
           \A q \in LogIdx : q >= n /\ q < m => ~Affects(q, w, s)
    PROVE  ReadUpTo(m, w, s, v)
<1>1. CASE \E p \in LogIdx : Latest(p, n, w, s) /\ v = LogValue(p, s)
  <2>1. PICK p \in LogIdx : Latest(p, n, w, s) /\ v = LogValue(p, s)
    BY <1>1
  <2>2. Latest(p, m, w, s)
    <3>1. \A q \in LogIdx : q > p /\ q < m => ~Affects(q, w, s)
      BY <2>1, SizeFacts DEF Latest
    <3> QED
      BY <2>1, <3>1, SizeFacts DEF Latest
  <2> QED
    BY <2>1, <2>2 DEF ReadUpTo
<1>2. CASE (\A p \in LogIdx : p >= 2 /\ p < n => ~Affects(p, w, s)) /\ v = compacted[w][s]
  <2>1. \A p \in LogIdx : p >= 2 /\ p < m => ~Affects(p, w, s)
    BY <1>2, SizeFacts
  <2> QED
    BY <1>2, <2>1 DEF ReadUpTo
<1> QED
  BY <1>1, <1>2 DEF ReadUpTo

\* The value of the last entry about a byte is the one that is read.
LEMMA ReadLast ==
    ASSUME NEW p \in LogIdx, NEW n \in Nat, NEW w, NEW s,
           p >= 2, p < n, Affects(p, w, s),
           \A q \in LogIdx : q > p /\ q < n => ~Affects(q, w, s)
    PROVE  ReadUpTo(n, w, s, LogValue(p, s))
BY DEF ReadUpTo, Latest

\* Without an entry about a byte, the compacted area gives its value.
LEMMA ReadNone ==
    ASSUME NEW n, NEW w, NEW s,
           \A q \in LogIdx : q >= 2 /\ q < n => ~Affects(q, w, s)
    PROVE  ReadUpTo(n, w, s, compacted[w][s])
BY DEF ReadUpTo

\* Erased halfwords affect nothing.
LEMMA EmptyAffects ==
    ASSUME NEW n, EmptyFrom(n)
    PROVE  \A q \in LogIdx, w \in Words, s \in Halves : q >= n => ~Affects(q, w, s)
BY DEF EmptyFrom, Affects

\* Right after the magic is written there is nothing to read but the erased area.
LEMMA FreshLog ==
    ASSUME EmptyFrom(2), TypeOK
    PROVE  LogShape /\ Filled(2) /\ ~Orphaned
<1>1. LogShape
  <2> SUFFICES ASSUME NEW p \in LogIdx, p >= 2 PROVE CellShape(p)
    BY DEF LogShape
  <2>1. wlog[p].kind = "empty" /\ EmptyFrom(p)
    BY SizeFacts DEF EmptyFrom
  <2> QED
    BY <2>1 DEF CellShape
<1>2. Filled(2)
  BY SizeAssumption DEF Filled, LogIdx
<1>3. ~Orphaned
  BY EmptyAffects DEF Orphaned
<1> QED
  BY <1>1, <1>2, <1>3

-----------------------------------------------------------------------------
(* The flash, one action at a time.                                        *)

\* The cache is loaded from a flash that fits: from the compacted area and an
\* unread log, or all zero from a blank area.
LEMMA InitSound ==
    ASSUME IInv, EEPROM_Init PROVE Sound'
<1> SUFFICES ASSUME intact' PROVE Sound'
  BY DEF Sound
<1>1. pc = "load" /\ DataBuf' = compacted /\ UNCHANGED <<compacted, wlog, intact>>
  BY DEF EEPROM_Init, flash
<1>2. intact /\ FlashFit /\ ~Orphaned
  BY <1>1 DEF IInv, Sound
<1>3. CASE MagicOK
  <2>1. pc' = "replay" /\ pos' = 2
    BY <1>3 DEF EEPROM_Init
  <2>2. Boundary(2) /\ Filled(2)
    BY SizeAssumption DEF Boundary, Filled, LogIdx
  <2>3. \A w \in Words, s \in Halves : ReadUpTo(2, w, s, compacted[w][s])
    <3>1. \A q \in LogIdx : ~(q >= 2 /\ q < 2)
      BY SizeAssumption DEF LogIdx
    <3> QED
      BY <3>1, ReadNone
  <2>5. Replayed'
    BY <1>1, <2>1, <2>3 DEF Replayed, ReadUpTo, Latest, Affects, LogValue
  <2>6. (MagicOK /\ Boundary(pos) /\ Filled(pos))'
    BY <1>1, <1>3, <2>1, <2>2 DEF MagicOK, Boundary, Filled
  <2>7. FlashFit' /\ ~Orphaned'
    BY <1>1, <1>2 DEF FlashFit, MagicOK, LogShape, CellShape, Boundary, EmptyFrom, Blank, Orphaned, Affects
  <2> QED
    BY <2>1, <2>5, <2>6, <2>7 DEF Sound, Serving
<1>4. CASE ~MagicOK
  <2>1. pc' = "erase" /\ \A w \in Words : DataBuf'[w] = Zero
    BY <1>1, <1>2, <1>4 DEF EEPROM_Init, FlashFit, Blank
  <2>2. FlashFit'
    BY <1>1, <1>2, <1>4 DEF FlashFit, MagicOK, Blank
  <2> QED
    BY <2>1, <2>2 DEF Sound, Serving
<1> QED
  BY <1>3, <1>4

\* A replay step reads the entry at pos into the cache.
LEMMA ReplaySound ==
    ASSUME IInv, ReplayEntry PROVE Sound'
<1> SUFFICES ASSUME intact' PROVE Sound'
  BY DEF Sound
<1> DEFINE e == wlog[pos]
<1>1. /\ pc = "replay" /\ pos < LogLen /\ e.kind # "empty"
      /\ UNCHANGED <<compacted, wlog, empty_slot, pc, resume, cur, todo, intact>>
  BY DEF ReplayEntry, AtEntry, flash
<1>2. intact /\ FlashFit /\ ~Orphaned /\ MagicOK /\ Boundary(pos) /\ Filled(pos) /\ Replayed
  BY <1>1 DEF IInv, Sound
<1>3. pos \in LogIdx /\ pos >= 2 /\ pos \in Nat /\ e \in Cell
  BY <1>1, SizeAssumption DEF IInv, TypeOK, Loops, ReplayPos, LogIdx
<1>4. CellShape(pos)
  BY <1>2, <1>3 DEF FlashFit, LogShape
<1>5. \/ e.kind = "byte" /\ DataBuf' = [DataBuf EXCEPT ![e.w][e.s] = e.val[e.s]] /\ pos' = pos + 1
      \/ e.kind = "word" /\ DataBuf' = [DataBuf EXCEPT ![e.w] = e.val] /\ pos' = pos + 1
      \/ /\ e.kind = "next" /\ wlog[pos + 1].kind = "empty" /\ pos + 1 \in LogIdx
         /\ DataBuf' = DataBuf /\ pos' = pos + 2
      \/ /\ e.kind = "next" /\ wlog[pos + 1].kind = "data" /\ pos + 1 \in LogIdx
         /\ DataBuf' = [DataBuf EXCEPT ![e.w] = wlog[pos + 1].val] /\ pos' = pos + 2
  <2>1. e.kind \in {"byte", "word", "next"}
    BY <1>1, <1>2, <1>4 DEF CellShape
  <2>2. e.kind = "next" => pos + 1 \in LogIdx /\ wlog[pos + 1].kind \in {"empty", "data"}
    BY <1>4 DEF CellShape
  <2>3. pos + 1 \in LogIdx => pos + 1 < LogLen
    BY SizeAssumption DEF LogIdx
  <2>4. CASE e.kind \in {"byte", "word"}
    BY <2>4 DEF ReplayEntry
  <2>5. CASE e.kind = "next"
    <3>1. ReplayNext(e)
      BY <2>5 DEF ReplayEntry
    <3> QED
      BY <2>2, <2>3, <2>5, <3>1, <1>3 DEF ReplayNext
  <2> QED
    BY <2>1, <2>4, <2>5
<1>6. \A w \in Words, s \in Halves : ReadUpTo(pos', w, s, DataBuf'[w][s])
  <2> SUFFICES ASSUME NEW w \in Words, NEW s \in Halves
               PROVE  ReadUpTo(pos', w, s, DataBuf'[w][s])
    OBVIOUS
  <2>1. ReadUpTo(pos, w, s, DataBuf[w][s]) /\ DataBuf \in [Words -> Word] /\ DataBuf[w] \in Word
    BY <1>2 DEF Replayed, IInv, TypeOK
  <2>2. pos' \in Nat /\ pos < pos' /\ (pos' = pos + 1 \/ pos' = pos + 2)
    BY <1>3, <1>5
  <2>3. pos' = pos + 2 => ~Affects(pos + 1, w, s)
    BY <1>5, <1>3 DEF Affects
  <2>4. \A q \in LogIdx : q > pos /\ q < pos' => ~Affects(q, w, s)
    BY <1>3, <2>2, <2>3, SizeAssumption DEF LogIdx
  <2>5. CASE Affects(pos, w, s)
    <3>1. ReadUpTo(pos', w, s, LogValue(pos, s))
      BY <1>3, <2>2, <2>4, <2>5, ReadLast
    <3>2. LogValue(pos, s) = DataBuf'[w][s]
      BY <1>3, <1>5, <2>1, <2>5 DEF Affects, LogValue, Word
    <3> QED
      BY <3>1, <3>2
  <2>6. CASE ~Affects(pos, w, s)
    <3>1. \A q \in LogIdx : q >= pos /\ q < pos' => ~Affects(q, w, s)
      <4>1. \A q \in LogIdx : q >= pos => q = pos \/ q > pos
        BY <1>3, SizeAssumption DEF LogIdx
      <4> QED
        BY <2>4, <2>6, <4>1
    <3>2. ReadUpTo(pos', w, s, DataBuf[w][s])
      BY <1>3, <2>1, <2>2, <3>1, ReadExtend
    <3>3. DataBuf'[w][s] = DataBuf[w][s]
      BY <1>3, <1>5, <2>1, <2>6 DEF Affects, Word, Cell
    <3> QED
      BY <3>2, <3>3
  <2> QED
    BY <2>5, <2>6
<1>7. Replayed'
  BY <1>1, <1>6 DEF Replayed, ReadUpTo, Latest, Affects, LogValue
<1>8. Boundary(pos') /\ Filled(pos')
  <2>1. Boundary(pos')
    BY <1>3, <1>5, SizeAssumption DEF Boundary
  <2>2. pos' = pos + 2 => ~Boundary(pos + 1)
    BY <1>3, <1>5, SizeAssumption DEF Boundary
  <2>3. \A q \in LogIdx : q < pos' => q < pos \/ q = pos \/ (q = pos + 1 /\ pos' = pos + 2)
    BY <1>3, <1>5, SizeAssumption DEF LogIdx
  <2>4. Filled(pos')
    BY <1>1, <1>2, <2>2, <2>3 DEF Filled
  <2> QED
    BY <2>1, <2>4
<1>9. (MagicOK /\ Boundary(pos) /\ Filled(pos))' /\ FlashFit' /\ ~Orphaned'
  <2>1. Boundary(pos)' /\ Filled(pos)'
    BY <1>1, <1>8 DEF Boundary, Filled
  <2> QED
    BY <1>1, <1>2, <2>1
       DEF FlashFit, MagicOK, LogShape, CellShape, Boundary, EmptyFrom, Blank, Orphaned, Affects
<1> QED
  BY <1>1, <1>7, <1>9 DEF Sound, Serving

\* The replay ends where the log ends: the cache holds what the flash says.
LEMMA ReplayEndSound ==
    ASSUME IInv, ReplayEnd PROVE Sound'
<1> SUFFICES ASSUME intact' PROVE Sound'
  BY DEF Sound
<1>1. /\ pc = "replay" /\ ~AtEntry /\ pc' = "idle" /\ empty_slot' = pos
      /\ UNCHANGED <<compacted, wlog, DataBuf, resume, cur, todo, intact>>
  BY DEF ReplayEnd, flash
<1>2. intact /\ FlashFit /\ ~Orphaned /\ MagicOK /\ Boundary(pos) /\ Filled(pos) /\ Replayed
  BY <1>1 DEF IInv, Sound
<1>3. pos \in 2 .. LogLen /\ LogLen \in Nat /\ pos \in Nat
  BY <1>1, SizeAssumption DEF IInv, Loops, ReplayPos
<1>4. EmptyFrom(pos)
  <2>1. CASE pos = LogLen
    BY <2>1, SizeAssumption DEF EmptyFrom, LogIdx
  <2>2. CASE pos < LogLen
    <3>1. pos \in LogIdx /\ pos >= 2 /\ wlog[pos].kind = "empty"
      BY <1>1, <1>3, <2>2 DEF AtEntry, LogIdx
    <3>2. CellShape(pos)
      BY <1>2, <3>1 DEF FlashFit, LogShape
    <3> QED
      BY <1>2, <3>1, <3>2 DEF CellShape
  <2> QED
    BY <1>3, <2>1, <2>2
<1>5. SlotFit'
  BY <1>1, <1>2, <1>3, <1>4 DEF SlotFit, EmptyFrom, Boundary, Filled
<1>6. Reached'
  <2> SUFFICES ASSUME NEW w \in Words, NEW s \in Halves PROVE Persisted(w, s, DataBuf[w][s])
    BY <1>1 DEF Reached, Persisted, ReadUpTo, Latest, Affects, LogValue, MagicOK
  <2>1. ReadUpTo(pos, w, s, DataBuf[w][s])
    BY <1>2 DEF Replayed
  <2>2. \A q \in LogIdx : q >= pos => ~Affects(q, w, s)
    BY <1>4, EmptyAffects
  <2>3. ReadUpTo(LogLen, w, s, DataBuf[w][s])
    BY <1>3, <2>1, <2>2, ReadExtend
  <2> QED
    BY <1>2, <2>3 DEF Persisted
<1>7. FlashFit' /\ ~Orphaned' /\ MagicOK'
  BY <1>1, <1>2
     DEF FlashFit, MagicOK, LogShape, CellShape, Boundary, EmptyFrom, Blank, Orphaned, Affects
<1> QED
  BY <1>1, <1>5, <1>6, <1>7 DEF Sound, Serving

\* eeprom_clear erases the compacted area before the log: while the magic stands
\* the log is as it was, and once it is gone the compacted area is blank.
LEMMA ErasePageSound ==
    ASSUME IInv, ErasePage PROVE Sound'
<1> SUFFICES ASSUME intact' PROVE Sound'
  BY DEF Sound
<1>1. /\ pc = "erase" /\ UNCHANGED <<DataBuf, empty_slot, resume, cur, todo, intact>>
      /\ compacted' = [w \in Words |-> IF CPage(w) = pos THEN Zero ELSE compacted[w]]
      /\ wlog' = [p \in LogIdx |-> IF LPage(p) = pos THEN Empty ELSE wlog[p]]
      /\ pc' \in {"erase", "magic0"}
  BY DEF ErasePage
<1>2. intact /\ FlashFit /\ (resume = "init" => \A w \in Words : DataBuf[w] = Zero)
  BY <1>1 DEF IInv, Sound
<1>3. pos \in 0 .. NumPages - 1 /\ wlog \in [LogIdx -> Cell] /\ compacted \in [Words -> Word]
  BY <1>1 DEF IInv, Loops, ErasePos, TypeOK
<1>4. \A w \in Words : CPage(w) < pos => compacted[w] = Zero
  BY <1>1 DEF IInv, Loops, ErasePos
<1>5. \A p \in LogIdx : LPage(p) < pos => wlog[p].kind = "empty"
  BY <1>1 DEF IInv, Loops, ErasePos
<1>6. CASE MagicOK'
  <2>1. wlog'[0] = wlog[0] /\ LPage(0) # pos /\ wlog[0].kind # "empty"
    BY <1>1, <1>6, SizeFacts DEF MagicOK
  <2>2. pos < FirstLogPage
    BY <1>3, <1>5, <2>1, SizeFacts, PageAssumption
  <2>3. \A p \in LogIdx : LPage(p) # pos
    BY <1>3, <2>2, PageAssumption
  <2>4. wlog' = wlog
    BY <1>1, <1>3, <2>3
  <2>5. LogShape'
    BY <1>2, <1>6, <2>4 DEF FlashFit, MagicOK, LogShape, CellShape, Boundary, EmptyFrom
  <2>6. pc' = "erase"
    BY <1>1, <1>3, <2>2, SizeFacts, PageAssumption DEF ErasePage
  <2> QED
    BY <1>1, <1>2, <1>6, <2>5, <2>6 DEF Sound, Serving, FlashFit
<1>7. CASE ~MagicOK'
  <2>1. Blank'
    <3>1. CASE ~MagicOK
      BY <1>1, <1>2, <3>1 DEF FlashFit, Blank
    <3>2. CASE MagicOK
      <4>1. PICK p \in LogIdx : LPage(p) = pos
        BY <1>1, <1>7, <3>2, SizeFacts DEF MagicOK
      <4>2. \A w \in Words : CPage(w) < pos
        BY <1>3, <4>1, PageAssumption
      <4> QED
        BY <1>1, <1>4, <4>2 DEF Blank
    <3> QED
      BY <3>1, <3>2
  <2>2. ~Orphaned'
    BY <1>7 DEF Orphaned
  <2> QED
    BY <1>1, <1>2, <1>7, <2>1, <2>2 DEF Sound, Serving, FlashFit
<1> QED
  BY <1>6, <1>7

\* The magic completes an erased log over a blank area.
LEMMA MagicSound ==
    ASSUME IInv, ProgramMagic0 \/ ProgramMagic1 PROVE Sound'
<1> SUFFICES ASSUME intact' PROVE Sound'
  BY DEF Sound
<1>1. CASE ProgramMagic0
  <2>1. /\ pc = "magic0" /\ pc' = "magic1" /\ Program(0, Marker("magic0"))
        /\ UNCHANGED <<compacted, DataBuf, empty_slot, pos, resume, cur, todo, intact>>
    BY <1>1 DEF ProgramMagic0
  <2>2. Blank /\ EmptyFrom(0)
    BY <2>1 DEF IInv, Loops, MagicPos
  <2>3. wlog'[1] = wlog[1] /\ wlog[1].kind = "empty"
    BY <2>1, <2>2, SizeFacts, ProgramEffect DEF IInv, TypeOK, EmptyFrom
  <2>4. ~MagicOK' /\ Blank' /\ ~Orphaned'
    BY <2>1, <2>2, <2>3 DEF MagicOK, Blank, Orphaned
  <2> QED
    BY <2>1, <2>4 DEF IInv, Sound, Serving, FlashFit
<1>2. CASE ProgramMagic1
  <2>1. /\ pc = "magic1" /\ Program(1, Marker("magic1")) /\ empty_slot' = 0
        /\ pc' \in {"replay", "load", "compact"}
        /\ pc' = "replay" => pos' = 2 /\ resume = "init" /\ intact
        /\ UNCHANGED <<compacted, DataBuf, resume, cur, todo>>
    BY <1>2 DEF ProgramMagic1, ClearedSlot, IInv, TypeOK
  <2>2. Blank /\ EmptyFrom(1) /\ wlog[0].kind = "magic0"
    BY <2>1 DEF IInv, Loops, MagicPos
  <2>3. /\ wlog' \in [LogIdx -> Cell] /\ wlog'[1] = Marker("magic1")
        /\ \A q \in LogIdx : q # 1 => wlog'[q] = wlog[q]
    BY <2>1, <2>2, SizeFacts, ProgramEffect DEF IInv, TypeOK, EmptyFrom
  <2>4. Blank' /\ EmptyFrom(2)' /\ MagicOK'
    BY <2>1, <2>2, <2>3, SizeFacts DEF Blank, EmptyFrom, MagicOK
  <2>5. TypeOK'
    BY <1>2, MagicLoops DEF IInv
  <2>6. LogShape' /\ Filled(2)' /\ ~Orphaned'
    BY <2>4, <2>5, FreshLog, PTL
  <2>7. pc' = "replay" => Boundary(2)' /\ Replayed'
    <3> SUFFICES ASSUME pc' = "replay" PROVE Boundary(2)' /\ Replayed'
      OBVIOUS
    <3>1. \A w \in Words : DataBuf'[w] = compacted'[w]
      BY <2>1, <2>4 DEF IInv, Sound, Blank
    <3>2. \A q \in LogIdx : ~(q >= 2 /\ q < 2)
      BY SizeAssumption DEF LogIdx
    <3>3. Replayed'
      BY <2>1, <3>1, <3>2 DEF Replayed, ReadUpTo
    <3> QED
      BY <3>3 DEF Boundary
  <2>8. FlashFit'
    BY <2>4, <2>6 DEF FlashFit
  <2>9. pc' = "replay" => Boundary(pos)' /\ Filled(pos)'
    BY <2>1, <2>6, <2>7 DEF Boundary, Filled
  <2> QED
    BY <2>1, <2>4, <2>6, <2>7, <2>8, <2>9 DEF Sound, Serving
<1> QED
  BY <1>1, <1>2

\* Compacting leaves the log empty; at its end the compacted area equals the cache,
\* so the state is intact again whatever happened before.
LEMMA CompactSound ==
    ASSUME IInv, CompactWord \/ CompactEnd PROVE Sound'
<1>1. /\ pc = "compact" /\ pos <= NumWords /\ empty_slot = 0 /\ MagicOK /\ EmptyFrom(2)
      /\ \A w \in Words : compacted[w] = IF w < pos THEN DataBuf[w] ELSE Zero
  BY DEF CompactWord, CompactEnd, IInv, Loops, CompactPos
<1>2. wlog' = wlog /\ DataBuf' = DataBuf
  BY DEF CompactWord, CompactEnd, flash
<1>3. MagicOK' /\ EmptyFrom(2)' /\ TypeOK'
  BY <1>1, <1>2, CompactLoops DEF MagicOK, EmptyFrom, IInv
<1>4. LogShape' /\ Filled(2)' /\ ~Orphaned'
  BY <1>3, FreshLog, PTL
<1>5. FlashFit'
  BY <1>3, <1>4 DEF FlashFit
<1>6. CASE CompactWord
  BY <1>1, <1>4, <1>5, <1>6 DEF CompactWord, Sound, Serving
<1>7. CASE CompactEnd
  <2>1. /\ pos = NumWords /\ empty_slot' = 0 /\ compacted' = compacted /\ pc' \in {"idle", "log"}
    BY <1>1, <1>7 DEF CompactEnd, Continue, flash
  <2>2. \A w \in Words : compacted'[w] = DataBuf'[w]
    BY <1>1, <1>2, <2>1, SizeAssumption DEF Words
  <2>3. Reached'
    <3> SUFFICES ASSUME NEW w \in Words, NEW s \in Halves PROVE Persisted(w, s, DataBuf[w][s])'
      BY DEF Reached
    <3>1. \A q \in LogIdx : q >= 2 => ~Affects(q, w, s)'
      BY <1>3 DEF EmptyFrom, Affects
    <3> QED
      BY <1>3, <2>2, <3>1 DEF Persisted, ReadUpTo
  <2>4. SlotFit'
    <3>1. Filled(0)' /\ Boundary(0)'
      BY SizeAssumption DEF Filled, Boundary, LogIdx
    <3> QED
      BY <1>3, <2>1, <3>1 DEF SlotFit, EmptyFrom, Filled, Boundary
  <2> QED
    BY <1>3, <1>4, <1>5, <2>1, <2>3, <2>4 DEF Sound, Serving
<1> QED
  BY <1>6, <1>7

\* A write to a word whose compacted halfword is erased goes there: the log holds no
\* entry for it, so the next replay reads the new value.
LEMMA CallSound ==
    ASSUME IInv, NEW w \in Words, NEW new \in Word, EEPROM_WriteData(w, new) PROVE Sound'
<1> SUFFICES ASSUME intact' PROVE Sound'
  BY DEF Sound
<1>1. /\ pc = "idle" /\ DataBuf' = [DataBuf EXCEPT ![w] = new] /\ cur' = w
      /\ UNCHANGED <<wlog, empty_slot, pos, resume, intact>>
  BY DEF EEPROM_WriteData
<1>2. intact /\ FlashFit /\ ~Orphaned /\ MagicOK /\ SlotFit /\ Reached
  BY <1>1 DEF IInv, Sound, Serving
<1>3. DataBuf \in [Words -> Word] /\ compacted \in [Words -> Word]
  BY DEF IInv, TypeOK
<1>4. MagicOK' /\ LogShape'
  BY <1>1, <1>2 DEF FlashFit, MagicOK, LogShape, CellShape, Boundary, EmptyFrom
<1>5. pc' \in {"idle", "log"} => SlotFit'
  BY <1>1, <1>2 DEF SlotFit, EmptyFrom, Filled, Boundary
<1>6. CASE compacted[w] = Zero
  <2>1. compacted' = [compacted EXCEPT ![w] = new] /\ pc' = "idle"
    BY <1>1, <1>6 DEF EEPROM_WriteData
  <2>2. \A p \in LogIdx, s \in Halves : p >= 2 => ~Affects(p, w, s)
    BY <1>2, <1>6 DEF Orphaned
  <2>3. Reached'
    <3> SUFFICES ASSUME NEW x \in Words, NEW s \in Halves PROVE Persisted(x, s, DataBuf[x][s])'
      BY DEF Reached
    <3>1. CASE x = w
      <4>1. \A q \in LogIdx : q >= 2 => ~Affects(q, x, s)'
        BY <1>1, <2>2, <3>1 DEF Affects
      <4>2. DataBuf'[x] = compacted'[x]
        BY <1>1, <1>3, <2>1, <3>1
      <4> QED
        BY <1>4, <4>1, <4>2 DEF Persisted, ReadUpTo
    <3>2. CASE x # w
      <4>1. ReadUpTo(LogLen, x, s, DataBuf[x][s])
        BY <1>1, <1>2 DEF Reached, Persisted
      <4>2. compacted'[x] = compacted[x] /\ DataBuf'[x] = DataBuf[x]
        BY <1>1, <1>3, <2>1, <3>2
      <4> QED
        BY <1>1, <1>4, <4>1, <4>2 DEF Persisted, ReadUpTo, Latest, Affects, LogValue
    <3> QED
      BY <3>1, <3>2
  <2>4. ~Orphaned'
    <3> SUFFICES ASSUME NEW p \in LogIdx, NEW x \in Words, NEW s \in Halves,
                        p >= 2, Affects(p, x, s)', compacted'[x] = Zero
                 PROVE  FALSE
      BY DEF Orphaned
    <3>1. Affects(p, x, s)
      BY <1>1 DEF Affects
    <3>2. x # w
      BY <2>2, <3>1
    <3> QED
      BY <1>2, <1>3, <2>1, <3>1, <3>2 DEF Orphaned
  <2> QED
    BY <1>4, <1>5, <2>1, <2>3, <2>4 DEF Sound, Serving, FlashFit
<1>7. CASE compacted[w] # Zero
  <2>1. /\ pc' = "log" /\ compacted' = compacted
        /\ todo' = IF w < ByteWords THEN {s \in Halves : new[s] # DataBuf[w][s]} ELSE Halves
    BY <1>7 DEF EEPROM_WriteData
  <2>2. Reached'
    <3> SUFFICES ASSUME NEW x \in Words, NEW s \in Halves, x # w \/ s \notin todo'
                 PROVE  Persisted(x, s, DataBuf[x][s])'
      BY <1>1, <2>1 DEF Reached
    <3>1. DataBuf'[x][s] = DataBuf[x][s]
      BY <1>1, <1>3, <2>1
    <3>2. Persisted(x, s, DataBuf[x][s])
      BY <1>1, <1>2 DEF Reached
    <3> QED
      BY <1>1, <2>1, <3>1, <3>2 DEF Persisted, ReadUpTo, Latest, Affects, LogValue, MagicOK
  <2>3. ~Orphaned'
    BY <1>1, <1>2, <2>1 DEF Orphaned, Affects, MagicOK
  <2> QED
    BY <1>1, <1>4, <1>5, <1>7, <2>1, <2>2, <2>3 DEF Sound, Serving, FlashFit
<1> QED
  BY <1>6, <1>7

\* An erase on demand starts from the flash as it is; a power loss keeps the flash,
\* and the state stays intact only if no entry is orphaned.
LEMMA RestartSound ==
    ASSUME IInv, EEPROM_Erase \/ Crash PROVE Sound'
<1> SUFFICES ASSUME intact' PROVE Sound'
  BY DEF Sound
<1>1. UNCHANGED <<compacted, wlog>> /\ intact
  BY DEF EEPROM_Erase, Crash, flash, IInv, Sound
<1>2. FlashFit
  BY <1>1 DEF IInv, Sound
<1>3. FlashFit'
  BY <1>1, <1>2 DEF FlashFit, MagicOK, LogShape, CellShape, Boundary, EmptyFrom, Blank
<1>4. CASE EEPROM_Erase
  BY <1>3, <1>4 DEF EEPROM_Erase, Sound, Serving
<1>5. CASE Crash
  <2>1. ~Orphaned' /\ pc' = "load"
    BY <1>1, <1>5 DEF Crash, Orphaned, Affects, MagicOK
  <2> QED
    BY <1>3, <2>1 DEF Sound, Serving
<1> QED
  BY <1>4, <1>5

-----------------------------------------------------------------------------
(* Appending to the log.                                                   *)

\* Where the entry begins that a cell at slot completes.
EntryAt(cell, slot) == IF cell.kind = "data" THEN slot - 1 ELSE slot

\* An entry appended at the first free halfword keeps the shape of the log, says what
\* is read of the bytes it is about, and changes no other byte.
LEMMA AppendEffect ==
    ASSUME TypeOK, MagicOK, LogShape, NEW slot \in LogIdx, slot >= 2,
           EmptyFrom(slot), Filled(slot), NEW cell \in Cell, Program(slot, cell),
           cell.kind \in {"byte", "word", "next", "data"},
           cell.kind = "data" <=> ~Boundary(slot),
           cell.kind = "next" => slot + 1 \in LogIdx,
           UNCHANGED compacted
    PROVE  /\ MagicOK' /\ LogShape' /\ EmptyFrom(slot + 1)' /\ Filled(slot + 1)'
           /\ wlog'[slot] = cell
           /\ \A w \in Words, s \in Halves, p \in LogIdx :
                 p >= 2 /\ Affects(p, w, s)' /\ p # EntryAt(cell, slot) => Affects(p, w, s)
           /\ \A w \in Words, s \in Halves, v \in Byte :
                 Persisted(w, s, v) /\ ~Affects(EntryAt(cell, slot), w, s)'
                     => Persisted(w, s, v)'
           /\ \A w \in Words, s \in Halves, v \in Byte :
                 Affects(EntryAt(cell, slot), w, s)' /\ v = LogValue(EntryAt(cell, slot), s)'
                     => Persisted(w, s, v)'
<1> DEFINE at == EntryAt(cell, slot)
<1>1. /\ wlog \in [LogIdx -> Cell] /\ wlog' \in [LogIdx -> Cell]
      /\ wlog[slot].kind = "empty" /\ wlog'[slot] = cell
      /\ \A q \in LogIdx : q # slot => wlog'[q] = wlog[q]
  <2>1. wlog[slot].kind = "empty"
    BY SizeFacts DEF EmptyFrom
  <2> QED
    BY <2>1, ProgramEffect DEF TypeOK
<1>2. slot \in Nat /\ LogLen \in Nat /\ slot < LogLen /\ LogIdx = 0 .. LogLen - 1
  BY SizeAssumption DEF LogIdx
<1>3. MagicOK'
  BY <1>1, <1>2, SizeFacts DEF MagicOK
<1>4. EmptyFrom(slot + 1)'
  BY <1>1, <1>2 DEF EmptyFrom
<1>5. \A p \in LogIdx : p <= slot => (Boundary(p)' <=> Boundary(p))
  <2> SUFFICES ASSUME NEW p \in LogIdx, p <= slot, p > 2 PROVE wlog'[p - 1] = wlog[p - 1]
    BY DEF Boundary
  <2> QED
    BY <1>1, <1>2
<1>6. Filled(slot + 1)'
  <2> SUFFICES ASSUME NEW p \in LogIdx, p >= 2, p < slot + 1, wlog'[p].kind = "empty"
               PROVE  ~Boundary(p)'
    BY DEF Filled
  <2>1. p < slot /\ wlog'[p] = wlog[p]
    BY <1>1, <1>2
  <2> QED
    BY <1>2, <1>5, <2>1 DEF Filled
<1>7. cell.kind = "data" => at \in LogIdx /\ at >= 2 /\ wlog[at].kind = "next" /\ at + 1 = slot
  BY <1>1, <1>2 DEF Boundary, EntryAt
<1>8. at \in LogIdx /\ at >= 2
  BY <1>7 DEF EntryAt
<1>9. LogShape'
  <2> SUFFICES ASSUME NEW p \in LogIdx, p >= 2 PROVE CellShape(p)'
    BY DEF LogShape
  <2>1. CASE p < slot
    <3>1. wlog'[p] = wlog[p] /\ CellShape(p) /\ (Boundary(p)' <=> Boundary(p))
      BY <1>1, <1>2, <1>5, <2>1 DEF LogShape
    <3>2. wlog[p].kind = "empty" => ~Boundary(p)
      BY <2>1 DEF Filled
    <3>3. wlog[p].kind = "next" => p + 1 \in LogIdx /\ wlog'[p + 1].kind \in {"empty", "data"}
      <4>1. CASE p + 1 = slot
        BY <1>1, <1>2, <4>1 DEF Boundary
      <4>2. CASE p + 1 # slot
        BY <1>1, <3>1, <4>2 DEF CellShape
      <4> QED
        BY <4>1, <4>2
    <3> QED
      BY <3>1, <3>2, <3>3 DEF CellShape
  <2>2. CASE p = slot
    <3>1. cell.kind = "next" => wlog'[slot + 1].kind = "empty"
      BY <1>2, <1>4 DEF EmptyFrom
    <3>2. Boundary(p)' <=> Boundary(slot)
      BY <1>2, <1>5, <2>2
    <3> QED
      BY <1>1, <2>2, <3>1, <3>2 DEF CellShape
  <2>3. CASE p > slot
    <3>1. p >= slot + 1 /\ \A q \in LogIdx : q >= p => q >= slot + 1
      BY <1>2, <2>3
    <3>2. wlog'[p].kind = "empty" /\ EmptyFrom(p)'
      BY <1>4, <3>1 DEF EmptyFrom
    <3> QED
      BY <3>2 DEF CellShape
  <2> QED
    BY <1>2, <2>1, <2>2, <2>3
<1>10. ASSUME NEW w \in Words, NEW s \in Halves, NEW p \in LogIdx, p >= 2, p # at
       PROVE  /\ Affects(p, w, s)' <=> Affects(p, w, s)
              /\ Affects(p, w, s) => LogValue(p, s)' = LogValue(p, s) /\ p < slot
  <2>1. CASE p > slot
    BY <1>1, <1>2, <1>4, <2>1 DEF EmptyFrom, Affects
  <2>2. CASE p = slot
    BY <1>1, <1>7, <1>10, <2>2 DEF Affects, EntryAt
  <2>3. CASE p < slot
    <3>1. wlog'[p] = wlog[p]
      BY <1>1, <1>2, <2>3
    <3>2. wlog[p].kind = "next" => p + 1 \in LogIdx /\ wlog'[p + 1] = wlog[p + 1]
      <4>1. wlog[p].kind = "next" => p + 1 # slot
        BY <1>2, <1>7, <1>10 DEF Boundary, EntryAt
      <4> QED
        BY <1>1, <1>2, <2>3, <4>1
    <3> QED
      BY <2>3, <3>1, <3>2 DEF Affects, LogValue
  <2> QED
    BY <1>2, <2>1, <2>2, <2>3
<1>11. \A w \in Words, s \in Halves : ~Affects(at, w, s)
  <2>1. CASE cell.kind = "data"
    BY <1>1, <1>7, <2>1 DEF Affects
  <2>2. CASE cell.kind # "data"
    BY <1>1, <2>2 DEF Affects, EntryAt
  <2> QED
    BY <2>1, <2>2
<1>12. ASSUME NEW w \in Words, NEW s \in Halves, NEW v \in Byte, Persisted(w, s, v), ~Affects(at, w, s)'
       PROVE  Persisted(w, s, v)'
  <2>1. ReadUpTo(LogLen, w, s, v)
    BY <1>12 DEF Persisted
  <2>2. \A q \in LogIdx : q >= 2 => (Affects(q, w, s)' <=> Affects(q, w, s))
    BY <1>10, <1>11, <1>12
  <2>3. \A q \in LogIdx : q >= 2 /\ Affects(q, w, s) => LogValue(q, s)' = LogValue(q, s)
    BY <1>10, <1>11
  <2>4. ReadUpTo(LogLen, w, s, v)'
    <3>1. CASE \E p \in LogIdx : Latest(p, LogLen, w, s) /\ v = LogValue(p, s)
      <4>1. PICK p \in LogIdx : Latest(p, LogLen, w, s) /\ v = LogValue(p, s)
        BY <3>1
      <4>2. Latest(p, LogLen, w, s)'
        BY <1>2, <2>2, <4>1 DEF Latest
      <4> QED
        BY <2>3, <4>1, <4>2 DEF ReadUpTo, Latest
    <3>2. CASE (\A p \in LogIdx : p >= 2 /\ p < LogLen => ~Affects(p, w, s)) /\ v = compacted[w][s]
      BY <2>2, <3>2 DEF ReadUpTo
    <3> QED
      BY <2>1, <3>1, <3>2 DEF ReadUpTo
  <2> QED
    BY <1>3, <2>4 DEF Persisted
<1>13. ASSUME NEW w \in Words, NEW s \in Halves, NEW v \in Byte, Affects(at, w, s)', v = LogValue(at, s)'
       PROVE  Persisted(w, s, v)'
  <2>1. \A q \in LogIdx : q > at /\ q < LogLen => ~Affects(q, w, s)'
    <3> SUFFICES ASSUME NEW q \in LogIdx, q > at, Affects(q, w, s)' PROVE FALSE
      OBVIOUS
    <3>1. q < slot
      BY <1>2, <1>8, <1>10
    <3> QED
      BY <1>2, <1>7, <3>1 DEF EntryAt
  <2>2. Latest(at, LogLen, w, s)'
    BY <1>2, <1>8, <1>13, <2>1 DEF Latest
  <2>3. ReadUpTo(LogLen, w, s, v)'
    BY <1>8, <1>13, <2>2 DEF ReadUpTo
  <2> QED
    BY <1>3, <2>3 DEF Persisted
<1> QED
  BY <1>1, <1>3, <1>4, <1>6, <1>9, <1>10, <1>12, <1>13

\* While the state stays intact, an append keeps the flash fit and orphans nothing:
\* the entry is about cur, whose compacted halfword is written.
LEMMA AppendFits ==
    ASSUME IInv, pc \in {"log", "value"}, NEW cell \in Cell, Append(cell), intact',
           NEW slot, slot = empty_slot,
           slot < LogLen, UNCHANGED compacted,
           cell.kind \in {"byte", "word", "next", "data"},
           cell.kind = "data" <=> pc = "value",
           cell.kind = "next" => slot + 1 < LogLen,
           cell.kind # "data" => cell.w = cur
    PROVE  /\ intact /\ Reached /\ compacted[cur] # Zero
           /\ FlashFit' /\ ~Orphaned' /\ MagicOK'
           /\ empty_slot' = slot + 1 /\ slot >= 2 /\ slot \in LogIdx
           /\ wlog'[slot] = cell
           /\ EmptyFrom(slot + 1)' /\ Filled(slot + 1)'
           /\ pc = "value" => /\ wlog[slot - 1] = NextEntry(cur)
                              /\ wlog'[slot - 1] = NextEntry(cur)
           /\ \A w \in Words, s \in Halves, v \in Byte :
                 Persisted(w, s, v) /\ ~Affects(EntryAt(cell, slot), w, s)'
                     => Persisted(w, s, v)'
           /\ \A w \in Words, s \in Halves, v \in Byte :
                 Affects(EntryAt(cell, slot), w, s)' /\ v = LogValue(EntryAt(cell, slot), s)'
                     => Persisted(w, s, v)'
<1>1. intact /\ slot >= 2 /\ Program(slot, cell) /\ empty_slot' = slot + 1
  BY DEF Append, Tarnish
<1>2. FlashFit /\ ~Orphaned /\ MagicOK /\ SlotFit /\ LogShape /\ Reached
  BY <1>1 DEF IInv, Sound, Serving, FlashFit
<1>3. slot \in LogIdx /\ slot \in Nat /\ LogLen \in Nat /\ cur \in Words
  BY SizeAssumption DEF IInv, TypeOK, LogIdx
<1>4. compacted[cur] # Zero
  BY <1>1, <1>3 DEF IInv, Sound
<1>5. EmptyFrom(slot) /\ Filled(slot)
  BY <1>1, <1>2, <1>3 DEF SlotFit
<1>6. cell.kind = "data" <=> ~Boundary(slot)
  <2>1. CASE pc = "value"
    BY <1>2, <2>1 DEF SlotFit, Boundary, NextEntry
  <2>2. CASE pc # "value"
    BY <1>2, <2>2 DEF SlotFit
  <2> QED
    BY <2>1, <2>2
<1>7. cell.kind = "next" => slot + 1 \in LogIdx
  BY <1>3 DEF LogIdx
<1>8. /\ MagicOK' /\ LogShape' /\ EmptyFrom(slot + 1)' /\ Filled(slot + 1)'
      /\ wlog'[slot] = cell
      /\ \A w \in Words, s \in Halves, p \in LogIdx :
            p >= 2 /\ Affects(p, w, s)' /\ p # EntryAt(cell, slot) => Affects(p, w, s)
      /\ \A w \in Words, s \in Halves, v \in Byte :
            Persisted(w, s, v) /\ ~Affects(EntryAt(cell, slot), w, s)' => Persisted(w, s, v)'
      /\ \A w \in Words, s \in Halves, v \in Byte :
            Affects(EntryAt(cell, slot), w, s)' /\ v = LogValue(EntryAt(cell, slot), s)'
                => Persisted(w, s, v)'
  BY <1>1, <1>2, <1>3, <1>5, <1>6, <1>7, AppendEffect DEF IInv
<1>9. pc = "value" => /\ wlog[slot - 1] = NextEntry(cur)
                      /\ wlog'[slot - 1] = NextEntry(cur)
  <2> SUFFICES ASSUME pc = "value"
               PROVE  /\ wlog[slot - 1] = NextEntry(cur)
                      /\ wlog'[slot - 1] = NextEntry(cur)
    OBVIOUS
  <2>1. wlog[slot - 1] = NextEntry(cur)
    BY <1>2 DEF SlotFit
  <2>2. slot - 1 \in LogIdx /\ slot - 1 # slot
    BY <1>1, <1>3, SizeAssumption DEF LogIdx
  <2> QED
    BY <1>1, <2>1, <2>2, ProgramEffect DEF IInv, TypeOK
<1>10. ~Orphaned'
  <2> SUFFICES ASSUME NEW p \in LogIdx, NEW w \in Words, NEW s \in Halves,
                      p >= 2, Affects(p, w, s)', compacted[w] = Zero
               PROVE  FALSE
    BY DEF Orphaned
  <2>1. CASE p = EntryAt(cell, slot)
    <3>1. w = cur
      BY <1>3, <1>8, <1>9, <2>1 DEF Affects, EntryAt, NextEntry
    <3> QED
      BY <1>4, <3>1
  <2>2. CASE p # EntryAt(cell, slot)
    BY <1>2, <1>8, <2>2 DEF Orphaned
  <2> QED
    BY <2>1, <2>2
<1>11. FlashFit'
  BY <1>8 DEF FlashFit
<1> QED
  BY <1>1, <1>2, <1>3, <1>4, <1>8, <1>9, <1>10, <1>11

\* A log step that fills up the log keeps the state sound: nothing is written yet.
LEMMA StartCompactSound ==
    ASSUME IInv, NEW rest, StartCompact(rest) PROVE Sound'
<1> SUFFICES ASSUME intact' PROVE Sound'
  BY DEF Sound
<1>1. /\ pc' = "erase" /\ resume' = "compact" /\ UNCHANGED <<compacted, wlog, intact>>
  BY DEF StartCompact, flash
<1>2. FlashFit
  BY <1>1 DEF IInv, Sound
<1>3. FlashFit'
  BY <1>1, <1>2 DEF FlashFit, MagicOK, LogShape, CellShape, Boundary, EmptyFrom, Blank
<1> QED
  BY <1>1, <1>3 DEF Sound, Serving

\* A byte entry makes the byte it is about persistent.
LEMMA LogByteSound ==
    ASSUME IInv, LogByte PROVE Sound'
<1> SUFFICES ASSUME intact' PROVE Sound'
  BY DEF Sound
<1> DEFINE s == NextHalf
<1>1. pc = "log" /\ s \in todo /\ s \in Halves /\ cur \in Words /\ DataBuf[cur][s] \in Byte
  BY DEF LogByte, NextHalf, IInv, Loops, WritePos, TypeOK, Halves, Word
<1>2. CASE StartCompact(todo \ {s})
  BY <1>2, StartCompactSound
<1>3. CASE /\ ~ByteLogFull
           /\ Append(ByteEntry(cur, s, DataBuf[cur][s]))
           /\ Continue(todo \ {s})
           /\ UNCHANGED <<compacted, DataBuf, pos, resume, cur>>
  <2> DEFINE b == DataBuf[cur][s]
  <2>1. /\ pc' = IF todo \ {s} = {} THEN "idle" ELSE "log"
        /\ todo' = todo \ {s} /\ UNCHANGED <<compacted, DataBuf, cur>>
    BY <1>3 DEF Continue
  <2>2. ByteEntry(cur, s, b).kind = "byte" /\ ByteEntry(cur, s, b).w = cur
        /\ ByteEntry(cur, s, b).s = s /\ ByteEntry(cur, s, b).val[s] = b
    BY <1>1 DEF ByteEntry, Zero
  <2>3. ByteEntry(cur, s, b) \in Cell /\ empty_slot < LogLen
    BY <1>1, <1>3, CellTypes, SizeAssumption DEF ByteLogFull, IInv, TypeOK
  <2>4. PICK slot \in LogIdx : slot = empty_slot
    BY <2>3, SizeAssumption DEF IInv, TypeOK, LogIdx
  <2>5. EntryAt(ByteEntry(cur, s, b), slot) = slot
    BY <2>2 DEF EntryAt
  <2>6. /\ intact /\ Reached /\ compacted[cur] # Zero
        /\ FlashFit' /\ ~Orphaned' /\ MagicOK'
        /\ empty_slot' = slot + 1 /\ slot >= 2 /\ wlog'[slot] = ByteEntry(cur, s, b)
        /\ EmptyFrom(slot + 1)' /\ Filled(slot + 1)'
        /\ \A w \in Words, x \in Halves, v \in Byte :
              Persisted(w, x, v) /\ ~Affects(slot, w, x)' => Persisted(w, x, v)'
        /\ \A w \in Words, x \in Halves, v \in Byte :
              Affects(slot, w, x)' /\ v = LogValue(slot, x)' => Persisted(w, x, v)'
    BY <1>1, <1>3, <2>2, <2>3, <2>4, <2>5, AppendFits
  <2>7. SlotFit'
    BY <2>1, <2>2, <2>4, <2>6, SizeAssumption DEF SlotFit, EmptyFrom, Filled, Boundary, LogIdx
  <2>8. Reached'
    <3> SUFFICES ASSUME NEW w \in Words, NEW x \in Halves, pc' = "idle" \/ w # cur' \/ x \notin todo'
                 PROVE  Persisted(w, x, DataBuf[w][x])'
      BY DEF Reached
    <3>1. PICK v \in Byte : v = DataBuf[w][x]
      BY DEF IInv, TypeOK, Word
    <3>2. CASE w = cur /\ x = s
      BY <1>1, <2>1, <2>2, <2>6, <3>1, <3>2 DEF Affects, LogValue
    <3>3. CASE ~(w = cur /\ x = s)
      <4>1. ~Affects(slot, w, x)'
        BY <2>2, <2>6, <3>3 DEF Affects
      <4>2. w # cur \/ x \notin todo
        BY <2>1, <3>3
      <4>3. Persisted(w, x, v)
        BY <2>6, <3>1, <4>2 DEF Reached
      <4>4. Persisted(w, x, v)'
        BY <2>6, <4>1, <4>3
      <4> QED
        BY <2>1, <3>1, <4>4
    <3> QED
      BY <3>2, <3>3
  <2>9. compacted'[cur'] # Zero
    BY <2>1, <2>6
  <2> QED
    BY <2>1, <2>6, <2>7, <2>8, <2>9 DEF Sound, Serving
<1> QED
  BY <1>2, <1>3 DEF LogByte

\* A word entry makes a small value persistent at once; for a large value it affects
\* nothing until the value follows.
LEMMA LogWordSound ==
    ASSUME IInv, LogWord PROVE Sound'
<1> SUFFICES ASSUME intact' PROVE Sound'
  BY DEF Sound
<1>1. /\ pc = "log" /\ cur \in Words /\ cur >= ByteWords /\ DataBuf[cur] \in Word
      /\ empty_slot \in Nat /\ LogLen \in Nat
  BY SizeAssumption DEF LogWord, IInv, TypeOK
<1>2. CASE StartCompact({})
  BY <1>2, StartCompactSound
<1>3. ASSUME ~WordLogFull, UNCHANGED <<compacted, DataBuf, pos, resume, cur>>,
             NEW cell \in Cell, Append(cell), cell.w = cur,
             \/ /\ Encodable(DataBuf[cur]) /\ cell.kind = "word" /\ cell.val = DataBuf[cur]
                /\ Continue({})
             \/ /\ ~Encodable(DataBuf[cur]) /\ cell.kind = "next" /\ cell = NextEntry(cur)
                /\ pc' = "value" /\ UNCHANGED todo
      PROVE  Sound'
  <2>1. empty_slot < LogLen /\ (cell.kind = "next" => empty_slot + 1 < LogLen)
    BY <1>1, <1>3 DEF WordLogFull, EntrySize
  <2>2. PICK slot \in LogIdx : slot = empty_slot
    BY <1>1, <2>1 DEF LogIdx
  <2>3. EntryAt(cell, slot) = slot
    BY <1>3 DEF EntryAt
  <2>4. /\ intact /\ Reached /\ compacted[cur] # Zero
        /\ FlashFit' /\ ~Orphaned' /\ MagicOK'
        /\ empty_slot' = slot + 1 /\ slot >= 2 /\ wlog'[slot] = cell
        /\ EmptyFrom(slot + 1)' /\ Filled(slot + 1)'
        /\ \A w \in Words, x \in Halves, v \in Byte :
              Persisted(w, x, v) /\ ~Affects(slot, w, x)' => Persisted(w, x, v)'
        /\ \A w \in Words, x \in Halves, v \in Byte :
              Affects(slot, w, x)' /\ v = LogValue(slot, x)' => Persisted(w, x, v)'
    BY <1>1, <1>3, <2>1, <2>2, <2>3, AppendFits
  <2>5. \/ pc' = "idle" /\ cell.kind = "word" /\ cell.val = DataBuf[cur]
        \/ pc' = "value" /\ todo' = todo /\ cell.kind = "next" /\ cell = NextEntry(cur)
    BY <1>3 DEF Continue
  <2>6. SlotFit'
    <3>1. slot + 1 # 1 /\ slot + 1 # 0 /\ slot + 1 > 2 /\ slot + 1 - 1 = slot
      BY <1>1, <2>2, <2>4
    <3>2. EmptyFrom(empty_slot)' /\ Filled(empty_slot)'
      BY <2>4 DEF EmptyFrom, Filled, Boundary
    <3>3. CASE pc' = "idle"
      BY <2>4, <2>5, <3>1, <3>2, <3>3, SizeAssumption DEF SlotFit, EmptyFrom, Boundary, LogIdx
    <3>4. CASE pc' = "value"
      <4>1. wlog'[empty_slot' - 1] = NextEntry(cur')
        BY <1>3, <2>4, <2>5, <3>1, <3>4, SizeAssumption DEF NextEntry, LogIdx
      <4> QED
        BY <2>4, <3>1, <3>2, <3>4, <4>1 DEF SlotFit, EmptyFrom
    <3> QED
      BY <2>5, <3>3, <3>4
  <2>7. Reached'
    <3> SUFFICES ASSUME NEW w \in Words, NEW x \in Halves, pc' = "idle" \/ w # cur' \/ x \notin todo'
                 PROVE  Persisted(w, x, DataBuf[w][x])'
      BY DEF Reached
    <3>1. PICK v \in Byte : v = DataBuf[w][x]
      BY DEF IInv, TypeOK, Word
    <3>2. CASE w = cur /\ cell.kind = "word"
      BY <1>3, <2>4, <2>5, <3>1, <3>2 DEF Affects, LogValue
    <3>3. CASE ~(w = cur /\ cell.kind = "word")
      <4>1. cell.kind = "next" => ~(slot + 1 \in LogIdx /\ wlog'[slot + 1].kind = "data")
        BY <1>1, <2>2, <2>4 DEF EmptyFrom
      <4>2. ~Affects(slot, w, x)'
        BY <1>3, <2>4, <3>3, <4>1 DEF Affects
      <4>3. w # cur \/ x \notin todo
        BY <1>3, <2>5, <3>3
      <4>4. Persisted(w, x, v)
        BY <2>4, <3>1, <4>3 DEF Reached
      <4>5. Persisted(w, x, v)'
        BY <2>4, <4>2, <4>4
      <4> QED
        BY <1>3, <3>1, <4>5
    <3> QED
      BY <3>2, <3>3
  <2>8. compacted'[cur'] # Zero
    BY <1>3, <2>4
  <2> QED
    BY <2>4, <2>5, <2>6, <2>7, <2>8 DEF Sound, Serving
<1>4. WordEntry(cur, DataBuf[cur]) \in Cell /\ NextEntry(cur) \in Cell
  BY EntryCells DEF IInv
<1>5. /\ WordEntry(cur, DataBuf[cur]).kind = "word" /\ WordEntry(cur, DataBuf[cur]).w = cur
      /\ WordEntry(cur, DataBuf[cur]).val = DataBuf[cur]
      /\ NextEntry(cur).kind = "next" /\ NextEntry(cur).w = cur
  BY DEF WordEntry, NextEntry
<1> QED
  BY <1>2, <1>3, <1>4, <1>5 DEF LogWord

\* The value completes the entry: both bytes of the word are persistent.
LEMMA LogWordValueSound ==
    ASSUME IInv, LogWordValue PROVE Sound'
<1> SUFFICES ASSUME intact' PROVE Sound'
  BY DEF Sound
<1> DEFINE cell == DataCell(DataBuf[cur])
<1>1. /\ pc = "value" /\ cur \in Words /\ DataBuf[cur] \in Word /\ empty_slot < LogLen
      /\ empty_slot \in Nat /\ LogLen \in Nat /\ Append(cell) /\ pc' = "idle"
      /\ UNCHANGED <<compacted, DataBuf, cur>>
  BY SizeAssumption DEF LogWordValue, Continue, IInv, TypeOK, Loops, WritePos
<1>2. cell \in Cell /\ cell.kind = "data" /\ cell.val = DataBuf[cur]
  BY EntryCells DEF IInv, DataCell
<1>3. PICK slot \in LogIdx : slot = empty_slot
  BY <1>1 DEF LogIdx
<1>4. EntryAt(cell, slot) = slot - 1
  BY <1>2 DEF EntryAt
<1>5. /\ intact /\ Reached /\ compacted[cur] # Zero
      /\ FlashFit' /\ ~Orphaned' /\ MagicOK'
      /\ empty_slot' = slot + 1 /\ slot >= 2 /\ wlog'[slot] = cell
      /\ wlog'[slot - 1] = NextEntry(cur)
      /\ EmptyFrom(slot + 1)' /\ Filled(slot + 1)'
      /\ \A w \in Words, x \in Halves, v \in Byte :
            Persisted(w, x, v) /\ ~Affects(slot - 1, w, x)' => Persisted(w, x, v)'
      /\ \A w \in Words, x \in Halves, v \in Byte :
            Affects(slot - 1, w, x)' /\ v = LogValue(slot - 1, x)' => Persisted(w, x, v)'
  BY <1>1, <1>2, <1>3, <1>4, AppendFits
<1>6. SlotFit'
  <2>1. slot + 1 # 1 /\ slot + 1 # 0 /\ slot + 1 - 1 = slot
    BY <1>1, <1>3, <1>5
  <2>2. EmptyFrom(empty_slot)' /\ Filled(empty_slot)' /\ Boundary(empty_slot)'
    BY <1>2, <1>5, <2>1, SizeAssumption DEF EmptyFrom, Filled, Boundary, LogIdx
  <2> QED
    BY <1>1, <1>5, <2>1, <2>2 DEF SlotFit, EmptyFrom
<1>7. Reached'
  <2> SUFFICES ASSUME NEW w \in Words, NEW x \in Halves PROVE Persisted(w, x, DataBuf[w][x])'
    BY DEF Reached
  <2>1. PICK v \in Byte : v = DataBuf[w][x]
    BY DEF IInv, TypeOK, Word
  <2>2. slot - 1 + 1 = slot
    BY <1>1, <1>3
  <2>3. NextEntry(cur).kind = "next" /\ NextEntry(cur).w = cur
    BY DEF NextEntry
  <2>4. CASE w = cur
    <3>1. Affects(slot - 1, w, x)'
      BY <1>2, <1>3, <1>5, <2>2, <2>3, <2>4 DEF Affects
    <3>2. v = LogValue(slot - 1, x)'
      BY <1>1, <1>2, <1>5, <2>1, <2>2, <2>3, <2>4 DEF LogValue
    <3> QED
      BY <1>1, <1>5, <2>1, <3>1, <3>2
  <2>5. CASE w # cur
    <3>1. ~Affects(slot - 1, w, x)'
      BY <1>5, <2>3, <2>5 DEF Affects
    <3>2. Persisted(w, x, v)
      BY <1>5, <2>1, <2>5 DEF Reached
    <3> QED
      BY <1>1, <1>5, <2>1, <3>1, <3>2
  <2> QED
    BY <2>4, <2>5
<1> QED
  BY <1>1, <1>5, <1>6, <1>7 DEF Sound, Serving

-----------------------------------------------------------------------------
\* Every step keeps the inductive invariant.
LEMMA StepInv == IInv /\ [Next]_vars => IInv'
<1> SUFFICES ASSUME IInv, [Next]_vars PROVE IInv'
  OBVIOUS
<1>1. TypeOK' /\ Loops'
  BY StepLoops DEF IInv
<1>2. Sound'
  <2>1. CASE Step
    BY <2>1, InitSound, ReplaySound, ReplayEndSound, ErasePageSound, MagicSound, CompactSound,
       LogByteSound, LogWordSound, LogWordValueSound DEF Step
  <2>2. CASE Call
    BY <2>2, CallSound, RestartSound DEF Call
  <2>3. CASE Crash
    BY <2>3, RestartSound
  <2>4. CASE UNCHANGED vars
    BY <2>4 DEF vars, IInv, Sound, FlashFit, MagicOK, LogShape, CellShape, Boundary, EmptyFrom,
                Filled, Blank, Orphaned, Affects, Serving, SlotFit, Reached, Replayed, Persisted,
                ReadUpTo, Latest, LogValue
  <2> QED
    BY <2>1, <2>2, <2>3, <2>4 DEF Next
<1> QED
  BY <1>1, <1>2 DEF IInv

\* Between calls, a power cycle brings back every byte the cache serves, for every size
\* of the EEPROM and of the log and every division into pages that puts the compacted
\* area first, as long as neither of the two hazards of eeprom.c has struck.
THEOREM Durable == Spec => []IntactSurvivesReboot
<1>1. IInv => IntactSurvivesReboot
  BY DEF IInv, Sound, Serving, Reached, IntactSurvivesReboot
<1> QED
  BY <1>1, InitInv, StepInv, PTL DEF Spec

-----------------------------------------------------------------------------
(* The emulation implements the durable store: the initial states map to   *)
(* initial states, and every step maps to a step of DurableStore or to a   *)
(* stutter.                                                                 *)

\* The first erase after a power loss finds a log without a magic.
InitErases == pc = "erase" /\ resume = "init" => ~MagicOK

RInv == IInv /\ InitErases

-----------------------------------------------------------------------------
(* What a power cycle would restore is one value per byte.                 *)

\* A set of positions of the log that is not empty has a last one.
LEMMA LastPosition ==
    ASSUME NEW P \in SUBSET LogIdx, P # {}
    PROVE  \E p \in P : \A q \in P : q <= p
<1> DEFINE D == {LogLen - p : p \in P}
<1>1. D \subseteq Nat /\ D # {} /\ P \subseteq Int /\ LogLen \in Nat
  <2>1. \A p \in P : p \in Int /\ LogLen - p \in Nat
    BY SizeAssumption DEF LogIdx
  <2>2. PICK p \in P : TRUE
    OBVIOUS
  <2>3. LogLen - p \in D
    BY <2>2
  <2> QED
    BY <2>1, <2>3, SizeAssumption
<1>2. PICK x \in D : \A y \in D : <<y, x>> \notin OpToRel(<, Nat)
  BY <1>1, NatLessThanWellFounded, WFMin
<1>3. \A y \in D : ~ (y < x)
  BY <1>1, <1>2, Zenon DEF OpToRel
<1>4. PICK p \in P : x = LogLen - p
  BY <1>2
<1>5. ASSUME NEW q \in P PROVE q <= p
  <2>1. ~ (LogLen - q < LogLen - p)
    BY <1>3, <1>4
  <2> QED
    BY <1>1, <2>1
<1> QED
  BY <1>4, <1>5

\* The log read up to any position gives each byte a value, and only one.
LEMMA ReadIsUnique ==
    ASSUME TypeOK, NEW n \in Nat, NEW w \in Words, NEW s \in Halves
    PROVE  \E v \in Byte : \A u : ReadUpTo(n, w, s, u) <=> u = v
<1> DEFINE P == {p \in LogIdx : p >= 2 /\ p < n /\ Affects(p, w, s)}
<1>1. compacted[w][s] \in Byte
  BY DEF TypeOK, Word
<1>2. CASE P = {}
  <2>1. \A u : ReadUpTo(n, w, s, u) <=> u = compacted[w][s]
    BY <1>2 DEF ReadUpTo, Latest
  <2> QED
    BY <1>1, <2>1
<1>3. CASE P # {}
  <2>1. PICK p \in P : \A q \in P : q <= p
    BY <1>3, LastPosition
  <2>2. Latest(p, n, w, s) /\ p \in LogIdx
    BY <2>1, SizeFacts DEF Latest
  <2>3. \A q \in LogIdx : Latest(q, n, w, s) => q = p
    BY <2>1, <2>2, SizeFacts DEF Latest
  <2>4. \A u : ReadUpTo(n, w, s, u) <=> u = LogValue(p, s)
    BY <2>2, <2>3 DEF ReadUpTo, Latest
  <2>5. LogValue(p, s) \in Byte
    <3>1. Affects(p, w, s)
      BY <2>2 DEF Latest
    <3>2. wlog[p].kind = "next" => p + 1 \in LogIdx
      BY <3>1 DEF Affects
    <3> QED
      BY <2>2, <3>2 DEF LogValue, TypeOK, Cell, Word
  <2> QED
    BY <2>4, <2>5
<1> QED
  BY <1>2, <1>3

StableReads ==
    /\ Stable \in [Words -> Word]
    /\ \A w \in Words, s \in Halves : \A v : Persisted(w, s, v) <=> v = Stable[w][s]

\* Stable is what Persisted says, byte by byte.
LEMMA StableIs == TypeOK => StableReads
<1> SUFFICES ASSUME TypeOK PROVE StableReads
  OBVIOUS
<1>1. ASSUME NEW w \in Words, NEW s \in Halves
      PROVE  Stable[w][s] \in Byte /\ \A v : Persisted(w, s, v) <=> v = Stable[w][s]
  <2>1. PICK b \in Byte : \A u : Persisted(w, s, u) <=> u = b
    BY ReadIsUnique, SizeAssumption DEF Persisted
  <2>2. Stable[w][s] = CHOOSE v \in Byte : Persisted(w, s, v)
    BY DEF Stable
  <2> QED
    BY <2>1, <2>2
<1>2. Stable \in [Words -> Word]
  BY <1>1 DEF Stable, Word
<1> QED
  BY <1>1, <1>2 DEF StableReads

\* A step that takes no value from the flash leaves what it would restore.
LEMMA SameStable ==
    ASSUME TypeOK, TypeOK',
           \A w \in Words, s \in Halves, v \in Byte : Persisted(w, s, v) => Persisted(w, s, v)'
    PROVE  Stable' = Stable
<1>1. /\ Stable \in [Words -> Word]
      /\ \A w \in Words, s \in Halves : \A v : Persisted(w, s, v) <=> v = Stable[w][s]
  BY StableIs DEF StableReads
<1>2. /\ Stable' \in [Words -> Word]
      /\ \A w \in Words, s \in Halves : \A v : Persisted(w, s, v)' <=> v = Stable'[w][s]
  <2>1. StableReads'
    BY StableIs, PTL
  <2> QED
    BY <2>1 DEF StableReads
<1>3. \A w \in Words, s \in Halves : Stable[w][s] \in Byte
  BY <1>1 DEF Word
<1>4. \A w \in Words, s \in Halves : Stable'[w][s] = Stable[w][s]
  BY <1>1, <1>2, <1>3
<1>5. \A w \in Words : Stable'[w] = Stable[w]
  <2> SUFFICES ASSUME NEW w \in Words PROVE Stable'[w] = Stable[w]
    OBVIOUS
  <2>1. Stable'[w] \in Word /\ Stable[w] \in Word
    BY <1>1, <1>2
  <2> QED
    BY <1>4, <2>1 DEF Word
<1> HIDE DEF Stable
<1> QED
  BY <1>1, <1>2, <1>5

\* A step that takes the value of one byte to the flash, and no other from it.
LEMMA PersistByteStable ==
    ASSUME TypeOK, TypeOK', NEW c \in Words, NEW h \in Halves, NEW b \in Byte,
           Persisted(c, h, b)',
           \A w \in Words, s \in Halves, v \in Byte :
              w # c \/ s # h => (Persisted(w, s, v) => Persisted(w, s, v)')
    PROVE  Stable' = [Stable EXCEPT ![c][h] = b]
<1>1. /\ Stable \in [Words -> Word]
      /\ \A w \in Words, s \in Halves : \A v : Persisted(w, s, v) <=> v = Stable[w][s]
  BY StableIs DEF StableReads
<1>2. /\ Stable' \in [Words -> Word]
      /\ \A w \in Words, s \in Halves : \A v : Persisted(w, s, v)' <=> v = Stable'[w][s]
  <2>1. StableReads'
    BY StableIs, PTL
  <2> QED
    BY <2>1 DEF StableReads
<1> HIDE DEF Stable
<1> DEFINE new == [Stable EXCEPT ![c][h] = b]
<1>3. new \in [Words -> Word]
  BY <1>1 DEF Word
<1>4. ASSUME NEW w \in Words, NEW s \in Halves PROVE Stable'[w][s] = new[w][s]
  <2>1. CASE w = c /\ s = h
    BY <1>1, <1>2, <2>1 DEF Word
  <2>2. CASE ~(w = c /\ s = h)
    <3>1. new[w][s] = Stable[w][s] /\ Stable[w][s] \in Byte
      BY <1>1, <2>2 DEF Word
    <3> QED
      BY <1>1, <1>2, <2>2, <3>1
  <2> QED
    BY <2>1, <2>2
<1> HIDE DEF new
<1>5. ASSUME NEW w \in Words PROVE Stable'[w] = new[w]
  <2>1. Stable'[w] \in Word /\ new[w] \in Word
    BY <1>2, <1>3
  <2> QED
    BY <1>4, <2>1 DEF Word
<1>6. Stable' = new
  BY <1>2, <1>3, <1>5
<1> QED
  BY <1>6 DEF new

\* The same for both bytes of a word.
LEMMA PersistWordStable ==
    ASSUME TypeOK, TypeOK', NEW c \in Words, NEW val \in Word,
           \A s \in Halves : Persisted(c, s, val[s])',
           \A w \in Words, s \in Halves, v \in Byte :
              w # c => (Persisted(w, s, v) => Persisted(w, s, v)')
    PROVE  Stable' = [Stable EXCEPT ![c] = val]
<1>1. /\ Stable \in [Words -> Word]
      /\ \A w \in Words, s \in Halves : \A v : Persisted(w, s, v) <=> v = Stable[w][s]
  BY StableIs DEF StableReads
<1>2. /\ Stable' \in [Words -> Word]
      /\ \A w \in Words, s \in Halves : \A v : Persisted(w, s, v)' <=> v = Stable'[w][s]
  <2>1. StableReads'
    BY StableIs, PTL
  <2> QED
    BY <2>1 DEF StableReads
<1> HIDE DEF Stable
<1> DEFINE new == [Stable EXCEPT ![c] = val]
<1>3. new \in [Words -> Word]
  BY <1>1
<1>4. ASSUME NEW w \in Words, NEW s \in Halves PROVE Stable'[w][s] = new[w][s]
  <2>1. CASE w = c
    BY <1>1, <1>2, <2>1
  <2>2. CASE w # c
    <3>1. new[w][s] = Stable[w][s] /\ Stable[w][s] \in Byte
      BY <1>1, <2>2 DEF Word
    <3> QED
      BY <1>1, <1>2, <2>2, <3>1
  <2> QED
    BY <2>1, <2>2
<1> HIDE DEF new
<1>5. ASSUME NEW w \in Words PROVE Stable'[w] = new[w]
  <2>1. Stable'[w] \in Word /\ new[w] \in Word
    BY <1>2, <1>3
  <2> QED
    BY <1>4, <2>1 DEF Word
<1>6. Stable' = new
  BY <1>2, <1>3, <1>5
<1> QED
  BY <1>6 DEF new

\* Flash that does not change restores what it restored.
LEMMA FlashSame ==
    ASSUME UNCHANGED flash PROVE Stable' = Stable
BY DEF flash, Stable, Persisted, ReadUpTo, Latest, Affects, LogValue, MagicOK

\* With an empty log the compacted area is all there is.
LEMMA EmptyStable == TypeOK /\ EmptyFrom(2) => Stable = compacted
<1> SUFFICES ASSUME TypeOK, EmptyFrom(2) PROVE Stable = compacted
  OBVIOUS
<1>1. /\ Stable \in [Words -> Word]
      /\ \A w \in Words, s \in Halves : \A v : Persisted(w, s, v) <=> v = Stable[w][s]
  BY StableIs DEF StableReads
<1>2. compacted \in [Words -> Word]
  BY DEF TypeOK
<1>3. ASSUME NEW w \in Words PROVE Stable[w] = compacted[w]
  <2>1. ASSUME NEW s \in Halves PROVE Stable[w][s] = compacted[w][s]
    <3>1. \A q \in LogIdx : q >= 2 => ~Affects(q, w, s)
      BY EmptyAffects
    <3>2. \A n : ReadUpTo(n, w, s, compacted[w][s])
      BY <3>1, ReadNone
    <3>3. Persisted(w, s, compacted[w][s])
      BY <3>2 DEF Persisted
    <3> QED
      BY <1>1, <3>3
  <2>2. Stable[w] \in Word /\ compacted[w] \in Word
    BY <1>1, <1>2
  <2> QED
    BY <2>1, <2>2 DEF Word
<1> HIDE DEF Stable
<1> QED
  BY <1>1, <1>2, <1>3

\* Between calls, what a power cycle would restore is what the cache serves.
LEMMA IdleStable == IInv /\ intact /\ pc = "idle" => Stable = DataBuf
<1> SUFFICES ASSUME IInv, intact, pc = "idle" PROVE Stable = DataBuf
  OBVIOUS
<1>1. /\ Stable \in [Words -> Word]
      /\ \A w \in Words, s \in Halves : \A v : Persisted(w, s, v) <=> v = Stable[w][s]
  BY StableIs DEF StableReads, IInv
<1>2. DataBuf \in [Words -> Word]
  BY DEF IInv, TypeOK
<1>3. \A w \in Words, s \in Halves : Stable[w][s] = DataBuf[w][s]
  BY <1>1 DEF IInv, Sound, Serving, Reached
<1>4. ASSUME NEW w \in Words PROVE Stable[w] = DataBuf[w]
  <2>1. Stable[w] \in Word /\ DataBuf[w] \in Word
    BY <1>1, <1>2
  <2> QED
    BY <1>3, <2>1 DEF Word
<1> HIDE DEF Stable
<1> QED
  BY <1>1, <1>2, <1>4

\* The same after a step.
LEMMA NextIdleStable ==
    ASSUME IInv', intact', pc' = "idle" PROVE Stable' = DataBuf'
<1>1. (IInv /\ intact /\ pc = "idle")'
  OBVIOUS
<1>2. (Stable = DataBuf)'
  BY <1>1, IdleStable, PTL
<1> QED
  BY <1>2

-----------------------------------------------------------------------------
(* The invariant.                                                          *)

\* No step turns the log that EEPROM_Init is erasing into one with a magic.
LEMMA StepErases == RInv /\ [Next]_vars => RInv'
<1> SUFFICES ASSUME RInv, [Next]_vars PROVE RInv'
  OBVIOUS
<1>1. IInv'
  BY StepInv DEF RInv
<1>2. InitErases'
  <2> SUFFICES ASSUME pc' = "erase", resume' = "init" PROVE ~MagicOK'
    BY DEF InitErases
  <2>1. EEPROM_Init \/ ErasePage \/ UNCHANGED vars
    BY DEF Next, Step, Call, Crash, EEPROM_Init, ReplayEntry, ReplayEnd, ErasePage, ProgramMagic0,
           ProgramMagic1, CompactWord, CompactEnd, Continue, LogByte, LogWord, LogWordValue,
           StartCompact, EEPROM_Erase, EEPROM_WriteData
  <2>2. CASE EEPROM_Init
    BY <2>2 DEF EEPROM_Init, MagicOK, flash
  <2>3. CASE ErasePage
    <3>1. pc = "erase" /\ resume = "init" /\ ~MagicOK
      BY <2>3 DEF ErasePage, RInv, InitErases
    <3> QED
      BY <2>3, <3>1, SizeFacts DEF ErasePage, MagicOK
  <2>4. CASE UNCHANGED vars
    BY <2>4 DEF vars, RInv, InitErases, MagicOK
  <2> QED
    BY <2>1, <2>2, <2>3, <2>4
<1> QED
  BY <1>1, <1>2 DEF RInv

-----------------------------------------------------------------------------
(* The steps of the boot and of eeprom_clear.                              *)

\* A step of the boot is no step of the store.
LEMMA Silent ==
    ASSUME Stable' = Stable, Phase' = Phase, intact' = intact,
           Phase = "off" \/ DataBuf' = DataBuf,
           Phase \notin {"ready", "writing"}
    PROVE  UNCHANGED Store!vars
BY DEF Store!vars

\* Until the replay is over the store is switched off.
LEMMA BootSteps ==
    ASSUME EEPROM_Init \/ ReplayEntry PROVE UNCHANGED Store!vars
<1>1. Phase = "off" /\ Phase' = "off"
  BY DEF EEPROM_Init, ReplayEntry, Phase, Clearing
<1>2. UNCHANGED <<flash, intact>>
  BY DEF EEPROM_Init, ReplayEntry
<1> QED
  BY <1>1, <1>2, FlashSame, Silent

\* The end of the replay restarts the store: reads return what was kept.
LEMMA RestartStep ==
    ASSUME IInv, IInv', intact, ReplayEnd PROVE Store!Restart /\ Store!Settled
<1>1. /\ pc = "replay" /\ pc' = "idle" /\ empty_slot' = pos
      /\ UNCHANGED <<flash, DataBuf, intact>>
  BY DEF ReplayEnd
<1>2. Phase = "off" /\ Phase' = "ready"
  BY <1>1 DEF Phase, Clearing
<1>3. Stable' = DataBuf'
  BY <1>1, NextIdleStable
<1>4. ~(empty_slot' < 2)
  BY <1>1 DEF IInv, Loops, ReplayPos
<1> QED
  BY <1>1, <1>2, <1>3, <1>4, FlashSame DEF Store!Restart, Store!Settled

\* The magic is written on an erased log: nothing a power cycle restores changes.
LEMMA MagicKeeps ==
    ASSUME IInv, IInv', ProgramMagic0 \/ ProgramMagic1
    PROVE  Stable = compacted /\ Stable' = compacted /\ compacted = Store!Blank
<1>1. Blank /\ EmptyFrom(1) /\ UNCHANGED compacted
  BY SizeFacts DEF ProgramMagic0, ProgramMagic1, IInv, Loops, MagicPos, EmptyFrom
<1>2. EmptyFrom(2) /\ EmptyFrom(2)'
  <2>1. wlog \in [LogIdx -> Cell]
    BY DEF IInv, TypeOK
  <2>2. \A q \in LogIdx : q >= 2 => wlog'[q] = wlog[q]
    BY <2>1, SizeFacts, ProgramEffect DEF ProgramMagic0, ProgramMagic1
  <2> QED
    BY <1>1, <2>2, SizeFacts DEF EmptyFrom
<1>3. Stable = compacted
  BY <1>2, EmptyStable DEF IInv
<1>4. (Stable = compacted)'
  <2>1. (TypeOK /\ EmptyFrom(2))'
    BY <1>2 DEF IInv
  <2> QED
    BY <2>1, EmptyStable, PTL
<1>5. compacted = Store!Blank
  BY <1>1 DEF IInv, TypeOK, Blank, Zero, Store!Blank
<1> QED
  BY <1>1, <1>3, <1>4, <1>5

\* The first halfword of the magic is no step of the store.
LEMMA Magic0Step ==
    ASSUME IInv, IInv', ProgramMagic0 PROVE UNCHANGED Store!vars
<1>1. /\ pc = "magic0" /\ pc' = "magic1" /\ UNCHANGED <<DataBuf, resume, intact>>
  BY DEF ProgramMagic0
<1>2. Phase' = Phase /\ Phase \notin {"ready", "writing"}
  BY <1>1 DEF Phase, Clearing
<1> QED
  BY <1>1, <1>2, MagicKeeps, Silent

\* The second one completes a wipe.
LEMMA WipeEnds ==
    ASSUME IInv, IInv', ProgramMagic1, resume = "erase" PROVE Store!EndWipe
<1>1. pc = "magic1" /\ pc' = "load" /\ intact'
  BY DEF ProgramMagic1
<1>2. Phase = "wiping" /\ Phase' = "off"
  BY <1>1 DEF Phase, Clearing
<1> QED
  BY <1>1, <1>2, MagicKeeps DEF Store!EndWipe

\* At boot, and before a compaction, it is no step of the store.
LEMMA Magic1Step ==
    ASSUME IInv, IInv', ProgramMagic1, resume # "erase" PROVE UNCHANGED Store!vars
<1>1. /\ pc = "magic1" /\ UNCHANGED <<DataBuf, resume>>
      /\ \/ resume = "init" /\ pc' = "replay"
         \/ resume = "compact" /\ pc' = "compact"
  BY DEF ProgramMagic1, IInv, TypeOK
<1>2. intact' = intact
  BY DEF ProgramMagic1, IInv, TypeOK
<1>3. Phase' = Phase /\ Phase \notin {"ready", "writing"}
  BY <1>1 DEF Phase, Clearing
<1> QED
  BY <1>1, <1>2, <1>3, MagicKeeps, Silent

\* A power loss leaves the store with what it kept.
LEMMA CrashStep ==
    ASSUME RInv, intact, Crash PROVE Store!Crash
<1>1. pc' = "load" /\ intact' = (intact /\ ~Orphaned) /\ UNCHANGED flash
  BY DEF Crash
<1>2. Phase' = "off" /\ Stable' = Stable
  BY <1>1, FlashSame DEF Phase, Clearing
<1>3. intact' \in BOOLEAN
  BY <1>1
<1>4. Phase \notin {"rebuilding", "wiping"} => intact'
  <2> SUFFICES ASSUME Phase \notin {"rebuilding", "wiping"} PROVE ~Orphaned
    BY <1>1
  <2>1. CASE pc = "erase"
    <3>1. resume = "init"
      BY <2>1 DEF Phase, Clearing, RInv, IInv, TypeOK
    <3> QED
      BY <2>1, <3>1 DEF RInv, InitErases, Orphaned
  <2>2. CASE pc # "erase"
    BY <2>2 DEF RInv, IInv, Sound
  <2> QED
    BY <2>1, <2>2
<1> QED
  BY <1>2, <1>3, <1>4 DEF Store!Crash

\* A page erase blanks a byte or leaves it alone: a log entry is not erased before the
\* compacted halfword of its word.
LEMMA ErasePageStable ==
    ASSUME RInv, RInv', intact, ErasePage
    PROVE  /\ resume = "init" => Stable' = Stable
           /\ Stable' \in [Words -> Word]
           /\ \A w \in Words, s \in Halves : Stable'[w][s] \in {Stable[w][s], 0}
<1>1. /\ pc = "erase" /\ pos \in 0 .. NumPages - 1
      /\ compacted' = [w \in Words |-> IF CPage(w) = pos THEN Zero ELSE compacted[w]]
      /\ wlog' = [p \in LogIdx |-> IF LPage(p) = pos THEN Empty ELSE wlog[p]]
      /\ \A w \in Words : CPage(w) < pos => compacted[w] = Zero
  BY DEF ErasePage, RInv, IInv, Loops, ErasePos
<1>2. /\ Stable \in [Words -> Word] /\ Stable' \in [Words -> Word]
      /\ \A w \in Words, s \in Halves : \A v : Persisted(w, s, v) <=> v = Stable[w][s]
      /\ \A w \in Words, s \in Halves : \A v : Persisted(w, s, v)' <=> v = Stable'[w][s]
  <2>1. StableReads /\ TypeOK'
    BY StableIs DEF RInv, IInv
  <2>2. StableReads'
    BY <2>1, StableIs, PTL
  <2> QED
    BY <2>1, <2>2 DEF StableReads
<1> HIDE DEF Stable
<1>3. CASE ~MagicOK'
  <2>1. Blank'
    BY <1>3 DEF ErasePage, RInv, IInv, Sound, FlashFit
  <2>2. \A w \in Words, s \in Halves : Stable'[w][s] = 0
    <3> SUFFICES ASSUME NEW w \in Words, NEW s \in Halves PROVE Persisted(w, s, 0)'
      BY <1>2
    <3>1. \A q \in LogIdx : ~(q >= 2 /\ q < 0)
      BY SizeFacts
    <3>2. compacted'[w][s] = 0
      BY <2>1 DEF Blank, Zero
    <3> QED
      BY <1>3, <3>1, <3>2 DEF Persisted, ReadUpTo
  <2>3. CASE resume = "init"
    <3>1. ~MagicOK /\ Blank
      BY <1>1, <2>3 DEF RInv, InitErases, IInv, Sound, FlashFit
    <3>2. \A w \in Words, s \in Halves : Stable[w][s] = 0
      <4> SUFFICES ASSUME NEW w \in Words, NEW s \in Halves PROVE Persisted(w, s, 0)
        BY <1>2
      <4>1. \A q \in LogIdx : ~(q >= 2 /\ q < 0)
        BY SizeFacts
      <4>2. compacted[w][s] = 0
        BY <3>1 DEF Blank, Zero
      <4> QED
        BY <3>1, <4>1, <4>2 DEF Persisted, ReadUpTo
    <3>3. ASSUME NEW w \in Words PROVE Stable'[w] = Stable[w]
      <4>1. Stable'[w] \in Word /\ Stable[w] \in Word
        BY <1>2
      <4> QED
        BY <2>2, <3>2, <4>1 DEF Word
    <3> QED
      BY <1>2, <2>2, <3>3
  <2> QED
    BY <1>2, <2>2, <2>3
<1>4. CASE MagicOK'
  <2>1. pos < FirstLogPage /\ MagicOK
    <3>1. wlog'[0] = wlog[0] /\ wlog'[1] = wlog[1] /\ LPage(0) # pos
      BY <1>1, <1>4, SizeFacts DEF MagicOK
    <3>2. ~ (pos > FirstLogPage)
      <4> SUFFICES ASSUME pos > FirstLogPage PROVE FALSE
        OBVIOUS
      <4>1. wlog[0].kind = "empty"
        BY <1>1, PageAssumption, SizeFacts DEF RInv, IInv, Loops, ErasePos
      <4> QED
        BY <1>4, <3>1, <4>1 DEF MagicOK
    <3> QED
      BY <1>1, <1>4, <3>1, <3>2, PageAssumption DEF MagicOK
  <2>2. wlog' = wlog
    <3>1. \A p \in LogIdx : LPage(p) # pos
      BY <1>1, <2>1, PageAssumption
    <3> QED
      BY <1>1, <3>1 DEF RInv, IInv, TypeOK
  <2>3. resume # "init"
    BY <1>1, <2>1 DEF RInv, InitErases
  <2>4. ASSUME NEW w \in Words, NEW s \in Halves
        PROVE  Stable'[w][s] \in {Stable[w][s], 0}
    <3>1. PICK v : v = Stable[w][s]
      OBVIOUS
    <3>2. ReadUpTo(LogLen, w, s, v)
      BY <1>2, <2>1, <3>1 DEF Persisted
    <3>3. CASE \E p \in LogIdx : Latest(p, LogLen, w, s) /\ v = LogValue(p, s)
      <4>1. ReadUpTo(LogLen, w, s, v)'
        BY <2>2, <3>3 DEF ReadUpTo, Latest, Affects, LogValue
      <4>2. Persisted(w, s, v)'
        BY <1>4, <4>1 DEF Persisted
      <4> QED
        BY <1>2, <3>1, <4>2
    <3>4. CASE /\ \A p \in LogIdx : p >= 2 /\ p < LogLen => ~Affects(p, w, s)
               /\ v = compacted[w][s]
      <4>1. ReadUpTo(LogLen, w, s, compacted[w][s])'
        BY <2>2, <3>4 DEF ReadUpTo, Affects
      <4>2. Stable'[w][s] = compacted'[w][s]
        BY <1>2, <1>4, <4>1 DEF Persisted
      <4>3. compacted'[w] = compacted[w] \/ compacted'[w] = Zero
        BY <1>1
      <4> QED
        BY <3>1, <3>4, <4>2, <4>3 DEF Zero
    <3> QED
      BY <3>2, <3>3, <3>4 DEF ReadUpTo
  <2> QED
    BY <1>2, <2>3, <2>4
<1> QED
  BY <1>3, <1>4

\* Erasing a page is a step of a wipe or of a rebuild, and none at boot.
LEMMA EraseStep ==
    ASSUME RInv, RInv', intact, ErasePage
    PROVE  \/ UNCHANGED Store!vars
           \/ (Store!Rebuild \/ Store!Wipe) /\ Store!Settled
<1>1. /\ pc = "erase" /\ pc' \in Clearing /\ resume \in {"init", "erase", "compact"}
      /\ UNCHANGED <<DataBuf, empty_slot, resume, intact>>
  BY DEF ErasePage, Clearing, RInv, IInv, TypeOK
<1>2. /\ Phase' = Phase
      /\ Phase = CASE resume = "init" -> "off" [] resume = "erase" -> "wiping"
                   [] OTHER -> "rebuilding"
  BY <1>1 DEF Phase, Clearing
<1>3. CASE resume = "init"
  BY <1>1, <1>2, <1>3, ErasePageStable, Silent
<1>4. CASE resume = "erase"
  <2>1. Phase = "wiping" /\ Phase' = "wiping"
    BY <1>2, <1>4
  <2> QED
    BY <1>1, <2>1, ErasePageStable DEF Store!Wipe, Store!Settled, Word, Store!Word
<1>5. CASE resume = "compact"
  <2>1. Phase = "rebuilding" /\ Phase' = "rebuilding"
    BY <1>2, <1>5
  <2> QED
    BY <1>1, <2>1, ErasePageStable DEF Store!Rebuild, Store!Settled, Word, Store!Word
<1> QED
  BY <1>1, <1>3, <1>4, <1>5

-----------------------------------------------------------------------------
(* The steps of a compaction and of the calls.                             *)

\* A word that is compacted becomes the one of the cache.
LEMMA CompactStep ==
    ASSUME IInv, IInv', CompactWord PROVE Store!Rebuild /\ Store!Settled
<1>1. /\ pc = "compact" /\ pc' = "compact" /\ EmptyFrom(2) /\ EmptyFrom(2)'
      /\ \A w \in Words : compacted[w] = IF w < pos THEN DataBuf[w] ELSE Zero
      /\ \A w \in Words : compacted'[w] = IF w < pos' THEN DataBuf'[w] ELSE Zero
      /\ UNCHANGED <<DataBuf, empty_slot, intact>>
  BY DEF CompactWord, IInv, Loops, CompactPos
<1>2. Phase = "rebuilding" /\ Phase' = "rebuilding"
  BY <1>1 DEF Phase, Clearing
<1>3. Stable = compacted /\ Stable' = compacted'
  <2>1. (TypeOK /\ EmptyFrom(2))'
    BY <1>1 DEF IInv
  <2>2. (Stable = compacted)'
    BY <2>1, EmptyStable, PTL
  <2> QED
    BY <1>1, <2>2, EmptyStable DEF IInv
<1>4. Stable' \in [Words -> Word]
  BY <1>3 DEF IInv, TypeOK
<1>5. \A w \in Words, s \in Halves : Stable'[w][s] \in {0, DataBuf[w][s]}
  BY <1>1, <1>3 DEF Zero
<1> QED
  BY <1>1, <1>2, <1>4, <1>5 DEF Store!Rebuild, Store!Settled, Word, Store!Word

\* The compaction ends with a store that holds the cache.
LEMMA CompactEnds ==
    ASSUME IInv, CompactEnd PROVE Store!EndRebuild /\ Store!Settled
<1>1. /\ pc = "compact" /\ pc' \in {"idle", "log"} /\ intact' /\ pos = NumWords
      /\ empty_slot = 0 /\ EmptyFrom(2)
      /\ \A w \in Words : compacted[w] = IF w < pos THEN DataBuf[w] ELSE Zero
      /\ UNCHANGED <<flash, DataBuf, empty_slot>>
  BY DEF CompactEnd, Continue, IInv, Loops, CompactPos
<1>2. Phase = "rebuilding" /\ Phase' \in {"ready", "writing"}
  BY <1>1 DEF Phase, Clearing
<1>3. Stable = DataBuf /\ Stable' = Stable
  <2>1. \A w \in Words : w < pos
    BY <1>1, SizeAssumption DEF Words
  <2>2. compacted = DataBuf
    BY <1>1, <2>1 DEF IInv, TypeOK
  <2> QED
    BY <1>1, <2>2, EmptyStable, FlashSame DEF IInv
<1> QED
  BY <1>1, <1>2, <1>3 DEF Store!EndRebuild, Store!Settled

\* A write call changes one word of the cache, and the compacted halfword at once
\* when it is erased.
LEMMA WriteStep ==
    ASSUME IInv, IInv', intact, NEW w \in Words, NEW new \in Word, EEPROM_WriteData(w, new)
    PROVE  Store!Write(w, new) /\ Store!Settled
<1>1. /\ pc = "idle" /\ pc' \in {"idle", "log"} /\ UNCHANGED <<empty_slot, intact>>
      /\ DataBuf' = [DataBuf EXCEPT ![w] = new]
      /\ pc' = "log" => UNCHANGED flash
  BY DEF EEPROM_WriteData, flash
<1>2. Phase = "ready" /\ Phase' \in {"ready", "writing"} /\ (Phase' = "ready" <=> pc' = "idle")
  BY <1>1 DEF Phase, Clearing
<1>3. CASE pc' = "idle"
  <2>1. Stable' = DataBuf'
    BY <1>1, <1>3, NextIdleStable
  <2> QED
    BY <1>1, <1>2, <2>1 DEF Store!Write, Store!Settled
<1>4. CASE pc' = "log"
  <2>1. Stable' = Stable
    BY <1>1, <1>4, FlashSame
  <2> QED
    BY <1>1, <1>2, <1>4, <2>1 DEF Store!Write, Store!Settled
<1> QED
  BY <1>1, <1>3, <1>4

\* EEPROM_Erase starts a wipe.
LEMMA WipeStarts ==
    ASSUME EEPROM_Erase PROVE Store!StartWipe /\ Store!Settled
<1>1. /\ pc = "idle" /\ pc' = "erase" /\ resume' = "erase"
      /\ UNCHANGED <<flash, DataBuf, empty_slot, intact>>
  BY DEF EEPROM_Erase
<1>2. Phase = "ready" /\ Phase' = "wiping"
  BY <1>1 DEF Phase, Clearing
<1> QED
  BY <1>1, <1>2, FlashSame DEF Store!StartWipe, Store!Settled

\* A full log starts a rebuild.
LEMMA RebuildStarts ==
    ASSUME TypeOK, pc = "log", empty_slot >= 2, NEW rest, StartCompact(rest)
    PROVE  Store!StartRebuild /\ Store!Settled
<1>1. /\ pc' = "erase" /\ resume' = "compact" /\ UNCHANGED <<flash, DataBuf, empty_slot, intact>>
  BY DEF StartCompact
<1>2. Phase = "writing" /\ Phase' = "rebuilding"
  BY <1>1 DEF Phase, Clearing
<1>3. ~(empty_slot < 2)
  BY DEF TypeOK
<1> QED
  BY <1>1, <1>2, <1>3, FlashSame DEF Store!StartRebuild, Store!Settled

\* The first append over the magic of a fresh log breaks the promise.
LEMMA SpoilStep ==
    ASSUME TypeOK, pc \in {"log", "value"}, pc' \in {"idle", "log", "value"}, NEW cell, Append(cell),
           intact, ~intact', UNCHANGED DataBuf
    PROVE  Store!Spoil
<1>1. empty_slot < 2
  <2>1. ~(empty_slot >= 2)
    BY Zenon DEF Append, Tarnish
  <2>2. empty_slot \in Int
    BY DEF TypeOK
  <2> QED
    BY <2>1, <2>2
<1>2. intact' = FALSE
  BY DEF Append, Tarnish
<1>3. Phase = "writing" /\ Phase' \in {"ready", "writing"}
  BY DEF Phase, Clearing
<1> QED
  BY <1>1, <1>2, <1>3 DEF Store!Spoil

\* Any other append leaves the magic alone.
LEMMA AppendSteps ==
    ASSUME TypeOK, pc \in {"log", "value"}, pc' \in {"idle", "log", "value"}, NEW cell, Append(cell),
           intact'
    PROVE  /\ Phase = "writing" /\ Phase' \in {"ready", "writing"}
           /\ Phase' = "ready" <=> pc' = "idle"
           /\ empty_slot >= 2 /\ ~(empty_slot < 2) /\ ~(empty_slot' < 2)
           /\ empty_slot' = empty_slot + 1 /\ intact' = intact
<1>1. empty_slot >= 2 /\ intact /\ empty_slot' = empty_slot + 1
  BY Zenon DEF Append, Tarnish
<1>2. intact' = intact /\ empty_slot \in Nat
  <2>1. intact \in BOOLEAN /\ intact' \in BOOLEAN /\ empty_slot \in Nat
    BY DEF TypeOK, Append, Tarnish
  <2> QED
    BY <1>1, <2>1
<1>3. Phase = "writing" /\ Phase' \in {"ready", "writing"} /\ (Phase' = "ready" <=> pc' = "idle")
  BY DEF Phase, Clearing
<1> QED
  BY <1>1, <1>2, <1>3

\* The first halfword of a long entry is no step of the store.
LEMMA FirstHalfword ==
    ASSUME IInv, IInv', pc = "log", pc' = "value", NEW cell \in Cell, Append(cell), intact',
           empty_slot + 1 < LogLen, UNCHANGED <<compacted, DataBuf>>,
           cell.kind = "next", cell.w = cur
    PROVE  UNCHANGED Store!vars
<1>1. PICK slot \in LogIdx : slot = empty_slot
  BY SizeAssumption DEF IInv, TypeOK, LogIdx
<1>2. slot \in Nat /\ LogLen \in Nat /\ slot < LogLen /\ slot + 1 < LogLen
  BY <1>1, SizeAssumption DEF LogIdx
<1>3. EntryAt(cell, slot) = slot
  BY DEF EntryAt
<1>4. /\ wlog'[slot] = cell /\ EmptyFrom(slot + 1)'
      /\ \A w \in Words, s \in Halves, v \in Byte :
            Persisted(w, s, v) /\ ~Affects(slot, w, s)' => Persisted(w, s, v)'
  BY <1>1, <1>2, <1>3, AppendFits
<1>5. \A w \in Words, s \in Halves : ~Affects(slot, w, s)'
  <2>1. slot + 1 \in LogIdx => wlog'[slot + 1].kind = "empty"
    BY <1>2, <1>4 DEF EmptyFrom
  <2> QED
    BY <1>4, <2>1 DEF Affects
<1>6. Stable' = Stable
  BY <1>4, <1>5, SameStable DEF IInv
<1>7. Phase = "writing" /\ Phase' = "writing" /\ ~(empty_slot < 2) /\ ~(empty_slot' < 2)
      /\ intact' = intact
  <2>1. TypeOK
    BY DEF IInv
  <2>2. Phase' = "writing"
    BY DEF Phase, Clearing
  <2> QED
    BY <2>1, <2>2, AppendSteps
<1> QED
  BY <1>6, <1>7 DEF Store!vars

\* A byte entry makes one byte persistent.
LEMMA ByteStep ==
    ASSUME IInv, IInv', intact, LogByte
    PROVE  \/ (\E w \in Words, s \in Halves : Store!PersistByte(w, s)) /\ Store!Settled
           \/ Store!StartRebuild /\ Store!Settled
           \/ Store!Spoil
<1>1. PICK c \in Words, s \in Halves : c = cur /\ s = NextHalf
  BY DEF NextHalf, IInv, TypeOK, Halves
<1>2. PICK b \in Byte : b = DataBuf[c][s]
  BY DEF IInv, TypeOK, Word
<1>3. pc = "log" /\ c < ByteWords
  BY <1>1 DEF LogByte
<1>4. CASE ByteLogFull /\ StartCompact(todo \ {s})
  <2>1. empty_slot >= 2
    BY <1>4, SizeAssumption DEF ByteLogFull, IInv, TypeOK
  <2> QED
    BY <1>3, <1>4, <2>1, RebuildStarts DEF IInv
<1>5. CASE /\ ~ByteLogFull
           /\ Append(ByteEntry(c, s, b))
           /\ Continue(todo \ {s})
           /\ UNCHANGED <<compacted, DataBuf, pos, resume, cur>>
  <2>1. pc' \in {"idle", "log"} /\ TypeOK
    BY <1>5 DEF Continue, IInv
  <2>2. CASE ~intact'
    BY <1>3, <1>5, <2>1, <2>2, SpoilStep
  <2>3. CASE intact'
    <3> DEFINE cell == ByteEntry(c, s, b)
    <3>1. cell.kind = "byte" /\ cell.w = c /\ cell.s = s /\ cell.val[s] = b /\ cell \in Cell
      BY <1>3, CellTypes DEF ByteEntry, Zero
    <3> HIDE DEF cell
    <3>2. PICK slot \in LogIdx : slot = empty_slot
      BY <1>5, SizeAssumption DEF ByteLogFull, IInv, TypeOK, LogIdx
    <3>3. slot < LogLen /\ EntryAt(cell, slot) = slot /\ UNCHANGED compacted
      BY <1>5, <3>1, <3>2, SizeAssumption DEF EntryAt, LogIdx
    <3>4. Append(cell)
      BY <1>5 DEF cell
    <3>5. /\ wlog'[slot] = cell
          /\ \A w \in Words, x \in Halves, v \in Byte :
                Persisted(w, x, v) /\ ~Affects(slot, w, x)' => Persisted(w, x, v)'
          /\ \A w \in Words, x \in Halves, v \in Byte :
                Affects(slot, w, x)' /\ v = LogValue(slot, x)' => Persisted(w, x, v)'
      BY <1>1, <1>3, <2>3, <3>1, <3>2, <3>3, <3>4, AppendFits
    <3>6. Persisted(c, s, b)'
      BY <1>3, <3>1, <3>5 DEF Affects, LogValue
    <3>7. \A w \in Words, x \in Halves, v \in Byte :
             w # c \/ x # s => (Persisted(w, x, v) => Persisted(w, x, v)')
      BY <3>1, <3>5 DEF Affects
    <3>8. Stable' = [Stable EXCEPT ![c][s] = b]
      BY <1>3, <3>6, <3>7, PersistByteStable DEF IInv
    <3>9. /\ Phase = "writing" /\ Phase' \in {"ready", "writing"}
          /\ Phase' = "ready" <=> pc' = "idle"
          /\ ~(empty_slot < 2) /\ ~(empty_slot' < 2) /\ intact' = intact
      BY <1>3, <2>1, <2>3, <3>4, AppendSteps
    <3>10. c \in 0 .. ByteWords - 1
      BY <1>3, SizeFacts, SizeAssumption
    <3>11. Store!PersistByte(c, s)
      BY <1>5, <1>1, <1>2, <3>8, <3>9, <3>10 DEF Store!PersistByte
    <3>12. Store!Settled
      BY <1>5, <2>3, <3>9, NextIdleStable DEF Store!Settled
    <3> QED
      BY <1>3, <3>11, <3>12
  <2> QED
    BY <2>2, <2>3
<1> QED
  BY <1>4, <1>5, <1>1, <1>2 DEF LogByte

\* An append that takes a whole word to the flash ends the call.
LEMMA WordStep ==
    ASSUME IInv, IInv', pc \in {"log", "value"}, pc' = "idle", intact',
           NEW cell, Append(cell), UNCHANGED DataBuf,
           NEW c \in Words, NEW val \in Word, val = DataBuf[c],
           \A s \in Halves : Persisted(c, s, val[s])',
           \A w \in Words, s \in Halves, v \in Byte :
              w # c => (Persisted(w, s, v) => Persisted(w, s, v)')
    PROVE  Store!PersistWord(c) /\ Store!Settled
<1>1. TypeOK /\ TypeOK'
  BY DEF IInv
<1>2. Stable' = [Stable EXCEPT ![c] = val]
  BY <1>1, PersistWordStable
<1>3. /\ Phase = "writing" /\ Phase' = "ready" /\ intact' = intact
      /\ ~(empty_slot < 2) /\ ~(empty_slot' < 2)
  BY <1>1, AppendSteps
<1>4. Stable' = DataBuf'
  BY NextIdleStable
<1> QED
  BY <1>2, <1>3, <1>4 DEF Store!PersistWord, Store!Settled

\* A word entry makes a small value persistent; a large one has its value to come.
LEMMA WordEntryStep ==
    ASSUME IInv, IInv', intact, LogWord
    PROVE  \/ (\E w \in Words : Store!PersistWord(w)) /\ Store!Settled
           \/ Store!StartRebuild /\ Store!Settled
           \/ Store!Spoil
           \/ UNCHANGED Store!vars
<1>1. PICK c \in Words : c = cur
  BY DEF IInv, TypeOK
<1>2. PICK val \in Word : val = DataBuf[c]
  BY DEF IInv, TypeOK
<1>3. pc = "log" /\ TypeOK /\ empty_slot \in Nat /\ LogLen \in Nat /\ LogLen > 2
  BY SizeAssumption DEF LogWord, IInv, TypeOK
<1>4. CASE WordLogFull /\ StartCompact({})
  <2>1. empty_slot >= 2
    BY <1>3, <1>4 DEF WordLogFull, EntrySize
  <2> QED
    BY <1>3, <1>4, <2>1, RebuildStarts
<1>5. ASSUME ~WordLogFull, Encodable(val), Append(WordEntry(c, val)), Continue({}),
             UNCHANGED <<compacted, DataBuf, pos, resume, cur>>
      PROVE  (Store!PersistWord(c) /\ Store!Settled) \/ Store!Spoil
  <2> DEFINE cell == WordEntry(c, val)
  <2>1. cell.kind = "word" /\ cell.w = c /\ cell.val = val /\ cell \in Cell
    BY CellTypes DEF WordEntry
  <2>2. Append(cell) /\ pc' = "idle"
    BY <1>5 DEF Continue
  <2> HIDE DEF cell
  <2>3. CASE ~intact'
    BY <1>3, <1>5, <2>2, <2>3, SpoilStep
  <2>4. CASE intact'
    <3>1. empty_slot < LogLen
      BY <1>1, <1>2, <1>3, <1>5 DEF WordLogFull, EntrySize
    <3>2. PICK slot \in LogIdx : slot = empty_slot
      BY <1>3, <3>1 DEF LogIdx
    <3>3. slot < LogLen /\ EntryAt(cell, slot) = slot /\ UNCHANGED compacted
      BY <1>5, <2>1, <3>1, <3>2 DEF EntryAt
    <3>4. /\ wlog'[slot] = cell
          /\ \A w \in Words, x \in Halves, v \in Byte :
                Persisted(w, x, v) /\ ~Affects(slot, w, x)' => Persisted(w, x, v)'
          /\ \A w \in Words, x \in Halves, v \in Byte :
                Affects(slot, w, x)' /\ v = LogValue(slot, x)' => Persisted(w, x, v)'
      BY <1>1, <1>3, <2>1, <2>2, <2>4, <3>2, <3>3, AppendFits
    <3>5. \A s \in Halves : Persisted(c, s, val[s])'
      <4> SUFFICES ASSUME NEW s \in Halves PROVE Persisted(c, s, val[s])'
        OBVIOUS
      <4>1. PICK v \in Byte : v = val[s]
        BY DEF Word
      <4>2. Affects(slot, c, s)' /\ v = LogValue(slot, s)'
        BY <2>1, <3>4, <4>1 DEF Affects, LogValue
      <4> QED
        BY <3>4, <4>1, <4>2
    <3>6. \A w \in Words, s \in Halves, v \in Byte :
             w # c => (Persisted(w, s, v) => Persisted(w, s, v)')
      BY <2>1, <3>4 DEF Affects
    <3> QED
      BY <1>2, <1>3, <1>5, <2>2, <2>4, <3>5, <3>6, WordStep
  <2> QED
    BY <2>3, <2>4
<1>6. ASSUME ~WordLogFull, ~Encodable(val), Append(NextEntry(c)), pc' = "value",
             UNCHANGED <<compacted, DataBuf, pos, resume, cur>>
      PROVE  UNCHANGED Store!vars \/ Store!Spoil
  <2>1. /\ NextEntry(c) \in Cell /\ NextEntry(c).kind = "next" /\ NextEntry(c).w = cur
        /\ empty_slot + 1 < LogLen
    BY <1>1, <1>2, <1>3, <1>6, CellTypes DEF NextEntry, WordLogFull, EntrySize
  <2>2. CASE ~intact'
    BY <1>3, <1>6, <2>2, SpoilStep
  <2>3. CASE intact'
    BY <1>3, <1>6, <2>1, <2>3, FirstHalfword
  <2> QED
    BY <2>2, <2>3
<1> QED
  BY <1>1, <1>2, <1>4, <1>5, <1>6 DEF LogWord

\* The second halfword of a long entry makes its word persistent.
LEMMA ValueStep ==
    ASSUME IInv, IInv', intact, LogWordValue
    PROVE  ((\E w \in Words : Store!PersistWord(w)) /\ Store!Settled) \/ Store!Spoil
<1>1. PICK c \in Words : c = cur
  BY DEF IInv, TypeOK
<1>2. PICK val \in Word : val = DataBuf[c]
  BY DEF IInv, TypeOK
<1>3. /\ pc = "value" /\ TypeOK /\ empty_slot \in Nat /\ LogLen \in Nat /\ empty_slot < LogLen
      /\ pc' = "idle" /\ UNCHANGED <<compacted, DataBuf>>
  BY SizeAssumption DEF LogWordValue, Continue, IInv, TypeOK, Loops, WritePos
<1> DEFINE cell == DataCell(val)
<1>4. cell.kind = "data" /\ cell.val = val /\ cell \in Cell /\ Append(cell)
  BY <1>1, <1>2, CellTypes DEF DataCell, LogWordValue
<1> HIDE DEF cell
<1>5. CASE ~intact'
  BY <1>3, <1>4, <1>5, SpoilStep
<1>6. CASE intact'
  <2>1. PICK slot \in LogIdx : slot = empty_slot
    BY <1>3 DEF LogIdx
  <2>2. slot < LogLen /\ EntryAt(cell, slot) = slot - 1
    BY <1>3, <1>4, <2>1 DEF EntryAt
  <2>3. /\ wlog'[slot] = cell /\ wlog'[slot - 1] = NextEntry(cur)
        /\ \A w \in Words, x \in Halves, v \in Byte :
              Persisted(w, x, v) /\ ~Affects(slot - 1, w, x)' => Persisted(w, x, v)'
        /\ \A w \in Words, x \in Halves, v \in Byte :
              Affects(slot - 1, w, x)' /\ v = LogValue(slot - 1, x)' => Persisted(w, x, v)'
    BY <1>3, <1>4, <1>6, <2>1, <2>2, AppendFits
  <2>4. slot - 1 + 1 = slot /\ NextEntry(cur).kind = "next" /\ NextEntry(cur).w = c
    BY <1>1, <1>3, <2>1 DEF NextEntry
  <2>5. \A s \in Halves : Persisted(c, s, val[s])'
    <3> SUFFICES ASSUME NEW s \in Halves PROVE Persisted(c, s, val[s])'
      OBVIOUS
    <3>1. PICK v \in Byte : v = val[s]
      BY DEF Word
    <3>2. Affects(slot - 1, c, s)' /\ v = LogValue(slot - 1, s)'
      BY <1>4, <2>3, <2>4, <3>1 DEF Affects, LogValue
    <3> QED
      BY <2>3, <3>1, <3>2
  <2>6. \A w \in Words, s \in Halves, v \in Byte :
           w # c => (Persisted(w, s, v) => Persisted(w, s, v)')
    BY <2>3, <2>4 DEF Affects
  <2> QED
    BY <1>2, <1>3, <1>4, <1>6, <2>5, <2>6, WordStep
<1> QED
  BY <1>5, <1>6

-----------------------------------------------------------------------------
\* An erased flash is a blank store that is switched off.
LEMMA InitMaps == Init => Store!Init
<1> SUFFICES ASSUME Init PROVE Store!Init
  OBVIOUS
<1>1. TypeOK /\ pc = "load" /\ intact /\ intact = TRUE
  BY InitInv DEF IInv, Init
<1>2. EmptyFrom(2)
  BY DEF Init, EmptyFrom, Empty, Marker
<1>3. Stable = compacted
  BY <1>1, <1>2, EmptyStable
<1>4. compacted = Store!Blank
  BY DEF Init, Zero, Store!Blank
<1>5. Phase = "off"
  BY <1>1 DEF Phase, Clearing
<1> QED
  BY <1>1, <1>3, <1>4, <1>5 DEF Store!Init

\* Every step of the emulation is a step of the store or none.
LEMMA StepMaps == RInv /\ [Next]_vars => [Store!Next]_(Store!vars)
<1> SUFFICES ASSUME RInv, [Next]_vars PROVE Store!Next \/ UNCHANGED Store!vars
  BY Zenon
<1>1. RInv' /\ IInv /\ IInv'
  BY StepErases DEF RInv
<1>2. CASE intact
  <2>1. CASE EEPROM_Init \/ ReplayEntry
    BY <2>1, BootSteps
  <2>2. CASE ReplayEnd
    BY <1>1, <1>2, <2>2, RestartStep DEF Store!Next, Store!Trusted
  <2>3. CASE ErasePage
    BY <1>1, <1>2, <2>3, EraseStep DEF Store!Next, Store!Trusted
  <2>4. CASE ProgramMagic0
    BY <1>1, <2>4, Magic0Step
  <2>5. CASE ProgramMagic1
    <3>1. CASE resume = "erase"
      <4>1. Store!EndWipe
        BY <1>1, <2>5, <3>1, WipeEnds
      <4>2. Store!Settled
        BY <4>1 DEF Store!EndWipe, Store!Settled
      <4> QED
        BY <1>2, <4>1, <4>2 DEF Store!Next, Store!Trusted
    <3> QED
      BY <1>1, <2>5, <3>1, Magic1Step
  <2>6. CASE CompactWord
    BY <1>1, <1>2, <2>6, CompactStep DEF Store!Next, Store!Trusted
  <2>7. CASE CompactEnd
    BY <1>1, <1>2, <2>7, CompactEnds DEF Store!Next, Store!Trusted
  <2>8. CASE LogByte
    BY <1>1, <1>2, <2>8, ByteStep DEF Store!Next, Store!Trusted
  <2>9. CASE LogWord
    BY <1>1, <1>2, <2>9, WordEntryStep DEF Store!Next, Store!Trusted
  <2>10. CASE LogWordValue
    BY <1>1, <1>2, <2>10, ValueStep DEF Store!Next, Store!Trusted
  <2>11. CASE EEPROM_Erase
    BY <1>2, <2>11, WipeStarts DEF Store!Next, Store!Trusted
  <2>12. ASSUME NEW w \in Words, NEW new \in Word, EEPROM_WriteData(w, new) PROVE Store!Next
    <3>1. Store!Write(w, new) /\ Store!Settled
      BY <1>1, <1>2, <2>12, WriteStep
    <3>2. new \in Store!Word
      BY DEF Word, Store!Word
    <3> QED
      BY <1>2, <3>1, <3>2 DEF Store!Next, Store!Trusted
  <2>13. CASE Crash
    BY <1>2, <2>13, CrashStep DEF Store!Next
  <2>14. CASE UNCHANGED vars
    BY <2>14, FlashSame DEF vars, flash, Phase, Clearing, Store!vars
  <2> QED
    BY <2>1, <2>2, <2>3, <2>4, <2>5, <2>6, <2>7, <2>8, <2>9, <2>10, <2>11, <2>12, <2>13, <2>14
       DEF Next, Step, Call
<1>3. CASE ~intact
  <2>1. CASE CompactEnd
    BY <1>1, <1>3, <2>1, CompactEnds DEF Store!Next, Store!Untrusted
  <2>2. CASE ProgramMagic1 /\ resume = "erase"
    BY <1>1, <1>3, <2>2, WipeEnds DEF Store!Next, Store!Untrusted
  <2>3. CASE ~CompactEnd /\ ~(ProgramMagic1 /\ resume = "erase")
    <3>1. ~intact'
      BY <1>3, <2>3
         DEF Next, Step, Call, Crash, EEPROM_Init, ReplayEntry, ReplayEnd, ErasePage, ProgramMagic0,
             ProgramMagic1, CompactWord, LogByte, LogWord, LogWordValue, Append, Tarnish,
             StartCompact, EEPROM_Erase, EEPROM_WriteData, vars
    <3> QED
      BY <1>3, <3>1 DEF Store!Next, Store!Untrusted
  <2> QED
    BY <2>1, <2>2, <2>3
<1> QED
  BY <1>2, <1>3

\* The EEPROM emulation keeps the promises of the durable store (eeconfig, VIA and the
\* dynamic keymaps rely on them), for every size of the EEPROM and of the log: a write
\* changes one word, a byte is persistent before the call returns, a compaction loses
\* nothing unless it is interrupted, and only the two hazards intact records end that.
THEOREM Implements == Spec => ImplementsStore
<1>1. Init => RInv
  BY InitInv DEF RInv, InitErases, Init
<1> QED
  BY <1>1, StepErases, InitMaps, StepMaps, PTL DEF Spec, ImplementsStore, Store!Spec
=============================================================================
