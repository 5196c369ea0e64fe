------------------------------- MODULE Eeprom -------------------------------
(***************************************************************************)
(* EEPROM emulation of the RP2040 port (tmk_core/common/pico/eeprom.c).    *)
(*                                                                         *)
(* The emulated EEPROM is the RAM array DataBuf.  It survives a power loss *)
(* through two regions of flash: the compacted area (one halfword per      *)
(* EEPROM word, complemented, so an erased halfword stands for the value   *)
(* 0) and the write log (a magic number followed by entries).  The power   *)
(* may be cut between any two flash operations.                            *)
(*                                                                         *)
(* An address is a word index and a half (0: low byte, 1: high byte).  A   *)
(* flash halfword of the log is a record instead of 16 packed bits; the    *)
(* flash operations (erase a page, program a halfword) are atomic.         *)
(***************************************************************************)
EXTENDS Integers

CONSTANTS
    NumWords,           \* FEE_DENSITY_BYTES / 2
    ByteWords,          \* FEE_BYTE_RANGE / 2: words below it are logged by bytes
    LogLen,             \* halfwords of the write log, the two of the magic included
    MaxByte,            \* 255
    CompactedPageLen,   \* words of the compacted area in one flash page
    LogPageLen          \* halfwords of the write log in one flash page

Words  == 0 .. NumWords - 1
Halves == {0, 1}
Byte   == 0 .. MaxByte
Word   == [Halves -> Byte]
LogIdx == 0 .. LogLen - 1
Zero   == [s \in Halves |-> 0]

CPage(w)     == w \div CompactedPageLen
FirstLogPage == (NumWords + CompactedPageLen - 1) \div CompactedPageLen
LPage(p)     == FirstLogPage + p \div LogPageLen
NumPages     == LPage(LogLen - 1) + 1                \* FEE_PAGE_COUNT

ASSUME SizeAssumption ==
    /\ NumWords \in Nat \ {0} /\ ByteWords \in Nat
    /\ LogLen \in Nat /\ LogLen > 2
    /\ MaxByte \in Nat \ {0}

\* The compacted pages come first, the page of the magic is the first of the log.
ASSUME PageAssumption ==
    /\ FirstLogPage \in Nat /\ NumPages \in Nat
    /\ \A w \in Words  : CPage(w) \in 0 .. FirstLogPage - 1
    /\ \A p \in LogIdx : LPage(p) \in FirstLogPage .. NumPages - 1
    /\ LPage(0) = FirstLogPage

VARIABLES
    compacted,   \* flash: compacted[w], Zero when the halfword is erased
    wlog,        \* flash: the write log, one cell per halfword
    DataBuf,     \* RAM cache of the whole EEPROM
    empty_slot,  \* RAM: first available halfword of the log
    pc,          \* what the firmware does next
    pos,         \* loop variable of pc: log_addr, page_num or word index
    resume,      \* where eeprom_clear returns to
    cur,         \* word a write call is about
    todo,        \* halves of cur that still have to reach the log
    intact       \* history: see Tarnish and Crash

flash == <<compacted, wlog>>
vars  == <<compacted, wlog, DataBuf, empty_slot, pc, pos, resume, cur, todo, intact>>

-----------------------------------------------------------------------------
(* Log cells.  ~value of the word-next format is a "data" cell.            *)
Kinds == {"empty", "magic0", "magic1", "garbled", "byte", "word", "next", "data"}
Cell  == [kind : Kinds, w : Words, s : Halves, val : Word]

Marker(k)          == [kind |-> k, w |-> 0, s |-> 0, val |-> Zero]
Empty              == Marker("empty")
ByteEntry(w, s, b) == [kind |-> "byte", w |-> w, s |-> s, val |-> [Zero EXCEPT ![s] = b]]
WordEntry(w, v)    == [kind |-> "word", w |-> w, s |-> 0, val |-> v]
NextEntry(w)       == [kind |-> "next", w |-> w, s |-> 0, val |-> Zero]
DataCell(v)        == [kind |-> "data", w |-> 0, s |-> 0, val |-> v]

\* Programming clears bits only: an erased halfword takes the value; another one
\* becomes the bitwise AND of both, which is the old one again or garbage.
Programmed(old, new, garbles) ==
    IF old.kind = "empty" THEN new
    ELSE IF garbles THEN Marker("garbled") ELSE old

\* The same for the compacted area, whose halfwords hold complements.
ProgrammedWord(old, new) ==
    [s \in Halves |-> IF old[s] = 0 THEN new[s] ELSE old[s]]

MagicOK == wlog[0].kind = "magic0" /\ wlog[1].kind = "magic1"

\* FLASH_ProgramHalfWord on halfword p of the log.
Program(p, cell) ==
    \E garbles \in BOOLEAN :
        wlog' = [q \in LogIdx |->
                    IF q = p THEN Programmed(wlog[q], cell, garbles) ELSE wlog[q]]

\* Values 0 and 1 are encoded in the entry itself (value <= 1).
Encodable(v) == v[1] = 0 /\ v[0] <= 1
EntrySize(v) == IF Encodable(v) THEN 1 ELSE 2

-----------------------------------------------------------------------------
(* What the flash says: the value of a byte after the log is replayed over *)
(* the compacted area, that is, what a power cycle would bring back.       *)
Affects(p, w, s) ==
    /\ wlog[p].w = w
    /\ \/ wlog[p].kind = "byte" /\ wlog[p].s = s
       \/ wlog[p].kind = "word"
       \/ wlog[p].kind = "next" /\ p + 1 \in LogIdx /\ wlog[p + 1].kind = "data"

LogValue(p, s) == IF wlog[p].kind = "next" THEN wlog[p + 1].val[s] ELSE wlog[p].val[s]

\* p holds the last entry below position n that gives a value to the byte.
Latest(p, n, w, s) ==
    /\ p >= 2 /\ p < n /\ Affects(p, w, s)
    /\ \A q \in LogIdx : q > p /\ q < n => ~Affects(q, w, s)

\* v is the value of the byte when the log is read up to position n.
ReadUpTo(n, w, s, v) ==
    \/ \E p \in LogIdx : Latest(p, n, w, s) /\ v = LogValue(p, s)
    \/ /\ \A p \in LogIdx : p >= 2 /\ p < n => ~Affects(p, w, s)
       /\ v = compacted[w][s]

Persisted(w, s, v) == ReadUpTo(IF MagicOK THEN LogLen ELSE 0, w, s, v)

\* A log entry for a word whose compacted halfword is erased.
Orphaned ==
    /\ MagicOK
    /\ \E p \in LogIdx, w \in Words, s \in Halves :
          p >= 2 /\ Affects(p, w, s) /\ compacted[w] = Zero

-----------------------------------------------------------------------------
Init ==
    /\ compacted = [w \in Words |-> Zero]
    /\ wlog = [p \in LogIdx |-> Empty]
    /\ DataBuf = [w \in Words |-> Zero]
    /\ empty_slot = 0
    /\ pc = "load" /\ pos = 0 /\ resume = "init"
    /\ cur = 0 /\ todo = {}
    /\ intact = TRUE

\* First half of EEPROM_Init: load the compacted area, look at the magic.
EEPROM_Init ==
    /\ pc = "load"
    /\ DataBuf' = compacted
    /\ IF MagicOK
       THEN pc' = "replay" /\ pos' = 2 /\ UNCHANGED resume
       ELSE pc' = "erase"  /\ pos' = 0 /\ resume' = "init"
    /\ UNCHANGED <<flash, empty_slot, cur, todo, intact>>

AtEntry == pos < LogLen /\ wlog[pos].kind # "empty"

\* The bits of a halfword that is no entry read as some entry or other: any word
\* may change, one or two halfwords are consumed.
Misread ==
    /\ \E w \in Words, v \in Word : DataBuf' = [DataBuf EXCEPT ![w] = v]
    /\ pos' \in {pos + 1, pos + 2} /\ pos' <= LogLen

\* Plausible mistakes in the treatment of an incomplete write: its halfword is
\* handed out again, or the loop variable is not advanced.
ReplayNextReuses(e) ==
    IF pos + 1 < LogLen /\ wlog[pos + 1].kind = "data"
    THEN DataBuf' = [DataBuf EXCEPT ![e.w] = wlog[pos + 1].val] /\ pos' = pos + 2
    ELSE IF pos + 1 < LogLen /\ wlog[pos + 1].kind # "empty"
         THEN Misread
         ELSE UNCHANGED DataBuf /\ pos' = pos + 1

ReplayNextStalls(e) ==
    IF pos + 1 < LogLen /\ wlog[pos + 1].kind = "data"
    THEN DataBuf' = [DataBuf EXCEPT ![e.w] = wlog[pos + 1].val] /\ pos' = pos + 2
    ELSE UNCHANGED <<DataBuf, pos>>

\* A word entry with its value in the next halfword, erased if a crash came first.
ReplayNext(e) ==
    \/ /\ pos + 1 < LogLen /\ wlog[pos + 1].kind \in {"empty", "data"}
       /\ DataBuf' = IF wlog[pos + 1].kind = "empty"
                     THEN DataBuf
                     ELSE [DataBuf EXCEPT ![e.w] = wlog[pos + 1].val]
       /\ pos' = pos + 2
    \/ pos + 1 < LogLen /\ wlog[pos + 1].kind \notin {"empty", "data"} /\ Misread
    \/ pos + 1 = LogLen /\ UNCHANGED DataBuf /\ pos' = LogLen

\* One iteration of the replay loop.
ReplayEntry ==
    /\ pc = "replay" /\ AtEntry
    /\ LET e == wlog[pos] IN
       \/ /\ e.kind = "byte"
          /\ DataBuf' = [DataBuf EXCEPT ![e.w][e.s] = e.val[e.s]]
          /\ pos' = pos + 1
       \/ /\ e.kind = "word"
          /\ DataBuf' = [DataBuf EXCEPT ![e.w] = e.val]
          /\ pos' = pos + 1
       \/ e.kind = "next" /\ ReplayNext(e)
       \/ e.kind \in {"data", "garbled", "magic0", "magic1"} /\ Misread
    /\ UNCHANGED <<flash, empty_slot, pc, resume, cur, todo, intact>>

\* The loop ends at an erased halfword or at the end of the log.
ReplayEnd ==
    /\ pc = "replay" /\ ~AtEntry
    /\ empty_slot' = pos
    /\ pc' = "idle" /\ pos' = 0
    /\ UNCHANGED <<flash, DataBuf, resume, cur, todo, intact>>

-----------------------------------------------------------------------------
(* eeprom_clear: erase the pages in order, then write the magic.           *)
ErasePage ==
    /\ pc = "erase"
    /\ compacted' = [w \in Words |-> IF CPage(w) = pos THEN Zero ELSE compacted[w]]
    /\ wlog' = [p \in LogIdx |-> IF LPage(p) = pos THEN Empty ELSE wlog[p]]
    /\ IF pos + 1 < NumPages THEN pos' = pos + 1 /\ UNCHANGED pc
                             ELSE pos' = 0 /\ pc' = "magic0"
    /\ UNCHANGED <<DataBuf, empty_slot, resume, cur, todo, intact>>

ProgramMagic0 ==
    /\ pc = "magic0"
    /\ Program(0, Marker("magic0"))
    /\ pc' = "magic1"
    /\ UNCHANGED <<compacted, DataBuf, empty_slot, pos, resume, cur, todo, intact>>

\* Position eeprom_clear gives to empty_slot: the base of the log.
ClearedSlot == 0

\* Second halfword of the magic, and the return to the caller of eeprom_clear.
ProgramMagic1 ==
    /\ pc = "magic1"
    /\ Program(1, Marker("magic1"))
    /\ empty_slot' = ClearedSlot
    /\ pc'  = CASE resume = "init" -> "replay" [] resume = "erase" -> "load"
                [] OTHER -> "compact"
    /\ pos' = IF resume = "init" THEN 2 ELSE 0
    /\ intact' = (intact \/ resume = "erase")
    /\ UNCHANGED <<compacted, DataBuf, resume, cur, todo>>

\* EEPROM_Erase: eeprom_clear, then EEPROM_Init.
EEPROM_Erase ==
    /\ pc = "idle"
    /\ pc' = "erase" /\ pos' = 0 /\ resume' = "erase"
    /\ UNCHANGED <<flash, DataBuf, empty_slot, cur, todo, intact>>

\* A mistake: only one byte of a word reaches the log.
ContinueForgets(rest) == todo' = {} /\ pc' = "idle"

\* The write is over, or goes on with the byte that is left.
Continue(rest) == todo' = rest /\ pc' = IF rest = {} THEN "idle" ELSE "log"

\* eeprom_compact, after eeprom_clear: one word per step, erased words skipped.
CompactWord ==
    /\ pc = "compact" /\ pos < NumWords
    /\ compacted' = [compacted EXCEPT ![pos] = ProgrammedWord(@, DataBuf[pos])]
    /\ pos' = pos + 1
    /\ UNCHANGED <<wlog, DataBuf, empty_slot, pc, resume, cur, todo, intact>>

CompactEnd ==
    /\ pc = "compact" /\ pos = NumWords
    /\ pos' = 0
    /\ Continue(todo)
    /\ intact' = TRUE
    /\ UNCHANGED <<flash, DataBuf, empty_slot, resume, cur>>

-----------------------------------------------------------------------------
(* Write calls.                                                            *)

\* EEPROM_WriteDataByte and EEPROM_WriteDataWord: new differs from the old word
\* (a call that changes nothing returns early) in one or in both halves.  The
\* cache is updated, then eeprom_write_direct_entry is tried.
EEPROM_WriteData(w, new) ==
    /\ pc = "idle" /\ new # DataBuf[w]
    /\ DataBuf' = [DataBuf EXCEPT ![w] = new]
    /\ cur' = w
    /\ IF compacted[w] = Zero
       THEN /\ compacted' = [compacted EXCEPT ![w] = new]
            /\ UNCHANGED <<pc, todo>>
       ELSE /\ pc' = "log"
            /\ todo' = IF w < ByteWords THEN {s \in Halves : new[s] # DataBuf[w][s]}
                                        ELSE Halves
            /\ UNCHANGED compacted
    /\ UNCHANGED <<wlog, empty_slot, pos, resume, intact>>

\* History: a program of one of the first two halfwords destroys the magic.
Tarnish == intact' = (intact /\ empty_slot >= 2)

Append(cell) ==
    /\ Program(empty_slot, cell)
    /\ empty_slot' = empty_slot + 1
    /\ Tarnish

\* The log is full: compact, the value being written included.
StartCompact(rest) ==
    /\ pc' = "erase" /\ pos' = 0 /\ resume' = "compact"
    /\ todo' = rest
    /\ UNCHANGED <<flash, DataBuf, empty_slot, cur, intact>>

NextHalf == IF 0 \in todo THEN 0 ELSE 1

\* A mistake: full one entry too late.
ByteLogFullLate == empty_slot > LogLen

ByteLogFull == empty_slot >= LogLen
WordLogFull == empty_slot > LogLen - EntrySize(DataBuf[cur])

\* eeprom_write_log_byte_entry, low half first.
LogByte ==
    /\ pc = "log" /\ cur < ByteWords
    /\ LET s == NextHalf IN
       \/ ByteLogFull /\ StartCompact(todo \ {s})
       \/ /\ ~ByteLogFull
          /\ Append(ByteEntry(cur, s, DataBuf[cur][s]))
          /\ Continue(todo \ {s})
          /\ UNCHANGED <<compacted, DataBuf, pos, resume, cur>>

\* eeprom_write_log_word_entry: the entry, then for a large value its second halfword.
LogWord ==
    /\ pc = "log" /\ cur >= ByteWords
    /\ \/ WordLogFull /\ StartCompact({})
       \/ /\ ~WordLogFull
          /\ \/ /\ Encodable(DataBuf[cur])
                /\ Append(WordEntry(cur, DataBuf[cur]))
                /\ Continue({})
             \/ /\ ~Encodable(DataBuf[cur])
                /\ Append(NextEntry(cur))
                /\ pc' = "value" /\ UNCHANGED todo
          /\ UNCHANGED <<compacted, DataBuf, pos, resume, cur>>

LogWordValue ==
    /\ pc = "value"
    /\ Append(DataCell(DataBuf[cur]))
    /\ Continue({})
    /\ UNCHANGED <<compacted, DataBuf, pos, resume, cur>>

\* Power loss or watchdog reset between two flash operations.  History: the
\* state is no longer intact when the reset left orphaned log entries.
Crash ==
    /\ pc # "load"
    /\ pc' = "load" /\ pos' = 0 /\ resume' = "init" /\ cur' = 0 /\ todo' = {}
    /\ DataBuf' = [w \in Words |-> Zero]
    /\ empty_slot' = 0
    /\ intact' = (intact /\ ~Orphaned)
    /\ UNCHANGED flash

Step ==
    \/ EEPROM_Init \/ ReplayEntry \/ ReplayEnd
    \/ ErasePage \/ ProgramMagic0 \/ ProgramMagic1
    \/ CompactWord \/ CompactEnd
    \/ LogByte \/ LogWord \/ LogWordValue

Call == EEPROM_Erase \/ \E w \in Words, new \in Word : EEPROM_WriteData(w, new)

Next == Step \/ Call \/ Crash

Spec == Init /\ [][Next]_vars

\* The firmware runs its code; calls and power losses need not happen.
FairSpec == Spec /\ WF_vars(Step)

-----------------------------------------------------------------------------
TypeOK ==
    /\ compacted \in [Words -> Word]
    /\ wlog \in [LogIdx -> Cell]
    /\ DataBuf \in [Words -> Word]
    /\ empty_slot \in 0 .. LogLen
    /\ pc \in {"load", "replay", "erase", "magic0", "magic1", "compact", "idle", "log", "value"}
    /\ pos \in Nat
    /\ resume \in {"init", "erase", "compact"}
    /\ cur \in Words
    /\ todo \in SUBSET Halves
    /\ intact \in BOOLEAN

\* Between calls the flash holds what the cache serves: switching the power off
\* and on brings every byte back.  eeprom.c loses this in two ways only, both
\* recorded by intact: a log entry written over the magic, and a power loss
\* between the page erases of eeprom_clear that strands log entries.
IntactSurvivesReboot ==
    pc = "idle" /\ intact =>
        \A w \in Words, s \in Halves : Persisted(w, s, DataBuf[w][s])

\* "Pointer to the first available slot within the write log" (eeprom.c:221):
\* between calls the halfword that takes the next entry is erased.
EmptySlotIsFree ==
    pc = "idle" /\ empty_slot < LogLen => wlog[empty_slot].kind = "empty"
=============================================================================
