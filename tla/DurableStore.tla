---------------------------- MODULE DurableStore ----------------------------
(***************************************************************************)
(* What the EEPROM emulation promises to the code that calls it            *)
(* (eeconfig, VIA, dynamic keymaps): a memory that is read at RAM speed    *)
(* and whose bytes survive a power loss.                                   *)
(*                                                                         *)
(* mem is what reads return, stable what a power cycle would restore.  A   *)
(* write changes one word of mem and reaches stable before the call        *)
(* returns.  The bytes of a word of Tearable may reach it one by one, any  *)
(* other word reaches it whole.  The store may lose data only while it     *)
(* rebuilds (or wipes) its flash, and it may stop keeping the promise      *)
(* (trusted) only when such a rebuild is interrupted or by the first write *)
(* that follows one.                                                       *)
(***************************************************************************)
CONSTANTS Words, Halves, Byte, Tearable

VARIABLES mem, stable, phase, rebuilt, trusted

vars == <<mem, stable, phase, rebuilt, trusted>>

Word  == [Halves -> Byte]
Blank == [w \in Words |-> [s \in Halves |-> 0]]

Phases == {"off", "ready", "writing", "rebuilding", "wiping"}

TypeOK ==
    /\ mem \in [Words -> Word] /\ stable \in [Words -> Word]
    /\ phase \in Phases /\ rebuilt \in BOOLEAN /\ trusted \in BOOLEAN

Init ==
    /\ mem = Blank /\ stable = Blank
    /\ phase = "off" /\ rebuilt = FALSE /\ trusted = TRUE

\* A call that is over leaves nothing behind in RAM only.
Settled == phase' = "ready" => stable' = mem'

\* The call updates mem; the word may reach stable in the same step.
Write(w, new) ==
    /\ phase = "ready" /\ phase' \in {"ready", "writing"}
    /\ mem' = [mem EXCEPT ![w] = new]
    /\ stable' \in {stable, mem'}
    /\ UNCHANGED <<rebuilt, trusted>>

\* A byte, or a whole word, reaches stable.
PersistByte(w, s) ==
    /\ phase = "writing" /\ phase' \in {"ready", "writing"}
    /\ w \in Tearable
    /\ stable' = [stable EXCEPT ![w][s] = mem[w][s]]
    /\ UNCHANGED <<mem, rebuilt, trusted>>

PersistWord(w) ==
    /\ phase = "writing" /\ phase' \in {"ready", "writing"}
    /\ stable' = [stable EXCEPT ![w] = mem[w]]
    /\ UNCHANGED <<mem, rebuilt, trusted>>

\* The store is full: erase everything and start again from mem.
StartRebuild ==
    /\ phase = "writing" /\ phase' = "rebuilding"
    /\ UNCHANGED <<mem, stable, rebuilt, trusted>>

\* While it does, every byte is the old one, blank, or the one of mem.
Rebuild ==
    /\ phase = "rebuilding" /\ phase' = "rebuilding"
    /\ stable' \in [Words -> Word]
    /\ \A w \in Words, s \in Halves : stable'[w][s] \in {stable[w][s], 0, mem[w][s]}
    /\ UNCHANGED <<mem, rebuilt, trusted>>

EndRebuild ==
    /\ phase = "rebuilding" /\ phase' \in {"ready", "writing"}
    /\ stable = mem /\ rebuilt' = TRUE /\ trusted' = TRUE
    /\ UNCHANGED <<mem, stable>>

\* The owner erases the store.
StartWipe ==
    /\ phase = "ready" /\ phase' = "wiping" /\ rebuilt' = FALSE
    /\ UNCHANGED <<mem, stable, trusted>>

Wipe ==
    /\ phase = "wiping" /\ phase' = "wiping"
    /\ stable' \in [Words -> Word]
    /\ \A w \in Words, s \in Halves : stable'[w][s] \in {stable[w][s], 0}
    /\ UNCHANGED <<mem, rebuilt, trusted>>

EndWipe ==
    /\ phase = "wiping" /\ phase' = "off"
    /\ stable' = Blank /\ mem' = Blank /\ trusted' = TRUE
    /\ UNCHANGED rebuilt

\* The power fails.  Only an interrupted rebuild or wipe may cost the promise.
Crash ==
    /\ phase' = "off" /\ mem' = stable' /\ stable' = stable
    /\ trusted' \in IF phase \in {"rebuilding", "wiping"} THEN {TRUE, FALSE} ELSE {TRUE}
    /\ rebuilt' = FALSE

\* The power is back: reads return what stable holds.
Restart ==
    /\ phase = "off" /\ phase' = "ready" /\ rebuilt' = FALSE
    /\ UNCHANGED <<mem, stable, trusted>>

\* The write after a rebuild may break the promise.
Spoil ==
    /\ phase = "writing" /\ rebuilt /\ trusted' = FALSE
    /\ phase' \in {"ready", "writing"} /\ UNCHANGED mem

\* Nothing is promised until the store is rebuilt or wiped in full.
Untrusted ==
    /\ ~trusted
    /\ trusted' => EndRebuild \/ EndWipe

Trusted ==
    \/ \E w \in Words, new \in Word : Write(w, new)
    \/ \E w \in Words : PersistWord(w) \/ \E s \in Halves : PersistByte(w, s)
    \/ StartRebuild \/ Rebuild \/ EndRebuild
    \/ StartWipe \/ Wipe \/ EndWipe
    \/ Restart

Next ==
    \/ trusted /\ ((Trusted /\ Settled) \/ Crash \/ Spoil)
    \/ Untrusted

Spec == Init /\ [][Next]_vars
=============================================================================
