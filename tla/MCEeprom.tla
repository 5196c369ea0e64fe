------------------------------ MODULE MCEeprom ------------------------------
(* Eeprom as an implementation of DurableStore.                            *)
EXTENDS Eeprom

\* What a power cycle would restore.
Stable == [w \in Words |-> [s \in Halves |-> CHOOSE v \in Byte : Persisted(w, s, v)]]

Clearing == {"erase", "magic0", "magic1"}

Phase ==
    CASE pc = "idle" -> "ready"
      [] pc \in {"log", "value"} -> "writing"
      [] pc = "compact" \/ (pc \in Clearing /\ resume = "compact") -> "rebuilding"
      [] pc \in Clearing /\ resume = "erase" -> "wiping"
      [] OTHER -> "off"

Store == INSTANCE DurableStore WITH
    Tearable <- 0 .. ByteWords - 1,
    mem      <- IF Phase = "off" THEN Stable ELSE DataBuf,
    stable   <- Stable,
    phase    <- Phase,
    rebuilt  <- Phase \in {"ready", "writing"} /\ empty_slot < 2,
    trusted  <- intact

\* The emulation is a durable memory: every flash operation of a write, a
\* compaction, an erase and a reboot is a step the abstract store may take.
ImplementsStore == Store!Spec

\* Every call returns and every boot completes, unless the power keeps failing:
\* the replay loop, eeprom_clear and eeprom_compact terminate from any state.
ReturnsToCaller == []<><<Crash>>_vars \/ (pc # "idle" ~> pc = "idle")
=============================================================================
