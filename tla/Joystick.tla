------------------------------ MODULE Joystick ------------------------------
(***************************************************************************)
(* analog_joystick_task of keyboards/keyboard_quantizer/mini/main.c: the   *)
(* stick is read at every scan; a tilt that stays the same long enough     *)
(* becomes the new centre, and the cursor speeds up the longer the stick   *)
(* is held off the centre.                                                 *)
(*                                                                         *)
(* Times are kept as what timer_elapsed returns: the time since a stored   *)
(* 16-bit time stamp, modulo TimerMod.  The mounting angle is the board's, *)
(* 0, with which the rotation changes nothing.  The speed stands for the   *)
(* acceleration factor, in steps of one time unit; how far a scan moves    *)
(* the cursor is not modelled.                                             *)
(***************************************************************************)
EXTENDS Integers

CONSTANTS
  Axes,        \* the axes of the stick
  Readings,    \* the ADC values it may give
  Deadzone,    \* ANALOG_JOYSTICK_ADC_DEADZONE
  Tolerance,   \* ANALOG_JOYSTICK_RECENTER_TOLERANCE
  RecenterMs,  \* ANALOG_JOYSTICK_RECENTER_MS
  RampMs,      \* ANALOG_JOYSTICK_ACCEL_RAMP_MS
  TimerMod,    \* 2^16
  ScanMs       \* the times that may pass from one scan to the next

ASSUME JoystickAssumption ==
  /\ Readings \subseteq Nat
  /\ {Deadzone, Tolerance, TimerMod} \subseteq Nat
  /\ {RecenterMs, RampMs} \subseteq 1..(TimerMod - 1)
  /\ ScanMs \subseteq 1..(TimerMod - RecenterMs)

VARIABLES
  stick,           \* what the ADC reads
  joystick_center,
  still_ref, still_tracking,
  still_ms,        \* timer_elapsed(still_start_ms)
  holding,
  held_ms,         \* timer_elapsed(hold_start_ms)
  moving,          \* the last scan found the stick off the centre
  steady_ms,       \* history: since the stick last jumped between two scans, capped
  hold_total       \* history: since holding began, not wrapped but capped

stick_vars == <<stick, joystick_center, still_ref, still_tracking, still_ms, holding,
          held_ms, moving, steady_ms, hold_total>>

Abs(n) == IF n < 0 THEN -n ELSE n
Cap(n, max) == IF n > max THEN max ELSE n
Elapsed(n, dt) == (n + dt) % TimerMod

StickTypeOK ==
  /\ stick \in [Axes -> Readings] /\ joystick_center \in [Axes -> Readings]
  /\ still_ref \in [Axes -> Int] /\ \A a \in Axes : joystick_center[a] + still_ref[a] \in Readings
  /\ {still_ms, held_ms} \subseteq 0..(TimerMod - 1)
  /\ {still_tracking, holding, moving} \subseteq BOOLEAN
  /\ steady_ms \in 0..RecenterMs /\ hold_total \in 0..TimerMod

\* analog_joystick_init takes the position at power-on for the centre.
StickInit ==
  /\ stick \in [Axes -> Readings] /\ joystick_center = stick
  /\ still_ref = [a \in Axes |-> 0] /\ still_tracking = FALSE /\ still_ms = 0
  /\ holding = FALSE /\ held_ms = 0 /\ moving = FALSE
  /\ steady_ms = 0 /\ hold_total = 0

-----------------------------------------------------------------------------
Raw(r, a) == r[a] - joystick_center[a]

\* A plausible mistake: one of the two axes is enough.
SteadyOne(raw) ==
  still_tracking /\ \E a \in Axes : Abs(raw[a] - still_ref[a]) <= Tolerance

Steady(raw) ==
  still_tracking /\ \A a \in Axes : Abs(raw[a] - still_ref[a]) <= Tolerance

\* A plausible mistake: the centre stays where it is.
RecenterAway(raw, dt) ==
  IF ~Steady(raw)
  THEN /\ still_tracking' = TRUE /\ still_ref' = raw /\ still_ms' = 0
       /\ UNCHANGED joystick_center
  ELSE IF Elapsed(still_ms, dt) >= RecenterMs
  THEN /\ UNCHANGED joystick_center
       /\ still_ref' = [a \in Axes |-> 0]
       /\ still_tracking' = FALSE /\ still_ms' = 0
  ELSE /\ still_ms' = Elapsed(still_ms, dt)
       /\ UNCHANGED <<joystick_center, still_ref, still_tracking>>

\* A plausible mistake: the reference is not moved along with the centre.
RecenterKeepsRef(raw, dt) ==
  IF ~Steady(raw)
  THEN /\ still_tracking' = TRUE /\ still_ref' = raw /\ still_ms' = 0
       /\ UNCHANGED joystick_center
  ELSE IF Elapsed(still_ms, dt) >= RecenterMs
  THEN /\ joystick_center' = [a \in Axes |-> joystick_center[a] + raw[a]]
       /\ UNCHANGED still_ref
       /\ still_tracking' = FALSE /\ still_ms' = 0
  ELSE /\ still_ms' = Elapsed(still_ms, dt)
       /\ UNCHANGED <<joystick_center, still_ref, still_tracking>>

\* The block that restarts the wait, or moves the centre once it is over.
\* What remains of the tilt is used by the rest of the scan.
Recenter(raw, dt) ==
  IF ~Steady(raw)
  THEN /\ still_tracking' = TRUE /\ still_ref' = raw /\ still_ms' = 0
       /\ UNCHANGED joystick_center
  ELSE IF Elapsed(still_ms, dt) >= RecenterMs
  THEN /\ joystick_center' = [a \in Axes |-> joystick_center[a] + raw[a]]
       /\ still_ref' = [a \in Axes |-> 0]
       /\ still_tracking' = FALSE /\ still_ms' = 0
  ELSE /\ still_ms' = Elapsed(still_ms, dt)
       /\ UNCHANGED <<joystick_center, still_ref, still_tracking>>

Recentered(raw, dt) == Steady(raw) /\ Elapsed(still_ms, dt) >= RecenterMs

Active(raw, dt) == ~Recentered(raw, dt) /\ \E a \in Axes : Abs(raw[a]) >= Deadzone

\* A plausible mistake: a new tilt starts it anew.
HoldRestarts(active, dt) ==
  /\ holding' = active
  /\ held_ms' = IF active /\ holding /\ still_ref' = still_ref THEN Elapsed(held_ms, dt) ELSE 0
  /\ hold_total' = IF active /\ holding THEN Cap(hold_total + dt, TimerMod) ELSE 0

\* The hold time starts with the first scan that finds the stick off the centre.
TimeHold(active, dt) ==
  /\ holding' = active
  /\ held_ms' = IF active /\ holding THEN Elapsed(held_ms, dt) ELSE 0
  /\ hold_total' = IF active /\ holding THEN Cap(hold_total + dt, TimerMod) ELSE 0

\* One scan, dt after the last one, with the stick at r.
analog_joystick_task(r, dt) ==
  LET raw == [a \in Axes |-> Raw(r, a)]
  IN /\ stick' = r
     /\ Recenter(raw, dt)
     /\ TimeHold(Active(raw, dt), dt)
     /\ moving' = Active(raw, dt)
     /\ steady_ms' = IF \A a \in Axes : Abs(r[a] - stick[a]) <= 2 * Tolerance
                     THEN Cap(steady_ms + dt, RecenterMs) ELSE 0

StickNext == \E r \in [Axes -> Readings], dt \in ScanMs : analog_joystick_task(r, dt)

\* The scan loop of core 0 does not stop.
StickSpec == StickInit /\ [][StickNext]_stick_vars /\ WF_stick_vars(StickNext)

-----------------------------------------------------------------------------
(* Properties.                                                              *)

Speed == IF holding THEN Cap(held_ms, RampMs) ELSE 0

\* The centre moves only after the whole stick has been quiet, up to noise, for
\* the time it takes, however the hand moved before.
RecentersOnlyAtRest ==
  [][joystick_center' # joystick_center => steady_ms' >= RecenterMs]_stick_vars

\* The speed does not fall while the stick stays off the centre (main.c:448,
\* "Ramp up from a slow start (fine movements) the longer the stick stays tilted"),
\* for as long as the hold fits the 16-bit timer.
SpeedKeptInTimer == [][holding /\ holding' /\ hold_total' < TimerMod => Speed' >= Speed]_stick_vars

\* A stick that is let go, or held still, comes to leave the cursor alone,
\* wherever the centre had wandered to.
RestMeansStill == \A r \in [Axes -> Readings] : <>[](stick = r) => <>[]~moving
=============================================================================
