---------------------------- MODULE TomahawkTmon ----------------------------
(***************************************************************************)
(* The Tomahawk switch's temperature monitor driver (tomahawk/tmon.go)     *)
(* against a model of the sensor hardware.                                 *)
(*                                                                         *)
(* The driver: tmon_init programs the monitor once, show_bcm_temp (the CLI *)
(* command) optionally restarts min/max tracking and decodes every sensor. *)
(* The register layer (top_regs, getDo, set) is not in the repository, so  *)
(* the hardware's side is an assumption, stated where it is used:          *)
(*   - a sensor reports a 10-bit code that falls as the die heats;         *)
(*   - the max and min fields of the sensor register hold the lowest and   *)
(*     the highest code seen since tracking was last restarted;            *)
(*   - pulsing soft_reset[1] bits 18 and 19 restarts tracking;             *)
(*   - bits 10-19 of thresholds[i] are sensor i's high-temperature code:   *)
(*     the interrupt is raised when the code falls to it or below;         *)
(*   - bit 8+i of the enable register enables sensor i's interrupt.        *)
(* The register fields are kept as separate values (a 32-bit register     *)
(* does not fit TLC's integers); arithmetic the code does on them is kept  *)
(* with its width.                                                         *)
(***************************************************************************)
EXTENDS Integers, FiniteSets

CONSTANTS
    Sensors,        \* sensor indices of the model, a subset of 0..7
    NThresholds,    \* length of temperature_sensor_interrupt.thresholds
    Codes,          \* 10-bit codes the sensors may report
    BgAdjfResets    \* values of control[0]'s BG_ADJF field at power-on

ASSUME Sensors \subseteq 0..7 /\ NThresholds >= 8
ASSUME Codes \subseteq 0..1023 /\ BgAdjfResets \subseteq 0..7

VARIABLES
    code,       \* code[s]: the sensor's current code (hardware)
    maxCode,    \* tracking field "max": lowest code since restart (hardware)
    minCode,    \* tracking field "min": highest code since restart (hardware)
    bgAdjf,     \* BG_ADJF field, bits 0-2 of control[0]
    thresholds, \* temperature_sensor_interrupt.thresholds[i] register value
    enable,     \* temperature_sensor_interrupt.enable register value
    raised,     \* interrupts raised: records [sensor, code] (hardware)
    shown,      \* the values show_bcm_temp printed last, per sensor
    initDone    \* tmon_init has run

vars == <<code, maxCode, minCode, bgAdjf, thresholds, enable, raised, shown,
          initDone>>

ThresholdIdx == 0 .. NThresholds - 1

\* getDo of a 32-bit register: arithmetic on data wraps modulo 2^32.
\* 2^32 = 10000 * 429496 + 7296, so a wrapped value x < 0 divided by the
\* integer 10000 is 429496 + (7296 + x) \div 10000 (floor division).
Div10000Uint32(x) ==
    IF x >= 0 THEN x \div 10000 ELSE 429496 + (7296 + x) \div 10000

\* One field of Temperature.get: float64((4100400 - 4870*f) / 10000.), where
\* the untyped constant 10000. takes data's integer type, so the division
\* truncates before the conversion to float64.
Decode(f) == Div10000Uint32(4100400 - 4870 * f)

\* Temperature.get: the three fields of one read of the sensor register.
get(s) == [current |-> Decode(code[s]),
           max     |-> Decode(maxCode[s]),
           min     |-> Decode(minCode[s])]

\* resetTemp's effect: the soft_reset pulse restarts min/max tracking.
resetTemp == /\ maxCode' = code
             /\ minCode' = code

maxDegC == 125
maxTempThresh == (410040 - (maxDegC * 1000)) \div 478

\* The value written to thresholds[i]: (maxTempThresh<<10)|0x3ff.
ThresholdValue == maxTempThresh * 1024 + 1023

\* tmon_init: read every sensor once (no effect on the modelled state),
\* clear BG_ADJF, restart tracking, set thresholds[0..7] (the loop breaks
\* after i = 7) and enable 0x2000.
tmon_init ==
    /\ ~initDone
    /\ bgAdjf' = 0
    /\ resetTemp
    /\ thresholds' = [i \in ThresholdIdx |->
                        IF i <= 7 THEN ThresholdValue ELSE thresholds[i]]
    /\ enable' = 8192
    /\ initDone' = TRUE
    /\ UNCHANGED <<code, raised, shown>>

\* show_bcm_temp with "reset r": restart tracking when r = 1, then print
\* get(j) for every sensor, all read after the reset.
show_bcm_temp ==
    \E reset \in {0, 1, 2}:
        /\ IF reset = 1 THEN resetTemp ELSE UNCHANGED <<maxCode, minCode>>
        /\ shown' = [s \in Sensors |->
                       [current |-> Decode(code[s]),
                        max |-> Decode(maxCode'[s]),
                        min |-> Decode(minCode'[s])]]
        /\ UNCHANGED <<code, bgAdjf, thresholds, enable, raised, initDone>>

\* Hardware: bits 10-19 of a threshold register, and sensor s's enable bit.
HighCode(i) == (thresholds[i] \div 1024) % 1024
Enabled(s) == (enable \div (2 ^ (8 + s))) % 2 = 1

\* Hardware: sensor s reports a new code c; tracking and the interrupt follow.
Sense(s, c) ==
    /\ code' = [code EXCEPT ![s] = c]
    /\ maxCode' = [maxCode EXCEPT ![s] = IF c < @ THEN c ELSE @]
    /\ minCode' = [minCode EXCEPT ![s] = IF c > @ THEN c ELSE @]
    /\ raised' = IF Enabled(s) /\ c <= HighCode(s)
                    THEN raised \cup {[sensor |-> s, code |-> c]}
                    ELSE raised
    /\ UNCHANGED <<bgAdjf, thresholds, enable, shown, initDone>>

Init ==
    /\ code \in [Sensors -> Codes]
    /\ maxCode \in [Sensors -> Codes]
    /\ minCode \in [Sensors -> Codes]
    /\ bgAdjf \in BgAdjfResets
    /\ thresholds = [i \in ThresholdIdx |-> 0]
    /\ enable = 0
    /\ raised = {}
    /\ shown = [s \in Sensors |-> [current |-> 0, max |-> 0, min |-> 0]]
    /\ initDone = FALSE

Next ==
    \/ tmon_init
    \/ show_bcm_temp
    \/ \E s \in Sensors, c \in Codes : Sense(s, c)

Spec == Init /\ [][Next]_vars

TypeOK ==
    /\ code \in [Sensors -> Codes]
    /\ maxCode \in [Sensors -> Codes] /\ minCode \in [Sensors -> Codes]
    /\ bgAdjf \in 0..7 /\ initDone \in BOOLEAN
    /\ raised \subseteq [sensor : Sensors, code : Codes]

(***************************************************************************)
(* Properties.                                                             *)
(***************************************************************************)

\* tmon_init's comment: "setup max temp interrupt threshold to 125°C on all
\* sensors". Every over-temperature interrupt is raised at a code that
\* Temperature.get decodes to 125 degrees or more.
InterruptOnlyAtMaxDegC ==
    \A r \in raised : Decode(r.code) >= maxDegC

====
