------------------------------ MODULE Temperature ------------------------------
(***************************************************************************)
(* The temperature check (src/temp.c): three warning levels below the      *)
(* limit, and the flags that keep a warning from being repeated.           *)
(*                                                                         *)
(* Each operation is an operator over the primed variables.                *)
(***************************************************************************)
EXTENDS Integers, WatchErr

CONSTANTS
    MaxTemps,       \* the values of max-temperature to look at
    Milli,          \* what a sensor's file may say, in thousandths of a degree
    SensorErrors    \* errno of a sensor that cannot be read

ASSUME TemperatureAssumption ==
    /\ MaxTemps \subseteq Int
    /\ Milli \subseteq Int
    /\ SensorErrors \subseteq Code \ {ENOERR}

VARIABLES
    maxtemp,
    temp_fd,            \* is there a list of sensors?
    in_use,             \* was the sensor readable at the start?
    have,               \* the flags have1, have2 and have3 that are set
    level,              \* history: the levels that the last reading was above
    said,               \* history: what the last check logged
    temp_code           \* what it returned

tempVars == <<maxtemp, temp_fd, in_use, have, level, said, temp_code>>

(* What is logged: the number of the level, or one of these. *)
Nothing == 0
Clear   == -1

(* C division rounds towards zero. *)
Quot(a, b) == IF a >= 0 THEN a \div b ELSE -((-a) \div b)

(* Faulty variants, marked "Faulty", are for mutation runs only. *)
FaultyLower(x, y) == x          \* the levels are not kept apart

Lower(x, y) == IF x >= y THEN y - 1 ELSE x

templevel3 == Lower(Quot(maxtemp * 98, 100), maxtemp)
templevel2 == Lower(Quot(maxtemp * 95, 100), templevel3)
templevel1 == Lower(Quot(maxtemp * 90, 100), templevel2)

(* How many levels a temperature is above. *)
LevelOf(t) == IF t > templevel3 THEN 3 ELSE IF t > templevel2 THEN 2
              ELSE IF t > templevel1 THEN 1 ELSE 0

(* read_temp_sensor(): a hundred-thousandth of a degree is added and the fraction cut
   off, so that whole degrees below zero come out one too high. *)
Degrees(m) == IF m >= 0 THEN m \div 1000 ELSE -((-m - 1) \div 1000)

-----------------------------------------------------------------------------
TempInit ==
    /\ maxtemp \in MaxTemps
    /\ temp_fd = FALSE /\ in_use = FALSE /\ have = {}
    /\ level = 0 /\ said = Nothing /\ temp_code = ENOERR

(* open_tempcheck(), for a list of sensors or none; the sensor is tried. *)
open_tempcheck(list, readable) ==
    /\ temp_fd' = list
    /\ in_use' = (list /\ readable)
    /\ have' = IF list THEN {} ELSE have
    /\ level' = 0 /\ said' = Nothing
    /\ UNCHANGED <<maxtemp, temp_code>>

(* The flags and the message for a temperature above n levels. *)
FaultyWarn(n) ==                \* the higher levels are forgotten only below all
    IF n > 0 THEN <<have \cup 1 .. n, IF n \in have THEN Nothing ELSE n>>
    ELSE <<{}, IF have = {} THEN Nothing ELSE Clear>>

Warn(n) ==
    IF n > 0 THEN <<IF n \in have THEN have \cap 1 .. n ELSE 1 .. n,
                    IF n \in have THEN Nothing ELSE n>>
    ELSE <<{}, IF have = {} THEN Nothing ELSE Clear>>

(* check_temp(), with m in the file *)
check_temp(m) ==
    /\ temp_fd /\ in_use
    /\ level' = LevelOf(Degrees(m))
    /\ have' = Warn(level')[1] /\ said' = Warn(level')[2]
    /\ temp_code' = IF Degrees(m) >= maxtemp THEN ETOOHOT ELSE ENOERR
    /\ UNCHANGED <<maxtemp, temp_fd, in_use>>

(* nothing to check, or a sensor that cannot be read *)
check_temp_skips(code) ==
    /\ IF temp_fd /\ in_use THEN code \in SensorErrors ELSE code = ENOERR
    /\ temp_code' = code /\ said' = Nothing
    /\ UNCHANGED <<maxtemp, temp_fd, in_use, have, level>>

TempNext ==
    \/ ~temp_fd /\ \E l, r \in BOOLEAN : open_tempcheck(l, r)
    \/ \E m \in Milli : check_temp(m)
    \/ check_temp(0)      \* an empty file, and errno happens to be 0
    \/ \E c \in SensorErrors \cup {ENOERR} : check_temp_skips(c)

-----------------------------------------------------------------------------
(* Properties. *)

TempTypeOK ==
    /\ maxtemp \in MaxTemps
    /\ {temp_fd, in_use} \subseteq BOOLEAN
    /\ have \subseteq 1 .. 3
    /\ level \in 0 .. 3
    /\ said \in -1 .. 3
    /\ temp_code \in Code

(* open_tempcheck(): "make sure that each level is distinct and properly ordered"
   (temp.c:37), whatever the limit. *)
LevelsOrdered == templevel1 < templevel2 /\ templevel2 < templevel3 /\ templevel3 < maxtemp

(* check_temp(): a warning is logged when, and only when, the temperature is above
   more levels than at the last reading, and the all-clear when it falls below the
   lowest; nothing is said twice. *)
WarnOnce ==
    [][temp_fd => said' = IF level' > level THEN level'
                          ELSE IF level' = 0 /\ level > 0 THEN Clear ELSE Nothing]_tempVars
=============================================================================
