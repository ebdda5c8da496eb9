------------------------------- MODULE KeepAlive -------------------------------
(***************************************************************************)
(* The watchdog device and the operations of src/keep_alive.c on it.       *)
(*                                                                         *)
(* The kernel's driver counts down from a margin; a write or a new margin  *)
(* starts it over, and the machine is reset when it runs out.  A close     *)
(* after the magic "V" stops it, unless the driver was built with "no way  *)
(* out"; any other close leaves it running.                                *)
(*                                                                         *)
(* Each operation is an operator over the primed variables, for the        *)
(* modules that call it.                                                   *)
(***************************************************************************)
EXTENDS Integers, FiniteSets, WatchErr

CONSTANTS
    Device,                 \* is devname configured?
    OpenMayFail,            \* may open() of the device fail?
    WriteMayFail,           \* may a refresh or the "V" fail?
    MinTimeout, MaxTimeout, \* the margins the driver accepts
    DefaultTimeout,         \* the margin it starts with
    NoWayOut,               \* can the timer not be stopped?
    IT87,                   \* is it the driver that open_watchdog() knows by name?
    dev_timeout,
    refresh_use_settimeout  \* "no", "yes" or "auto"

ASSUME DriverAssumption ==
    /\ {MinTimeout, MaxTimeout, DefaultTimeout} \subseteq Nat \ {0}
    /\ DefaultTimeout \in MinTimeout .. MaxTimeout
ASSUME DeviceAssumption ==
    /\ {Device, OpenMayFail, WriteMayFail, NoWayOut, IT87} \subseteq BOOLEAN
    /\ dev_timeout \in Nat
    /\ refresh_use_settimeout \in {"no", "yes", "auto"}

VARIABLES
    watchdog_fd,            \* is the device open?
    timeout_used,           \* static variables of keep_alive.c
    Refresh_using_ioctl,
    armed,                  \* driver: is the timer running?
    margin,                 \* driver: its length
    age,                    \* driver: seconds since the last refresh
    machine                 \* "up" or "reset"

device  == <<armed, margin, age>>
wdStatic == <<timeout_used, Refresh_using_ioctl>>
devVars == <<watchdog_fd, timeout_used, Refresh_using_ioctl, armed, margin, age, machine>>

TIMER_MARGIN == 60
EINVAL == 22
EIO    == 5

Smallest(S) == CHOOSE x \in S : \A y \in S : x <= y

DeviceInit ==
    /\ watchdog_fd = FALSE
    /\ timeout_used = TIMER_MARGIN
    /\ Refresh_using_ioctl = FALSE
    /\ armed = FALSE /\ margin = DefaultTimeout /\ age = 0
    /\ machine = "up"

-----------------------------------------------------------------------------
(* The driver. *)

(* WDIOC_SETTIMEOUT *)
Accepts(t) == t \in MinTimeout .. MaxTimeout

(* d seconds pass without a refresh. *)
Elapse(d) ==
    /\ age' = IF ~armed THEN age ELSE IF age + d >= margin THEN margin ELSE age + d
    /\ machine' = IF armed /\ age + d >= margin THEN "reset" ELSE machine
    /\ UNCHANGED <<armed, margin>>

-----------------------------------------------------------------------------
(* keep_alive.c *)

(* try_other_times(): the values tried, from the smallest on, when the driver
   refuses one; only those above it. *)
try_values == {3, 5, 10}

(* set_watchdog_timeout(), t > 0: the margin afterwards, from margin m.  The
   value asked for is kept in timeout_used whether the driver takes it or not. *)
Taken(t) == {v \in {t} \cup {u \in try_values : u > t} : Accepts(v)}
MarginAfter(t, m) == IF Taken(t) = {} THEN m ELSE Smallest(Taken(t))

set_watchdog_timeout(t) ==
    /\ timeout_used' = t
    /\ margin' = MarginAfter(t, margin)
    /\ age' = IF Taken(t) = {} THEN age ELSE 0
    /\ UNCHANGED armed

(* open_watchdog(): how the device will be refreshed.  In mode "auto" the name
   of the driver decides; asking for it may fail. *)
RefreshModes(open) ==
    CASE refresh_use_settimeout = "no"   -> {FALSE}
      [] refresh_use_settimeout = "yes"  -> {TRUE}
      [] refresh_use_settimeout = "auto" -> IF open /\ IT87 THEN BOOLEAN ELSE {FALSE}

(* open_watchdog(): the timer starts with the driver's default; a device that
   cannot be opened is done without.  A dev_timeout of zero only queries. *)
open_watchdog ==
    /\ \/ /\ Device
          /\ watchdog_fd' = TRUE
          /\ armed' = TRUE /\ age' = 0
          /\ IF dev_timeout > 0
             THEN /\ timeout_used' = dev_timeout
                  /\ margin' = MarginAfter(dev_timeout, margin)
             ELSE UNCHANGED <<timeout_used, margin>>
       \/ /\ ~Device \/ OpenMayFail
          /\ watchdog_fd' = FALSE
          /\ UNCHANGED <<timeout_used, armed, margin, age>>
    /\ Refresh_using_ioctl' \in RefreshModes(watchdog_fd')
    /\ UNCHANGED machine

FaultyKeepAlive(code) == code = ENOERR /\ UNCHANGED devVars       \* writes nothing

(* keep_alive() returns code. *)
keep_alive(code) ==
    /\ \/ ~watchdog_fd /\ code = ENOERR /\ UNCHANGED <<margin, age>>
       \/ /\ watchdog_fd /\ ~Refresh_using_ioctl
          /\ code = ENOERR /\ age' = 0 /\ UNCHANGED margin
       \/ /\ watchdog_fd /\ Refresh_using_ioctl /\ Accepts(timeout_used)
          /\ code = ENOERR /\ age' = 0 /\ margin' = timeout_used
       \/ /\ watchdog_fd /\ Refresh_using_ioctl /\ ~Accepts(timeout_used)
          /\ code = EINVAL /\ UNCHANGED <<margin, age>>
       \/ /\ watchdog_fd /\ WriteMayFail
          /\ code = EIO /\ UNCHANGED <<margin, age>>
    /\ UNCHANGED <<watchdog_fd, timeout_used, Refresh_using_ioctl, armed, machine>>

KeepAliveCodes == {ENOERR, EINVAL, EIO}

FaultyClose ==                  \* the "V" is not written
    /\ watchdog_fd' = FALSE
    /\ UNCHANGED <<wdStatic, device, machine>>

(* close_watchdog(): the "V", then the close. *)
close_watchdog ==
    /\ \/ ~watchdog_fd /\ UNCHANGED <<armed, age>>
       \/ watchdog_fd /\ armed' = (armed /\ NoWayOut) /\ age' = 0
       \/ watchdog_fd /\ WriteMayFail /\ UNCHANGED <<armed, age>>
    /\ watchdog_fd' = FALSE
    /\ UNCHANGED <<wdStatic, margin, machine>>

(* The process goes without a close_watchdog(): the kernel closes the device. *)
abandon_watchdog ==
    /\ watchdog_fd' = FALSE
    /\ UNCHANGED <<wdStatic, device, machine>>

(* Types of the variables. *)
DeviceTypeOK ==
    /\ watchdog_fd \in BOOLEAN /\ Refresh_using_ioctl \in BOOLEAN
    /\ timeout_used \in Nat
    /\ armed \in BOOLEAN
    /\ margin \in MinTimeout .. MaxTimeout
    /\ age \in 0 .. margin
    /\ machine \in {"up", "reset"}
=============================================================================
