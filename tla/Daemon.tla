-------------------------------- MODULE Daemon --------------------------------
(***************************************************************************)
(* The life of the watchdog daemon: main() of src/watchdog.c with the      *)
(* device of KeepAlive, SIGTERM (src/sigterm.c) and terminate().           *)
(*                                                                         *)
(* What a check finds and what wd_action() makes of it is modelled in      *)
(* WdAction; here a check takes some seconds and either passes, has a      *)
(* repair program run or leads to do_shutdown().                           *)
(***************************************************************************)
EXTENDS KeepAlive

CONSTANTS
    force, no_act, tint, repair_timeout,
    count_max,          \* --loop-exit; 0 for none
    LowLoad,            \* is maxload1 set below MINLOAD?
    PidFileMayFail,     \* may write_pid_file() fail?
    UnlinkMayFail,      \* may the PID file refuse to be removed?
    AllocMayFail,       \* may xstrdup() and xcalloc() fail while it starts?
    StartTime,          \* the seconds that opening the checks takes
    Checks,             \* the number of checks in a pass
    CheckTime,          \* the seconds a check takes
    CheckMayFail        \* may a check find an error?

ASSUME DaemonAssumption ==
    /\ {force, no_act, LowLoad, CheckMayFail} \subseteq BOOLEAN
    /\ {PidFileMayFail, UnlinkMayFail, AllocMayFail} \subseteq BOOLEAN
    /\ tint \in Nat \ {0} /\ repair_timeout \in Nat /\ count_max \in Nat
    /\ Checks \in Nat \ {0}
    /\ StartTime \cup CheckTime \subseteq Nat

VARIABLES
    pc,
    pos,            \* checks of this pass that are done
    _running,
    count,          \* passes done; stands still without --loop-exit
    left,           \* the local variable of repair()
    back,           \* where wd_action() returns to after a repair
    handler,        \* is sigterm_handler() installed?
    pidfile         \* our PID file: "none", "there", or "stuck" when unlink() failed

vars == <<watchdog_fd, timeout_used, Refresh_using_ioctl, armed, margin, age, machine,
          pc, pos, _running, count, left, back, handler, pidfile>>
repairing == <<left, back>>

Init ==
    /\ DeviceInit
    /\ pc = "params" /\ pos = 0 /\ _running = TRUE /\ count = 0 /\ left = 0 /\ back = "alive"
    /\ handler = FALSE /\ pidfile = "none"

Up(l) == machine = "up" /\ pc = l

(* fatal_error() of a failing allocation: exit() without terminate().  The PID
   file stays and the kernel closes the device, whose timer runs on. *)
FatalError == AllocMayFail /\ pc' = "aborted" /\ abandon_watchdog

-----------------------------------------------------------------------------
(* Start-up. *)

(* check_parameters(): the interval against the device's time-out. *)
TooLong == tint >= dev_timeout - 1

CheckParameters ==
    /\ Up("params")
    /\ pc' = IF ~force /\ (TooLong \/ LowLoad) THEN "exited" ELSE "pidfile"
    /\ UNCHANGED <<devVars, pos, _running, count, repairing, handler, pidfile>>

(* write_pid_file(), without --force.  That fprintf() failed is not noticed (what
   the file then says is the business of Handover); xstrdup() comes after it. *)
WritePidFile ==
    /\ Up("pidfile")
    /\ \/ force /\ pc' = "open" /\ UNCHANGED <<devVars, pidfile>>
       \/ ~force /\ PidFileMayFail /\ pc' = "exited" /\ UNCHANGED <<devVars, pidfile>>
       \/ ~force /\ pidfile' = "there" /\ pc' = "open" /\ UNCHANGED devVars
       \/ ~force /\ pidfile' = "there" /\ FatalError
    /\ UNCHANGED <<pos, _running, count, repairing, handler>>

OpenWatchdog ==
    /\ Up("open")
    /\ IF no_act THEN UNCHANGED devVars ELSE open_watchdog
    /\ pc' = "start"
    /\ UNCHANGED <<pos, _running, count, repairing, handler, pidfile>>

(* open_tempcheck() to open_memcheck().  open_heartbeat() needs memory for its
   stamps; the others do without what they cannot open. *)
OpenChecks ==
    /\ Up("start")
    /\ \/ /\ \E d \in StartTime : Elapse(d)
          /\ pc' = "signal"
          /\ UNCHANGED <<watchdog_fd, wdStatic>>
       \/ FatalError
    /\ UNCHANGED <<pos, _running, count, repairing, handler, pidfile>>

InstallHandler ==
    /\ Up("signal")
    /\ handler' = TRUE
    /\ pc' = "lock"
    /\ UNCHANGED <<devVars, pos, _running, count, repairing, pidfile>>

(* lock_our_memory(), and the first test of the loop. *)
LockMemory ==
    /\ Up("lock")
    /\ pc' = IF _running THEN "alive" ELSE "terminate"
    /\ UNCHANGED <<devVars, pos, _running, count, repairing, handler, pidfile>>

-----------------------------------------------------------------------------
(* The main loop. *)

FaultyNextCheck == IF pos > Checks THEN "sleep" ELSE "check"     \* one too many

(* A good answer, or one that wd_action() lets pass. *)
NextCheck == IF pos = Checks THEN "sleep" ELSE "check"

(* wd_action(): where an error that stands leads to. *)
Stands(next) == IF no_act THEN next ELSE "shutdown"

(* wd_action() with an error: a repair, or no repair program. *)
ActOnError(next) ==
    pc' \in {"repair", Stands(next)} /\ left' = repair_timeout /\ back' = next

(* wd_action(keep_alive()): an error here has no retry timer. *)
KeepAlive ==
    /\ Up("alive")
    /\ \E code \in KeepAliveCodes :
          /\ keep_alive(code)
          /\ \/ code = ENOERR /\ pc' = NextCheck /\ UNCHANGED repairing
             \/ code # ENOERR /\ ActOnError(NextCheck)
    /\ UNCHANGED <<pos, _running, count, handler, pidfile>>

Check ==
    /\ Up("check")
    /\ \E d \in CheckTime : Elapse(d)
    /\ pos' = pos + 1
    /\ \/ pc' = "alive" /\ UNCHANGED repairing
       \/ CheckMayFail /\ ActOnError("alive")
    /\ UNCHANGED <<watchdog_fd, wdStatic, _running, count, handler, pidfile>>

(* repair(), with a time-out: a second of sleep and then keep_alive(), whose
   result is not looked at. *)
RepairSleep ==
    /\ Up("repair") /\ repair_timeout > 0
    /\ Elapse(1)
    /\ pc' = "refresh"
    /\ UNCHANGED <<watchdog_fd, wdStatic, pos, _running, count, repairing, handler, pidfile>>

RepairRefresh ==
    /\ Up("refresh")
    /\ \E code \in KeepAliveCodes : keep_alive(code)
    /\ \/ pc' \in {back, Stands(back)} /\ UNCHANGED left        \* the program has ended
       \/ left > 1 /\ left' = left - 1 /\ pc' = "repair"
       \/ left = 1 /\ left' = 0 /\ pc' = Stands(back)
    /\ UNCHANGED <<back, pos, _running, count, handler, pidfile>>

(* repair(), without a time-out: no refresh, for as long as the program runs. *)
RepairBlocks ==
    /\ Up("repair") /\ repair_timeout = 0
    /\ Elapse(1)
    /\ pc' \in {"repair", back, Stands(back)}
    /\ UNCHANGED <<watchdog_fd, wdStatic, pos, _running, count, repairing, handler, pidfile>>

FaultySleep ==                  \* the flag of the signal handler is not looked at
    /\ Up("sleep")
    /\ Elapse(tint)
    /\ pos' = 0 /\ pc' = "alive"
    /\ UNCHANGED <<watchdog_fd, wdStatic, _running, count, repairing, handler, pidfile>>

(* The two usleep(), cut short by a signal, and the test of the loop. *)
Sleep ==
    /\ Up("sleep")
    /\ \E d \in IF _running THEN {tint} ELSE 0 .. tint : Elapse(d)
    /\ pos' = 0
    /\ count' = IF count_max > 0 THEN count + 1 ELSE count
    /\ _running' = (_running /\ ~(count_max > 0 /\ count' >= count_max))
    /\ pc' = IF _running' THEN "alive" ELSE "terminate"
    /\ UNCHANGED <<watchdog_fd, wdStatic, repairing, handler, pidfile>>

(* terminate(): that the PID file cannot be removed is only logged. *)
Terminate ==
    /\ Up("terminate")
    /\ close_watchdog
    /\ \/ pidfile' = "none"
       \/ pidfile = "there" /\ UnlinkMayFail /\ pidfile' = "stuck"
    /\ pc' = "exited"
    /\ UNCHANGED <<pos, _running, count, repairing, handler>>

-----------------------------------------------------------------------------
(* SIGTERM arrives: the handler clears the flag; without one the process dies. *)
Sigterm ==
    /\ machine = "up" /\ pc \notin {"exited", "aborted", "killed", "shutdown"}
    /\ \/ handler /\ _running' = FALSE /\ UNCHANGED <<devVars, pc>>
       \/ ~handler /\ pc' = "killed" /\ abandon_watchdog /\ UNCHANGED _running
    /\ UNCHANGED <<pos, count, repairing, handler, pidfile>>

(* Without a daemon the time goes by. *)
Tick ==
    /\ machine = "up" /\ pc \in {"exited", "aborted", "killed"} /\ armed
    /\ Elapse(1)
    /\ UNCHANGED <<watchdog_fd, wdStatic, pc, pos, _running, count, repairing, handler, pidfile>>

Main == \/ CheckParameters \/ WritePidFile \/ OpenWatchdog \/ OpenChecks \/ InstallHandler
        \/ LockMemory \/ KeepAlive \/ Check \/ RepairSleep \/ RepairRefresh \/ RepairBlocks
        \/ Sleep \/ Terminate

Next == Main \/ Sigterm \/ Tick

Spec == Init /\ [][Next]_vars

(* main() keeps running.  A repair program may take for ever. *)
FairSpec == Spec /\ WF_vars(Main)

-----------------------------------------------------------------------------
(* Properties. *)

(* Every variable has its type. *)
TypeOK ==
    /\ DeviceTypeOK
    /\ pc \in {"params", "pidfile", "open", "start", "signal", "lock", "alive", "check", "repair",
               "refresh", "sleep", "terminate", "shutdown", "exited", "aborted", "killed"}
    /\ pos \in 0 .. Checks /\ (pc = "check" => pos < Checks)
    /\ _running \in BOOLEAN /\ handler \in BOOLEAN
    /\ pidfile \in {"none", "there", "stuck"}
    /\ count \in 0 .. count_max
    /\ count_max > 0 /\ pc \notin {"terminate", "exited", "aborted", "killed"} => count < count_max
    /\ left \in 0 .. repair_timeout
    /\ pc \in {"repair", "refresh"} /\ repair_timeout > 0 => left > 0
    /\ pc = "refresh" => repair_timeout > 0
    /\ back \in {"alive", "check", "sleep"}
    /\ (pc \in {"repair", "refresh"} /\ back = "check" => pos < Checks)

(* The main loop refreshes the device in time: the machine is not reset as long
   as the daemon runs ("keeps writing to it often enough to keep the kernel from
   resetting", watchdog.8:24). *)
LoopIsTimely == machine = "reset" => pc \in {"exited", "aborted", "killed", "shutdown"}

(* terminate() and the refusals of check_parameters() and write_pid_file(): a
   daemon that has exited leaves neither a running timer behind, unless the driver
   has no way out, nor a PID file that it did not try to remove ("can be stopped
   without causing a reboot", watchdog.8:30).  A daemon that memory runs out on
   while it starts is not covered: fatal_error() cleans nothing up ("aborted"). *)
CleanExit == pc = "exited" => (armed => NoWayOut) /\ pidfile # "there"

(* "trying watchdog time-out success for %d" (keep_alive.c:126): once a margin is
   set, refreshing works, and keep_alive() is no reason for a repair or a
   shutdown of a machine whose checks all pass. *)
HealthyStaysUp == pc \notin {"repair", "shutdown"}

(* SIGTERM ends a daemon that is in its loop, unless the machine goes first. *)
SigtermStops ==
    handler /\ ~_running ~> pc \in {"exited", "shutdown"} \/ machine = "reset"
=============================================================================
