------------------------------- MODULE WdAction -------------------------------
(***************************************************************************)
(* From a check's result to a repair or a shutdown: do_check(),            *)
(* wd_action() and repair() of src/watchdog.c, driven by the main loop.    *)
(*                                                                         *)
(* One pass of the loop refreshes the device, runs the checks in order,    *)
(* each followed by another refresh, and sleeps for tint seconds.  A check *)
(* may have an entry in a configuration list (struct list), which carries  *)
(* the retry timer and the repair counter; the load, memory, file-table    *)
(* and keep-alive results come with act = NULL and have neither.           *)
(*                                                                         *)
(* A time stamp is represented by the seconds that have passed since it    *)
(* was taken.                                                              *)
(***************************************************************************)
EXTENDS Integers, Sequences, WatchErr

CONSTANTS
    Act,                \* entries of the configuration lists
    NULL,               \* no entry
    loop,               \* the checks of one pass, in order
    V1,                 \* the entries of /etc/watchdog.d: test/repair programs
    RepairBinary,       \* is repair_bin configured?
    conf_retry_timeout, repair_max, repair_timeout, tint, softboot, no_act,
    CheckResult,        \* the codes a check returns
    AliveResult,        \* the codes keep_alive() returns
    CheckTime,          \* the seconds a check takes
    RepairStatus,       \* the ways in which the repair program ends
    ForkMayFail, ExecMayFail, WaitMayFail

ASSUME ActAssumption    == NULL \notin Act /\ V1 \subseteq Act
ASSUME LoopAssumption   ==
    /\ loop \in Seq(Act \cup {NULL}) /\ loop # <<>>
    /\ \A i, j \in DOMAIN loop : loop[i] = loop[j] /\ loop[i] # NULL => i = j
ASSUME ParamAssumption  == /\ conf_retry_timeout \in Nat
                           /\ repair_max \in Nat
                           /\ repair_timeout \in Nat
                           /\ tint \in Nat \ {0}
                           /\ CheckTime \subseteq Nat
ASSUME ResultAssumption == CheckResult \cup AliveResult \subseteq Code
ASSUME RepairAssumption == \A s \in RepairStatus : s \in Nat /\ IsWaitStatus(s)
ASSUME SwitchAssumption ==
    {RepairBinary, softboot, no_act, ForkMayFail, ExecMayFail, WaitMayFail} \subseteq BOOLEAN

VARIABLES
    pc,             \* where in do_check() the daemon is
    pos,            \* position in loop; 0 is the refresh that opens a pass
    alive,          \* is the result at hand that of keep_alive()?
    result,         \* the local variable of wd_action()
    timer,          \* act->last_time, as seconds elapsed; Off is last_time = 0
    repair_count,   \* act->repair_count
    left,           \* the local variable of repair()
    child,          \* the repair child
    status          \* its wait status

(* History variables: what has happened, for the properties. *)
VARIABLES
    fault,          \* the code that wd_action() was called with
    last,           \* the last code of each check of the loop
    okAge,          \* seconds since the check returned ENOERR
    repAge,         \* seconds since the last repair for the check began
    tries           \* repairs begun for it since it returned ENOERR

daemon  == <<pc, pos, alive, result, left>>
proc    == <<child, status>>
entries == <<timer, repair_count>>
history == <<fault, last, okAge, repAge, tries>>
vars    == <<pc, pos, alive, result, left, child, status, timer, repair_count,
             fault, last, okAge, repAge, tries>>

Off    == -1
ECHILD == 10

(* main(): softboot overrides the configured time-out. *)
retry_timeout == IF softboot THEN 0 ELSE conf_retry_timeout

(* Longer times are not told apart, nor are counts beyond the first excess. *)
AgeCap   == retry_timeout + 1
CountCap == repair_max + 1
Later(t, d) == IF t + d > AgeCap THEN AgeCap ELSE t + d
Count(c)    == IF c = CountCap THEN c ELSE c + 1

act == IF alive THEN NULL ELSE loop[pos]

(* The checks of a pass; 0 stands for all calls of keep_alive(). *)
Site == 0 .. Len(loop)
site == IF alive THEN 0 ELSE pos
Listed(s) == s # 0 /\ loop[s] # NULL

(* wd_action(): a V1 entry is repaired by its own program. *)
HasRepair == act \in V1 \/ RepairBinary

-----------------------------------------------------------------------------
Init ==
    /\ pc = "check" /\ pos = 0 /\ alive = TRUE
    /\ result = ENOERR /\ left = 0
    /\ timer = [a \in Act |-> Off]
    /\ repair_count = [a \in Act |-> 0]
    /\ child = "none" /\ status = 0
    /\ fault = ENOERR
    /\ last = [s \in Site |-> ENOERR]
    /\ okAge = [s \in Site |-> 0]
    /\ repAge = [s \in Site |-> AgeCap]
    /\ tries = [s \in Site |-> 0]

(* d seconds pass. *)
Elapse(d) ==
    /\ timer'  = [a \in Act |-> IF timer[a] = Off THEN Off ELSE Later(timer[a], d)]
    /\ okAge'  = [s \in Site |-> Later(okAge[s], d)]
    /\ repAge' = [s \in Site |-> Later(repAge[s], d)]

(* Faulty variants, marked "Faulty", are for mutation runs only. *)
FaultyAdvance ==                \* the end of the lists is not noticed
    \/ ~alive /\ alive' = TRUE /\ pc' = "check" /\ UNCHANGED pos
    \/ alive /\ pos' = pos + 1 /\ alive' = FALSE /\ pc' = "check"

(* wd_action() returns: do_check() refreshes the device, main() goes on with
   the next check, or sleeps after the last one. *)
Advance ==
    \/ ~alive /\ alive' = TRUE /\ pc' = "check" /\ UNCHANGED pos
    \/ alive /\ pos < Len(loop) /\ pos' = pos + 1 /\ alive' = FALSE /\ pc' = "check"
    \/ alive /\ pos = Len(loop) /\ pc' = "sleep" /\ UNCHANGED <<pos, alive>>

-----------------------------------------------------------------------------
(* The check itself, or keep_alive(). *)
Check ==
    /\ pc = "check"
    /\ result' \in IF alive THEN AliveResult ELSE CheckResult
    /\ \E d \in CheckTime : Elapse(IF alive THEN 0 ELSE d)
    /\ pc' = "action"
    /\ fault' = result'
    /\ last' = [last EXCEPT ![site] = result']
    /\ UNCHANGED <<pos, alive, left, proc, repair_count, tries>>

(* wd_action(): no error clears the timer and the counter of the entry; "don't
   know" leaves them. *)
Pass ==
    /\ pc = "action"
    /\ result \in {ENOERR, EDONTKNOW}
    /\ IF act # NULL /\ result = ENOERR
       THEN /\ timer' = [timer EXCEPT ![act] = Off]
            /\ repair_count' = [repair_count EXCEPT ![act] = 0]
       ELSE UNCHANGED entries
    /\ IF result = ENOERR
       THEN /\ okAge' = [okAge EXCEPT ![site] = 0]
            /\ tries' = [tries EXCEPT ![site] = 0]
       ELSE UNCHANGED <<okAge, tries>>
    /\ Advance
    /\ UNCHANGED <<result, left, proc, fault, last, repAge>>

(* wd_action(): codes that no repair is tried for. *)
Unrepairable == {EREBOOT, ERESET, ETOOHOT}

NotRepairable ==
    /\ pc = "action"
    /\ result \in Unrepairable
    /\ pc' = "after"
    /\ UNCHANGED <<pos, alive, result, left, proc, entries, history>>

Repairable == result \notin Unrepairable \cup {ENOERR, EDONTKNOW}
Timed      == act # NULL /\ retry_timeout > 0
FaultyExpired == Timed => timer[act] >= retry_timeout               \* one second early
Expired    == Timed => timer[act] > retry_timeout
Counted    == act # NULL /\ repair_max > 0
FaultyExceeded == Counted /\ repair_count[act] > repair_max          \* counted too late
Exceeded   == Counted /\ repair_count[act] + 1 > repair_max

(* wd_action(): the fault is tolerated; a first offence starts the timer. *)
Defer ==
    /\ pc = "action"
    /\ Repairable /\ ~Expired
    /\ timer' = IF timer[act] = Off THEN [timer EXCEPT ![act] = 0] ELSE timer
    /\ Advance
    /\ UNCHANGED <<result, left, proc, repair_count, history>>

FaultyGiveUp ==                 \* the error is dropped
    /\ pc = "action"
    /\ Repairable /\ Expired /\ Exceeded
    /\ repair_count' = [repair_count EXCEPT ![act] = Count(@)]
    /\ Advance
    /\ UNCHANGED <<result, left, proc, timer, history>>

(* wd_action(): too many repairs, the error stands. *)
GiveUp ==
    /\ pc = "action"
    /\ Repairable /\ Expired /\ Exceeded
    /\ repair_count' = [repair_count EXCEPT ![act] = Count(@)]
    /\ pc' = "after"
    /\ UNCHANGED <<pos, alive, result, left, proc, timer, history>>

FaultyKeepTimer ==              \* last_time is not reset
    /\ pc = "action"
    /\ Repairable /\ Expired /\ ~Exceeded
    /\ repair_count' = IF Counted THEN [repair_count EXCEPT ![act] = Count(@)] ELSE repair_count
    /\ pc' = "repair"
    /\ UNCHANGED <<pos, alive, result, left, proc, timer, history>>

(* wd_action(): a repair will be tried; the timer starts over. *)
TryRepair ==
    /\ pc = "action"
    /\ Repairable /\ Expired /\ ~Exceeded
    /\ IF Counted
       THEN /\ repair_count' = [repair_count EXCEPT ![act] = Count(@)]
            /\ timer' = [timer EXCEPT ![act] = Off]
       ELSE UNCHANGED entries
    /\ pc' = "repair"
    /\ UNCHANGED <<pos, alive, result, left, proc, history>>

-----------------------------------------------------------------------------
(* repair(). *)

(* repair() returns a code to wd_action(). *)
RepairReturns(code) == result' = code /\ pc' = "after" /\ UNCHANGED <<pos, alive>>

NoRepairBinary ==
    /\ pc = "repair" /\ ~HasRepair
    /\ RepairReturns(result)
    /\ UNCHANGED <<left, proc, entries, history>>

RepairForkFails ==
    /\ pc = "repair" /\ HasRepair /\ ForkMayFail
    /\ RepairReturns(EREBOOT)
    /\ UNCHANGED <<left, proc, entries, history>>

RepairFork ==
    /\ pc = "repair" /\ HasRepair
    /\ child' = "running"
    /\ left' = repair_timeout
    /\ pc' = "wait"
    /\ tries' = [tries EXCEPT ![site] = Count(@)]
    /\ repAge' = [repAge EXCEPT ![site] = 0]
    /\ UNCHANGED <<pos, alive, result, status, entries, fault, last, okAge>>

(* The child has not ended: another second, or the time is up.  The child is
   left to itself then. *)
RepairPoll ==
    /\ pc = "wait" /\ repair_timeout > 0
    /\ child \in {"running", "escaped"}
    /\ Elapse(1)
    /\ left' = left - 1
    /\ IF left' > 0 THEN UNCHANGED <<pc, pos, alive, result>> ELSE RepairReturns(EREBOOT)
    /\ UNCHANGED <<proc, repair_count, fault, last, tries>>

(* waitpid() delivers the child's status, at the end of a second of sleep or,
   without a time-out, when it ends. *)
RepairReap ==
    /\ pc = "wait" /\ child = "ended"
    /\ Elapse(IF repair_timeout > 0 THEN 1 ELSE 0)
    /\ child' = "reaped"
    /\ RepairReturns(WEXITSTATUS(status))
    /\ UNCHANGED <<left, status, repair_count, fault, last, tries>>

(* waitpid() fails (ECHILD: SIGCHLD is ignored).  Then "result" still holds the
   error code, not a wait status. *)
RepairWaitFails ==
    /\ pc = "wait" /\ child = "ended" /\ WaitMayFail
    /\ Elapse(IF repair_timeout > 0 THEN 1 ELSE 0)
    /\ child' = "none"
    /\ RepairReturns(IF softboot THEN ECHILD ELSE WEXITSTATUS(result))
    /\ UNCHANGED <<left, status, repair_count, fault, last, tries>>

(* wd_action(), the end: an error that stands leads to do_shutdown(). *)
Cleared ==
    /\ pc = "after" /\ (result = ENOERR \/ no_act)
    /\ Advance
    /\ UNCHANGED <<result, left, proc, entries, history>>

Shutdown ==
    /\ pc = "after" /\ result # ENOERR /\ ~no_act
    /\ pc' = "down"
    /\ UNCHANGED <<pos, alive, result, left, proc, entries, history>>

(* main(): the rest of the interval. *)
Sleep ==
    /\ pc = "sleep"
    /\ Elapse(tint)
    /\ pos' = 0 /\ alive' = TRUE /\ pc' = "check"
    /\ UNCHANGED <<result, left, proc, repair_count, fault, last, tries>>

-----------------------------------------------------------------------------
(* The repair program ends. *)
ChildEnds ==
    /\ child = "running" /\ pc = "wait"
    /\ child' = "ended"
    /\ status' \in RepairStatus
    /\ UNCHANGED <<daemon, entries, history>>

(* The repair program cannot be executed: the child returns from repair() and
   goes on as the daemon does. *)
ChildEscapes ==
    /\ child = "running" /\ pc = "wait" /\ ExecMayFail
    /\ child' = "escaped"
    /\ UNCHANGED <<status, daemon, entries, history>>

(* Such a child calls do_shutdown() with the errno of execl(). *)
EscapedShutdown ==
    /\ child = "escaped" /\ ~no_act /\ pc # "down"
    /\ pc' = "down"
    /\ UNCHANGED <<pos, alive, result, left, proc, entries, history>>

(* do_shutdown() does not return. *)
Halted == pc = "down" /\ UNCHANGED vars

-----------------------------------------------------------------------------
Daemon == \/ Check \/ Pass \/ NotRepairable \/ Defer \/ GiveUp \/ TryRepair
          \/ NoRepairBinary \/ RepairForkFails \/ RepairFork
          \/ RepairPoll \/ RepairReap \/ RepairWaitFails
          \/ Cleared \/ Shutdown \/ Sleep

Next == Daemon \/ ChildEnds \/ ChildEscapes \/ EscapedShutdown \/ Halted

Spec == Init /\ [][Next]_vars

(* The daemon runs; nothing is assumed of the repair program. *)
FairSpec == Spec /\ WF_vars(Daemon)

-----------------------------------------------------------------------------
(* Properties. *)

(* Every variable has its type. *)
TypeOK ==
    /\ pc \in {"check", "action", "repair", "wait", "after", "sleep", "down"}
    /\ pos \in 0 .. Len(loop) /\ alive \in BOOLEAN
    /\ ~alive => pos > 0
    /\ result \in Code /\ fault \in Code
    /\ left \in 0 .. repair_timeout
    /\ pc = "wait" /\ repair_timeout > 0 => left > 0
    /\ timer \in [Act -> {Off} \cup 0 .. AgeCap]
    /\ repair_count \in [Act -> 0 .. CountCap]
    /\ child \in {"none", "running", "ended", "reaped", "escaped"}
    /\ status \in RepairStatus \cup {0}
    /\ last \in [Site -> Code]
    /\ okAge \in [Site -> 0 .. AgeCap]
    /\ repAge \in [Site -> 0 .. AgeCap]
    /\ tries \in [Site -> 0 .. CountCap]

(* wd_action(): a fault that might be repaired is neither repaired nor the
   reason of a shutdown before its check has gone without a good answer for
   more than retry_timeout seconds ("Allow most error conditions to persist for
   <timeout> seconds", watchdog.conf.5:142). *)
Patience ==
    /\ pc \in {"repair", "wait", "down"}
    /\ Timed
    /\ fault \notin Unrepairable
    => okAge[site] > retry_timeout

(* wd_action(): between two good answers an entry is repaired at most
   repair_max times ("no more then <count> repair attempts against a given
   fault", watchdog.conf.5:146). *)
RepairBudget ==
    repair_max > 0 => \A s \in Site : Listed(s) => tries[s] <= repair_max

(* wd_action(): with a limit on repairs, two repairs for the same entry are more
   than retry_timeout seconds apart: the timer is started over. *)
RepairSpacing ==
    pc = "repair" /\ Timed /\ Counted => repAge[site] > retry_timeout

(* With a limit on repairs and on their time, an entry whose check keeps failing
   takes the machine down, whatever its repair program claims. *)
PersistentFaultGoesDown ==
    \A s \in Site : Listed(s) =>
        (<>[](last[s] \notin {ENOERR, EDONTKNOW}) => <>(pc = "down"))

(* watchdog.8:257: "If this binary is not able to fix the problem watchdog will
   still cause a reboot afterwards": a repair program that did not exit with
   zero is not taken for a success. *)
FailedRepairStands ==
    pc = "after" /\ child = "reaped" /\ status # Exited(0) => result # ENOERR
=============================================================================
