------------------------------- MODULE Handover -------------------------------
(***************************************************************************)
(* Several processes around one device: watchdog, wd_keepalive             *)
(* (src/wd_keepalive.c) and wd_identify (src/wd_identify.c), their PID     *)
(* files (src/daemon-pid.c), and the init script (debian/init) that stops  *)
(* one and starts the other.                                               *)
(*                                                                         *)
(* The driver lets only one process open the device.  Time does not pass   *)
(* here: that the loops refresh in time is the subject of Daemon.          *)
(***************************************************************************)
EXTENDS Integers, FiniteSets

CONSTANTS
    Pid,
    NoPid,          \* no process
    Left,           \* what an earlier run may have left in the two PID files
    TermTimesOut,   \* may a daemon outlast the time the script gives it after SIGTERM?
    SlowChild,      \* may a child be without PID file when its parent exits?
    Settings        \* the daemons with run_... = 1 in /etc/default/watchdog, and the
                    \* numbers of programs started by hand and of failures, at most

ASSUME PidAssumption == NoPid \notin Pid /\ IsFiniteSet(Pid)
ASSUME HandoverAssumption ==
    /\ {TermTimesOut, SlowChild} \subseteq BOOLEAN
    /\ Settings \subseteq [enabled : SUBSET {"watchdog", "wd_keepalive"}, byHand : Nat, faults : Nat]
    /\ Left \subseteq [{"watchdog", "wd_keepalive"} -> {"no file"} \cup Pid]

VARIABLES
    proc,           \* the processes
    file,           \* the contents of the two PID files
    holder,         \* driver: who has the device open
    script, step,   \* what the init script does, or has done last, and how far it is
    target,         \* the process it waits for
    byHand,         \* programs that may still be started by hand
    faults,         \* calls that may still fail, and processes that the OOM killer may kill
    setting,        \* fixed: one of Settings
    harm            \* history: what of Harm has happened

control == <<script, step, target, byHand, setting>>
vars    == <<proc, file, holder, script, step, target, byHand, faults, setting, harm>>

Harm == {"raced",           \* two processes passed check_pid_file() before either wrote
         "unwritten",       \* a PID file could be opened but not written
         "unopened",        \* the device could not be opened although it was free
         "reloaded"}        \* watchdog was restarted by the script beside a wd_keepalive

Daemons == {"watchdog", "wd_keepalive"}                 \* those with a PID file
Program == Daemons \cup {"forced", "wd_identify", "other"}      \* "forced": watchdog --force
Label   == {"none", "fork", "check", "create", "write", "open", "handler", "lock", "loop", "close",
            "remove", "exit"}
NoFile  == "no file"
Empty   == "empty"

Process == [prog : Program, pc : Label,
            _running : BOOLEAN,
            handled : BOOLEAN,          \* has it a handler for SIGTERM?
            saved_fname : BOOLEAN,      \* has it a PID file to remove?
            oom_adjusted : BOOLEAN]     \* is it safe from the OOM killer?

New(g, l) == [prog |-> g, pc |-> l, _running |-> TRUE, handled |-> FALSE, saved_fname |-> FALSE,
              oom_adjusted |-> FALSE]
NoProcess == New("other", "none")

Alive(p) == p \in Pid /\ proc[p].pc # "none"
At(p, l) == proc[p].pc = l /\ proc[p].prog # "other"
Is(p, g) == proc[p].prog = g

Init ==
    /\ proc = [p \in Pid |-> NoProcess]
    /\ file \in Left
    /\ holder = NoPid
    /\ setting \in Settings /\ byHand = setting.byHand /\ faults = setting.faults
    /\ script = "boot" /\ target = NoPid
    /\ step \in {"done"} \cup IF "watchdog" \in setting.enabled THEN {"launch"} ELSE {}
    /\ harm = {}

-----------------------------------------------------------------------------
(* Processes start and end. *)

(* A program is started; wd_daemon() begins, if it is a daemon.  "other" is any
   program that happens to get a PID. *)
Launch(p, g) ==
    /\ ~Alive(p)
    /\ proc' = [proc EXCEPT ![p] = New(g, CASE g = "other" -> "loop" [] g = "wd_identify" -> "open"
                                            [] OTHER -> "fork")]
    /\ UNCHANGED <<file, holder, harm>>

(* exit(), or death by a signal: the kernel closes the device, the timer goes on. *)
Dies(p) ==
    /\ proc' = [proc EXCEPT ![p] = NoProcess]
    /\ holder' = IF holder = p THEN NoPid ELSE holder

Gone(p) == Dies(p) /\ UNCHANGED <<file, harm, control>>

To(p, l) == proc' = [proc EXCEPT ![p].pc = l]

-----------------------------------------------------------------------------
(* main() of the daemons. *)

(* wd_daemon(): the child of the child goes on, or one of the calls fails. *)
wd_daemon(p) ==
    /\ At(p, "fork")
    /\ To(p, IF Is(p, "forced") THEN "open" ELSE "check")
    /\ UNCHANGED <<file, holder, harm, control>>

wd_daemon_fails(p) == At(p, "fork") /\ Gone(p)

(* Faulty variants, marked "Faulty", are for mutation runs only. *)
FaultyInUse(p, f) == FALSE              \* any file is taken over

(* check_pid_file(): does file f name another process that is alive? *)
InUse(p, f) == f \in Pid \ {p} /\ Alive(f)

(* write_pid_file(): fatal_error() if the file is in use; ... *)
check_pid_file(p) ==
    /\ At(p, "check") /\ ~InUse(p, file[proc[p].prog])
    /\ To(p, "create")
    /\ harm' = IF \E q \in Pid \ {p} : Is(q, proc[p].prog) /\ proc[q].pc \in {"create", "write"}
               THEN harm \cup {"raced"} ELSE harm
    /\ UNCHANGED <<file, holder, control>>

PidFileInUse(p) == At(p, "check") /\ InUse(p, file[proc[p].prog]) /\ Gone(p)

(* ... fopen() empties it, ... *)
CreatePidFile(p) ==
    /\ At(p, "create")
    /\ file' = [file EXCEPT ![proc[p].prog] = Empty]
    /\ To(p, "write")
    /\ UNCHANGED <<holder, harm, control>>

CreateFails(p) == At(p, "create") /\ Gone(p)

FaultyWritePidFile(p) ==                \* daemon_pid is only set afterwards
    /\ At(p, "write")
    /\ file' = [file EXCEPT ![proc[p].prog] = NoPid]
    /\ proc' = [proc EXCEPT ![p].saved_fname = TRUE, ![p].pc = "open"]
    /\ UNCHANGED <<holder, harm, control>>

(* ... and the PID is written, ... *)
WritePidFile(p) ==
    /\ At(p, "write")
    /\ file' = [file EXCEPT ![proc[p].prog] = p]
    /\ proc' = [proc EXCEPT ![p].saved_fname = TRUE, ![p].pc = "open"]
    /\ UNCHANGED <<holder, harm, control>>

(* ... or not, for the results of fprintf() and fclose() are not looked at, ... *)
WriteFails(p) ==
    /\ At(p, "write")
    /\ proc' = [proc EXCEPT ![p].saved_fname = TRUE, ![p].pc = "open"]
    /\ harm' = harm \cup {"unwritten"}
    /\ UNCHANGED <<file, holder, control>>

(* ... and fatal_error() if there is no memory for the file's name. *)
xstrdup_fails(p) ==
    /\ At(p, "write")
    /\ file' = [file EXCEPT ![proc[p].prog] = p]
    /\ Dies(p)
    /\ UNCHANGED <<harm, control>>

(* open_watchdog() *)
OpenDevice(p) ==
    /\ At(p, "open") /\ holder = NoPid
    /\ holder' = p
    /\ To(p, IF Is(p, "wd_identify") THEN "close" ELSE "handler")
    /\ UNCHANGED <<file, harm, control>>

(* Without the device wd_keepalive calls terminate(), wd_identify exits, and watchdog
   goes on. *)
NoDevice(p) ==
    /\ At(p, "open")
    /\ \/ Is(p, "wd_identify") /\ Dies(p)
       \/ ~Is(p, "wd_identify") /\ UNCHANGED holder
          /\ To(p, IF Is(p, "wd_keepalive") THEN "close" ELSE "handler")
    /\ UNCHANGED <<file, control>>

DeviceBusy(p) == holder # NoPid /\ NoDevice(p) /\ UNCHANGED harm

(* open() fails though the device is free: no module, no permission, no memory. *)
OpenFails(p) == holder = NoPid /\ NoDevice(p) /\ harm' = harm \cup {"unopened"}

(* signal(SIGTERM, ...) *)
InstallHandler(p) ==
    /\ At(p, "handler")
    /\ proc' = [proc EXCEPT ![p].handled = TRUE, ![p].pc = "lock"]
    /\ UNCHANGED <<file, holder, harm, control>>

(* lock_our_memory(): the memory and the scheduler, of which nothing here depends,
   and the OOM killer, by the PID that write_pid_file() has set. *)
lock_our_memory(p) ==
    /\ At(p, "lock")
    /\ proc' = [proc EXCEPT ![p].oom_adjusted = ~Is(p, "forced"), ![p].pc = "loop"]
    /\ UNCHANGED <<file, holder, harm, control>>

LockFails(p) ==
    /\ At(p, "lock")
    /\ To(p, "loop")
    /\ UNCHANGED <<file, holder, harm, control>>

FaultyLeaveLoop(p) ==                   \* watchdog's loop does not look at _running
    /\ At(p, "loop") /\ ~proc[p]._running /\ Is(p, "wd_keepalive")
    /\ To(p, "close")
    /\ UNCHANGED <<file, holder, harm, control>>

(* The loop ends; terminate() begins with unlock_our_memory(). *)
LeaveLoop(p) ==
    /\ At(p, "loop") /\ ~proc[p]._running
    /\ To(p, "close")
    /\ UNCHANGED <<file, holder, harm, control>>

(* The magic "V" and close(); wd_identify is done. *)
CloseDevice(p) ==
    /\ At(p, "close")
    /\ IF holder = p THEN holder' = NoPid ELSE UNCHANGED holder
    /\ IF Is(p, "wd_identify") THEN proc' = [proc EXCEPT ![p] = NoProcess] ELSE To(p, "remove")
    /\ UNCHANGED <<file, harm, control>>

(* remove_pid_file() unlinks the file, whatever it holds, ... *)
RemovePidFile(p) ==
    /\ At(p, "remove")
    /\ file' = IF proc[p].saved_fname THEN [file EXCEPT ![proc[p].prog] = NoFile] ELSE file
    /\ To(p, "exit")
    /\ UNCHANGED <<holder, harm, control>>

(* ... and only logs it when that fails. *)
UnlinkFails(p) ==
    /\ At(p, "remove")
    /\ To(p, "exit")
    /\ UNCHANGED <<file, holder, harm, control>>

(* exit(), a tenth of a second later *)
Exit(p) == At(p, "exit") /\ Gone(p)

-----------------------------------------------------------------------------
(* Signals, the OOM killer, the administrator. *)

(* What SIGTERM does to p: sigterm_handler(), or the default. *)
Sigterm(p) ==
    IF proc[p].handled
    THEN proc' = [proc EXCEPT ![p]._running = FALSE] /\ UNCHANGED holder
    ELSE Dies(p)

OomKill(p) == Alive(p) /\ ~proc[p].oom_adjusted /\ Gone(p)

StartByHand ==
    /\ byHand > 0
    /\ \E p \in Pid, g \in Program : Launch(p, g)
    /\ byHand' = byHand - 1
    /\ UNCHANGED <<script, step, target, faults, setting>>

-----------------------------------------------------------------------------
(* The init scripts: "boot" is the start of wd_keepalive's own, if it is installed;
   "start", "stop" and "restart" (or "force-reload") are watchdog's. *)

Stops  == IF script = "start" THEN "wd_keepalive" ELSE "watchdog"
Starts == IF script \in {"start", "restart"} THEN "watchdog" ELSE "wd_keepalive"

(* Does nothing unless run_watchdog is 1. *)
ScriptBegins ==
    /\ step = "done"
    /\ script' \in {"start", "stop", "restart"}
    /\ step' = IF "watchdog" \in setting.enabled THEN "find" ELSE "done"
    /\ harm' = IF script' = "restart" /\ \E p \in Pid : Alive(p) /\ Is(p, "wd_keepalive")
               THEN harm \cup {"reloaded"} ELSE harm
    /\ UNCHANGED <<proc, file, holder, target, byHand, setting>>

(* start-stop-daemon --stop: SIGTERM to the process in the file, if there is one. *)
ScriptTerminates ==
    /\ step = "find"
    /\ LET f == file[Stops]
       IN  IF Alive(f) THEN Sigterm(f) /\ target' = f /\ step' = "wait"
           ELSE step' = "launch" /\ UNCHANGED <<proc, holder, target>>
    /\ UNCHANGED <<file, harm, script, byHand, setting>>

FaultyScriptWaits ==                    \* --retry is missing
    /\ step = "wait"
    /\ step' = "launch" /\ target' = NoPid
    /\ UNCHANGED <<proc, file, holder, harm, script, byHand, setting>>

ScriptWaits ==
    /\ step = "wait" /\ ~Alive(target)
    /\ step' = "launch" /\ target' = NoPid
    /\ UNCHANGED <<proc, file, holder, harm, script, byHand, setting>>

(* ... and SIGKILL when it takes too long. *)
ScriptKills == step = "wait" /\ Alive(target) /\ TermTimesOut /\ Gone(target)

(* start-stop-daemon --start, which looks at the file and the program itself; after
   "stop" only if run_wd_keepalive is 1 *)
ScriptLaunches ==
    /\ step = "launch"
    /\ LET f == file[Starts]
       IN  IF \/ script = "stop" /\ "wd_keepalive" \notin setting.enabled
              \/ Alive(f) /\ Is(f, Starts)
           THEN step' = "done" /\ UNCHANGED <<proc, file, holder, harm, target>>
           ELSE \E p \in Pid : Launch(p, Starts) /\ target' = p /\ step' = "return"
    /\ UNCHANGED <<script, byHand, setting>>

(* wd_daemon(): the first process has exited, ten milliseconds after the second
   fork(), "give child time to write PID file" (daemon-pid.c:152). *)
ScriptReturns ==
    /\ step = "return"
    /\ proc[target].pc \notin {"fork"} \cup IF SlowChild THEN {} ELSE {"check", "create", "write"}
    /\ step' = "done" /\ target' = NoPid
    /\ UNCHANGED <<proc, file, holder, harm, script, byHand, setting>>

Main(p) ==
    /\ \/ wd_daemon(p) \/ check_pid_file(p) \/ PidFileInUse(p) \/ CreatePidFile(p)
       \/ WritePidFile(p) \/ OpenDevice(p) \/ DeviceBusy(p) \/ InstallHandler(p)
       \/ lock_our_memory(p) \/ LeaveLoop(p) \/ CloseDevice(p) \/ RemovePidFile(p) \/ Exit(p)
    /\ UNCHANGED faults

Failure(p) ==
    /\ faults > 0 /\ faults' = faults - 1
    /\ \/ wd_daemon_fails(p) \/ CreateFails(p) \/ WriteFails(p) \/ xstrdup_fails(p)
       \/ OpenFails(p) \/ LockFails(p) \/ UnlinkFails(p) \/ OomKill(p)

Script ==
    /\ ScriptTerminates \/ ScriptWaits \/ ScriptLaunches \/ ScriptReturns
    /\ UNCHANGED faults

Caller == (ScriptBegins \/ ScriptKills) /\ UNCHANGED faults

Next == StartByHand \/ Caller \/ Script \/ \E p \in Pid : Main(p) \/ Failure(p)

Spec == Init /\ [][Next]_vars

(* The processes and the script run; nobody has to start anything. *)
FairSpec == Spec /\ WF_vars(Script) /\ \A p \in Pid : WF_vars(Main(p))

-----------------------------------------------------------------------------
(* Properties. *)

(* Every variable has its type, and the device is open only in a process. *)
TypeOK ==
    /\ proc \in [Pid -> Process]
    /\ file \in [Daemons -> Pid \cup {NoFile, Empty}]
    /\ holder \in Pid \cup {NoPid} /\ (holder # NoPid => Alive(holder))
    /\ script \in {"boot", "start", "stop", "restart"} /\ target \in Pid \cup {NoPid}
    /\ step \in {"find", "wait", "launch", "return", "done"}
    /\ setting \in Settings /\ byHand \in 0 .. setting.byHand /\ faults \in 0 .. setting.faults
    /\ harm \subseteq Harm

(* write_pid_file() and remove_pid_file(): "unable to gain lock via PID file"
   (watchdog.c:487).  As long as no two processes passed the check before either of
   them wrote, which daemon-pid.c admits, and no PID file stayed empty because the
   results of fprintf() and fclose() are not looked at (daemon-pid.c:84-85), every
   daemon from there until it removes its file is the one its PID file names: there is
   one of each, and it can be found, whatever stale files, reused PIDs, other failing
   calls and killed processes there were. *)
FileNamesDaemon ==
    harm \cap {"raced", "unwritten"} = {} =>
        \A p \in Pid : /\ proc[p].prog \in Daemons
                       /\ proc[p].pc \in {"open", "handler", "lock", "loop", "close", "remove"}
                       => file[proc[p].prog] = p

(* open_watchdog() in main() of watchdog.c, whose result is not looked at: watchdog
   never runs its checks without having the device, wherever its predecessors were
   stopped, killed or failed, as long as programs are only started by the init scripts,
   the PID files are there when wd_daemon() returns, every PID file could be written,
   the device opened whenever it was free, and the script's "restart" was not called
   while a wd_keepalive was there, which it leaves alone (debian/init:97-107). *)
WatchdogHasDevice ==
    /\ byHand = setting.byHand /\ ~SlowChild
    /\ harm \cap {"unwritten", "unopened", "reloaded"} = {}
    => \A p \in Pid : At(p, "loop") /\ Is(p, "watchdog") => holder = p

(* debian/init: if the last call of the script was "stop", it comes to an end and
   wd_keepalive has the device and keeps it, whatever calls came before, however the
   processes were interleaved and whatever the files left by an earlier run said.
   Assumed: run_watchdog and run_wd_keepalive are 1, no call fails and nobody is killed
   for memory, the PID file is there when wd_daemon() returns (~SlowChild),
   no program is started by hand or happens to get the PID of a stale file, and
   watchdog was not restarted beside a wd_keepalive: one that was still starting then
   may lose the device to watchdog, and "stop" finds it while it is ending. *)
StopHandsOver ==
    /\ <>[](/\ script = "stop" /\ setting.enabled = Daemons /\ ~SlowChild
            /\ byHand = setting.byHand /\ faults = setting.faults /\ "reloaded" \notin harm)
    /\ <>[][~ScriptBegins]_vars
    => <>[](\E p \in Pid : Is(p, "wd_keepalive") /\ At(p, "loop") /\ holder = p)
=============================================================================
