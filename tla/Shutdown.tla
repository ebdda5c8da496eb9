------------------------------- MODULE Shutdown -------------------------------
(***************************************************************************)
(* Taking the machine down: do_shutdown(), try_clean_shutdown(),           *)
(* killall5(), mnt_off() and panic() of src/shutdown.c, with the device of *)
(* KeepAlive and the unmounting of Umount.                                 *)
(*                                                                         *)
(* The other processes of the machine run all the while: they fork and     *)
(* end, except while killall5() has stopped them, and init starts more.    *)
(* Which of them belong to the daemon's session is fixed.                  *)
(***************************************************************************)
EXTENDS KeepAlive, Umount

CONSTANTS
    Proc,               \* processes other than the daemon, init and the kernel's
    Sess,               \* those of the daemon's session: its test and repair programs
    Self,               \* the daemon
    ErrorCodes,         \* the reasons for going down
    Late,               \* seconds since the last refresh, at most, at that time
    sigterm_delay,
    temp_poweroff,
    MailTime,           \* the seconds that sending mail takes
    UmountTime,         \* the seconds that unmounting a file system takes
    Nfs, RpcTime,       \* those mounted by NFS, and the seconds to tell their server
    ReadMayFail,        \* may readproc() run out of memory?
    RebootMayFail       \* may reboot() fail?

ASSUME ProcAssumption == Sess \subseteq Proc /\ Self \notin Proc
ASSUME TimeAssumption == /\ {Late, sigterm_delay} \subseteq Nat
                         /\ MailTime \cup UmountTime \cup RpcTime \subseteq Nat /\ Nfs \subseteq Fs
ASSUME ReasonAssumption == ErrorCodes \subseteq Code \ {ENOERR}
ASSUME GoingAssumption ==
    {temp_poweroff, ReadMayFail, RebootMayFail} \subseteq BOOLEAN

VARIABLES
    errorcode,      \* the argument of do_shutdown()
    daemon_pid,     \* zero if write_pid_file() was not called: --force
    pc,
    left, after,    \* safe_sleep(): seconds left, and where to go on
    round,          \* which of the four calls of killall5() it is
    plist,          \* the entries of plist that are still to be signalled
    alive,          \* kernel: the processes there are
    stopped,        \* kernel: are they stopped?
    initStopped,    \* kernel: is init?
    pidfile,
    synced,         \* has umount_all() come to its end?
    system          \* "up", or what reboot() made of it

(* History variables, for the properties. *)
VARIABLES
    termAge,        \* seconds since a process was sent SIGTERM
    listed          \* did readproc() succeed for one of the two SIGKILL rounds?

sleeping == <<left, after>>
procs    == <<plist, alive, stopped, initStopped, termAge, listed>>
files    == <<umountVars, pidfile, synced>>
reason   == <<errorcode, daemon_pid>>
vars     == <<devVars, reason, pc, left, after, round, procs, files, system>>

Never == -1
sig   == IF round <= 2 THEN "SIGTERM" ELSE "SIGKILL"

(* A process of the daemon at label l. *)
At(l) == machine = "up" /\ system = "up" /\ pc = l

Older(d) == [p \in Proc |-> IF termAge[p] = Never THEN Never
                            ELSE IF termAge[p] + d > sigterm_delay THEN sigterm_delay
                            ELSE termAge[p] + d]

(* d seconds pass. *)
Pass(d) == Elapse(d) /\ termAge' = Older(d)

-----------------------------------------------------------------------------
(* wd_action() calls do_shutdown(), from a daemon that uses the device or not. *)
Init ==
    /\ \/ /\ Device /\ watchdog_fd = TRUE /\ armed = TRUE
          /\ timeout_used = IF dev_timeout > 0 THEN dev_timeout ELSE TIMER_MARGIN
          /\ margin = IF dev_timeout > 0 THEN MarginAfter(dev_timeout, DefaultTimeout)
                      ELSE DefaultTimeout
          /\ age \in {a \in 0 .. Late : a < margin}
       \/ /\ ~Device \/ OpenMayFail
          /\ watchdog_fd = FALSE /\ armed = FALSE /\ timeout_used = TIMER_MARGIN
          /\ margin = DefaultTimeout /\ age = 0
    /\ Refresh_using_ioctl \in RefreshModes(watchdog_fd)
    /\ machine = "up" /\ system = "up"
    /\ errorcode \in ErrorCodes
    /\ pc = "begin" /\ left = 0 /\ after = "begin" /\ round = 0
    /\ plist = {} /\ alive \in SUBSET Proc /\ stopped = FALSE /\ initStopped = FALSE
    /\ termAge = [p \in Proc |-> Never] /\ listed = FALSE
    /\ UmountInit /\ synced = FALSE
    /\ daemon_pid \in {0, 1} /\ pidfile = (daemon_pid # 0)

-----------------------------------------------------------------------------
(* safe_sleep(n), and keep_alive() as safe_sleep(0); then on to label l. *)
SafeSleep(n, l) == pc' = "pat" /\ left' = n /\ after' = l

(* Faulty variants, marked "Faulty", are for mutation runs only. *)
FaultyPat ==                    \* the device is not refreshed
    /\ At("pat")
    /\ pc' = IF left = 0 THEN after ELSE "nap"
    /\ UNCHANGED <<devVars, reason, sleeping, round, procs, files, system>>

Pat ==
    /\ At("pat")
    /\ \E code \in KeepAliveCodes : keep_alive(code)
    /\ pc' = IF left = 0 THEN after ELSE "nap"
    /\ UNCHANGED <<reason, sleeping, round, procs, files, system>>

Nap ==
    /\ At("nap")
    /\ Pass(1)
    /\ left' = left - 1 /\ pc' = "pat"
    /\ UNCHANGED <<watchdog_fd, wdStatic, reason, after, round, plist, alive, stopped,
                   initStopped, listed, files, system>>

-----------------------------------------------------------------------------
(* try_clean_shutdown() *)

(* The mail, which is waited for; then ten seconds for the log. *)
SendMail ==
    /\ At("begin") /\ errorcode # ERESET
    /\ \E d \in MailTime : Pass(d)
    /\ SafeSleep(10, "signals")
    /\ UNCHANGED <<watchdog_fd, wdStatic, reason, round, plist, alive, stopped,
                   initStopped, listed, files, system>>

(* From here on the daemon ignores signals, and init does not start anything. *)
StopInit ==
    /\ At("signals")
    /\ initStopped' = TRUE
    /\ pc' = "stop" /\ round' = 1
    /\ UNCHANGED <<devVars, reason, sleeping, plist, alive, stopped, termAge, listed,
                   files, system>>

FaultyStopAll ==                \* no SIGSTOP
    /\ At("stop")
    /\ pc' = "read"
    /\ UNCHANGED <<devVars, reason, sleeping, round, procs, files, system>>

(* killall5(): everybody else is stopped, ... *)
StopAll ==
    /\ At("stop")
    /\ stopped' = TRUE
    /\ pc' = "read"
    /\ UNCHANGED <<devVars, reason, sleeping, round, plist, alive, initStopped, termAge,
                   listed, files, system>>

(* ... the processes are listed, ... *)
ReadProc ==
    /\ At("read")
    /\ plist' = alive \cup {Self}
    /\ listed' = (listed \/ round >= 3)
    /\ pc' = "kill"
    /\ UNCHANGED <<devVars, reason, sleeping, round, alive, stopped, initStopped, termAge,
                   files, system>>

(* (no memory for more than a part of the list: no one is signalled,) *)
ReadProcFails ==
    /\ At("read") /\ ReadMayFail
    /\ plist' \in SUBSET (alive \cup {Self})
    /\ pc' = "cont"
    /\ UNCHANGED <<devVars, reason, sleeping, round, alive, stopped, initStopped, termAge,
                   listed, files, system>>

(* The entries left out: the daemon and its session, found by daemon_pid, which
   is zero unless write_pid_file() has set it. *)
Spared(p) == daemon_pid # 0 /\ p \in Sess \cup {Self}

(* ... and signalled one by one, unless they are spared.  A stopped process acts
   on SIGTERM when it goes on; the daemon ignores it. *)
Skip ==
    /\ At("kill")
    /\ \E p \in plist : Spared(p) /\ plist' = plist \ {p}
    /\ UNCHANGED <<devVars, reason, pc, sleeping, round, alive, stopped, initStopped,
                   termAge, listed, files, system>>

Kill ==
    /\ At("kill")
    /\ \E p \in plist \ {Self} :
          /\ ~Spared(p)
          /\ plist' = plist \ {p}
          /\ \/ /\ sig = "SIGTERM" /\ UNCHANGED alive
                /\ termAge' = IF termAge[p] = Never THEN [termAge EXCEPT ![p] = 0] ELSE termAge
             \/ sig = "SIGKILL" /\ alive' = alive \ {p} /\ UNCHANGED termAge
    /\ UNCHANGED <<devVars, reason, pc, sleeping, round, stopped, initStopped, listed,
                   files, system>>

KillSelf ==
    /\ At("kill") /\ Self \in plist /\ ~Spared(Self)
    /\ plist' = plist \ {Self}
    /\ \/ sig = "SIGTERM" /\ UNCHANGED <<pc, devVars>>
       \/ sig = "SIGKILL" /\ pc' = "killed" /\ abandon_watchdog
    /\ UNCHANGED <<reason, sleeping, round, alive, stopped, initStopped, termAge, listed,
                   files, system>>

AllSignalled ==
    /\ At("kill") /\ plist = {}
    /\ pc' = "cont"
    /\ UNCHANGED <<devVars, reason, sleeping, round, procs, files, system>>

FaultyGrace == 0                \* SIGKILL follows at once

(* safe_sleep(sigterm_delay-1) does not sleep for a negative time. *)
Grace == IF sigterm_delay > 0 THEN sigterm_delay - 1 ELSE 0

FaultyContinueAll ==            \* the rounds are not counted
    /\ At("cont")
    /\ stopped' = FALSE /\ plist' = {}
    /\ SafeSleep(Grace, "stop")
    /\ round' = round + 1
    /\ UNCHANGED <<devVars, reason, alive, initStopped, termAge, listed, files, system>>

FaultyContinueLater ==          \* kill(-1, SIGCONT) is not called
    /\ At("cont")
    /\ plist' = {} /\ UNCHANGED stopped
    /\ \/ round = 1 /\ SafeSleep(1, "stop")
       \/ round = 2 /\ SafeSleep(Grace, "stop")
       \/ round = 3 /\ SafeSleep(0, "stop")
       \/ round = 4 /\ SafeSleep(0, "record")
    /\ round' = IF round < 4 THEN round + 1 ELSE round
    /\ UNCHANGED <<devVars, reason, alive, initStopped, termAge, listed, files, system>>

(* Then they go on: twice SIGTERM and twice SIGKILL. *)
ContinueAll ==
    /\ At("cont")
    /\ stopped' = FALSE /\ plist' = {}
    /\ \/ round = 1 /\ SafeSleep(1, "stop")
       \/ round = 2 /\ SafeSleep(Grace, "stop")
       \/ round = 3 /\ SafeSleep(0, "stop")
       \/ round = 4 /\ SafeSleep(0, "record")
    /\ round' = IF round < 4 THEN round + 1 ELSE round
    /\ UNCHANGED <<devVars, reason, alive, initStopped, termAge, listed, files, system>>

(* remove_pid_file(), wtmp, the random seed, accounting *)
Record ==
    /\ At("record")
    /\ pidfile' = FALSE
    /\ SafeSleep(0, "mnt_off")
    /\ UNCHANGED <<devVars, reason, round, procs, umountVars, synced, system>>

(* die(): the daemon exits, and the device runs on. *)
Die ==
    /\ abandon_watchdog
    /\ pc' = "exited"
    /\ UNCHANGED <<reason, sleeping, round, procs, files, system>>

(* mnt_off(): quota and swap; then umount_all(), without a refresh until the end: the
   mount table, ... *)
MntOff ==
    /\ At("mnt_off")
    /\ \E d \in UmountTime : Pass(d)
    /\ read_mounttable
    /\ pc' = "umount"
    /\ UNCHANGED <<watchdog_fd, wdStatic, reason, sleeping, round, plist, alive, stopped,
                   initStopped, listed, pidfile, synced, system>>

(* (die() ends the daemon without one,) *)
NoMountTable == At("mnt_off") /\ MountFaults /\ Die

(* nfs_umount_rpc_call(): the server is told first, and may not answer. *)
RpcWait(n) == IF n \in Nfs THEN RpcTime ELSE {0}

(* ... each file system in turn, ... *)
UmountNext ==
    /\ At("umount") /\ walk > 0
    /\ \E d \in UmountTime, w \in RpcWait(CurrentEntry) : Pass(d + w)
    /\ \E update \in BOOLEAN : umount_one(update) /\ pc' = IF update THEN "mtab" ELSE "umount"
    /\ UNCHANGED <<watchdog_fd, wdStatic, reason, sleeping, round, plist, alive, stopped,
                   initStopped, listed, pidfile, synced, system>>

UpdateMtab ==
    /\ At("mtab")
    /\ update_mtab
    /\ pc' = "umount"
    /\ UNCHANGED <<devVars, reason, sleeping, round, procs, pidfile, synced, system>>

UpdateMtabDies == At("mtab") /\ update_mtab_dies /\ Die

(* xstrdup(), xstrndup() and xmalloc() in umount_one() end the daemon, too. *)
UmountDies == At("umount") /\ walk > 0 /\ MountFaults /\ Die

(* ... and the network. *)
UmountDone ==
    /\ At("umount") /\ walk = 0
    /\ ifdown
    /\ synced' = TRUE /\ pc' = "reboot"
    /\ UNCHANGED <<devVars, reason, sleeping, round, procs, pidfile, system>>

-----------------------------------------------------------------------------
(* do_shutdown() *)

(* A hard reset: sync and a second of sleep. *)
HardReset ==
    /\ At("begin") /\ errorcode = ERESET
    /\ Pass(1)
    /\ pc' = "reboot"
    /\ UNCHANGED <<watchdog_fd, wdStatic, reason, sleeping, round, plist, alive, stopped,
                   initStopped, listed, files, system>>

(* With a device, its shortest time-out; then it is left to run out. *)
SetShort ==
    /\ At("reboot") /\ errorcode # ETOOHOT /\ watchdog_fd
    /\ set_watchdog_timeout(1)
    /\ pc' = "wait"
    /\ UNCHANGED <<watchdog_fd, Refresh_using_ioctl, machine, reason, sleeping, round,
                   procs, files, system>>

(* sleep(dev_timeout * 4), which the alarm of lock_mtab() may cut short *)
LongSleep(l) ==
    /\ \E d \in Slept(4 * dev_timeout) : Pass(d)
    /\ alarm' = FALSE
    /\ pc' = l
    /\ UNCHANGED <<watchdog_fd, wdStatic, reason, sleeping, round, plist, alive, stopped,
                   initStopped, listed, mtab, table, walk, umount_nomtab, lock, mounted, up,
                   refused, pidfile, synced, system>>

WaitForReset == At("wait") /\ LongSleep("autoboot")

(* reboot() *)
Reboot ==
    /\ \/ At("autoboot")
       \/ At("reboot") /\ (errorcode = ETOOHOT \/ ~watchdog_fd)
    /\ \/ /\ system' = CASE errorcode # ETOOHOT                  -> "rebooted"
                         [] errorcode = ETOOHOT /\ temp_poweroff  -> "off"
                         [] errorcode = ETOOHOT /\ ~temp_poweroff -> "halted"
          /\ UNCHANGED pc
       \/ RebootMayFail /\ pc' = "panic" /\ UNCHANGED system
    /\ UNCHANGED <<devVars, reason, sleeping, round, procs, files>>

FaultyPanic ==                  \* the device is closed, not left to run out
    /\ At("panic")
    /\ pc' = "close"
    /\ UNCHANGED <<devVars, reason, sleeping, round, procs, files, system>>

(* panic(): the device should do it; if it does not, the daemon exits. *)
Panic == At("panic") /\ LongSleep("close")

CloseAll ==
    /\ At("close")
    /\ close_watchdog
    /\ pc' = "exited"
    /\ UNCHANGED <<reason, sleeping, round, procs, files, system>>

-----------------------------------------------------------------------------
(* The other processes. *)

Fork ==
    /\ machine = "up" /\ system = "up" /\ ~stopped
    /\ \E p \in alive, q \in Proc \ alive :
          /\ p \in Sess <=> q \in Sess
          /\ alive' = alive \cup {q}
          /\ termAge' = [termAge EXCEPT ![q] = Never]
    /\ UNCHANGED <<devVars, reason, pc, sleeping, round, plist, stopped, initStopped, listed,
                   files, system>>

InitStarts ==
    /\ machine = "up" /\ system = "up" /\ ~initStopped
    /\ \E q \in Proc \ (alive \cup Sess) :
          alive' = alive \cup {q} /\ termAge' = [termAge EXCEPT ![q] = Never]
    /\ UNCHANGED <<devVars, reason, pc, sleeping, round, plist, stopped, initStopped, listed,
                   files, system>>

Exit ==
    /\ machine = "up" /\ system = "up" /\ ~stopped
    /\ \E p \in alive : alive' = alive \ {p}
    /\ UNCHANGED <<devVars, reason, pc, sleeping, round, plist, stopped, initStopped, termAge,
                   listed, files, system>>

(* Without a daemon the time goes by. *)
Tick ==
    /\ machine = "up" /\ system = "up" /\ pc \in {"exited", "killed"} /\ armed
    /\ Pass(1)
    /\ UNCHANGED <<watchdog_fd, wdStatic, reason, pc, sleeping, round, plist, alive, stopped,
                   initStopped, listed, files, system>>

-----------------------------------------------------------------------------
killall5 == StopAll \/ ReadProc \/ ReadProcFails \/ Skip \/ Kill \/ KillSelf \/ AllSignalled

do_shutdown == \/ Pat \/ Nap \/ SendMail \/ StopInit \/ killall5 \/ ContinueAll \/ Record
               \/ MntOff \/ NoMountTable \/ UmountNext \/ UmountDies \/ UpdateMtab
               \/ UpdateMtabDies \/ UmountDone \/ HardReset \/ SetShort \/ WaitForReset
               \/ Reboot \/ Panic \/ CloseAll

Next == do_shutdown \/ Fork \/ InitStarts \/ Exit \/ Tick

Spec == Init /\ [][Next]_vars

(* The daemon runs, with real-time priority and locked in memory, and so does the
   timer of the device. *)
FairSpec == Spec /\ WF_vars(do_shutdown) /\ WF_vars(Tick)

-----------------------------------------------------------------------------
(* Properties. *)

(* Every variable has its type. *)
TypeOK ==
    /\ DeviceTypeOK /\ UmountTypeOK
    /\ errorcode \in ErrorCodes /\ daemon_pid \in {0, 1}
    /\ pc \in {"begin", "pat", "nap", "signals", "stop", "read", "kill", "cont", "record", "mnt_off",
               "umount", "mtab", "reboot", "wait", "autoboot", "panic", "close", "exited", "killed"}
    /\ left \in Nat /\ (pc = "nap" => left > 0)
    /\ after \in {"begin", "signals", "stop", "record", "mnt_off"}
    /\ round \in 0 .. 4
    /\ plist \subseteq Proc \cup {Self} /\ alive \subseteq Proc
    /\ {stopped, initStopped, synced, pidfile, listed} \subseteq BOOLEAN
    /\ termAge \in [Proc -> {Never} \cup 0 .. sigterm_delay]
    /\ system \in {"up", "rebooted", "off", "halted"}

(* killall5() and try_clean_shutdown(): "nothing should be capable of starting a 2nd
   daemon now" (shutdown.c:353).  If the processes could be listed once for SIGKILL,
   none outside the session is left from there on, however they forked in between. *)
NobodyLeft ==
    listed /\ pc \in {"record", "mnt_off", "umount", "mtab", "reboot", "wait", "autoboot", "panic"}
        => alive \subseteq Sess

(* watchdog.conf.5:172: SIGKILL comes sigterm_delay seconds after the first
   SIGTERM; a process first met in the second round has a second less. *)
GraceGiven ==
    At("kill") /\ sig = "SIGKILL" =>
        \A p \in plist \ {Self} : ~Spared(p) /\ termAge[p] # Never => termAge[p] >= sigterm_delay - 1

(* safe_sleep() and the calls of keep_alive(): except for a hard reset, the device
   does not reset the machine under the daemon before umount_all() is done. *)
CleanBeforeReset ==
    machine = "reset" /\ errorcode # ERESET /\ pc \notin {"exited", "killed"} => synced

(* do_shutdown(): with a device the machine goes down ("Finally reboot",
   watchdog.8:296), whatever else fails, even the daemon.  Only when it is too hot and
   reboot() fails may the alarm left behind by lock_mtab() wake panic() before the
   device fires. *)
GoesDown ==
    watchdog_fd /\ (errorcode = ETOOHOT => mtab # "file") => <>(machine = "reset" \/ system # "up")

(* killall5() stops every process of the machine (shutdown.c:229) in each of its four
   rounds.  Nobody stays frozen: they go on, or the machine goes down, even if readproc()
   fails, or if the daemon kills itself half way because it does not know its PID
   (--force) and the device has to end it.  Only with --force and without a device does
   the daemon's SIGKILL to itself leave the machine with everybody stopped. *)
NobodyStaysStopped ==
    stopped /\ (watchdog_fd \/ daemon_pid # 0) ~> ~stopped \/ machine = "reset" \/ system # "up"
=============================================================================
