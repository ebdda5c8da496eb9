# A TLA+ model of the Linux watchdog daemon

This directory holds TLA+ modules that model the watchdog daemon of this
repository, TLC configurations that check them on small instances, and theorems
about them with proofs for TLAPS. Source paths below are relative to the
repository; `watchdog.c` and the like are in its `src/` directory. PROJECT.json
lists the components, runs, mutants, findings, hazards and theorems, and maps
every definition to the lines it models.

## 1. The system

The daemon opens `/dev/watchdog`, whose kernel driver resets the machine unless
it is refreshed within a margin, and refreshes it as long as the machine passes
a list of checks. A check that fails leads, after a tolerated time, to a repair
program and, if the fault stands, to a shutdown that the daemon does all by
itself.

| Component | State | Operations | Interacts with |
|---|---|---|---|
| device, `keep_alive.c` | `watchdog_fd`, `timeout_used`, `Refresh_using_ioctl`; the driver's timer and margin | open, set time-out (with fall-back values), refresh, close, `safe_sleep` | driver; called by all parts below |
| life cycle, `watchdog.c` `main()`, `sigterm.c` | `_running`, options, PID file | parameter check, start-up, loop, SIGTERM, `--loop-exit`, `terminate()` | device, checks, signals |
| error policy, `watchdog.c` `wd_action()`, `repair()` | `last_time` and `repair_count` of every list entry; the repair child | tolerate, repair, give up, shut down | checks, repair program, shutdown |
| test programs, `test_binary.c` | list `process_head` of runs and answers | reap, time out, look up, start | children that run concurrently |
| shutdown, `shutdown.c` | signal rounds, PID file | mail, `killall5()` four times, unmount, reboot, `panic()` | every process of the machine, device |
| unmounting, `umount.c`, `fstab.c`, `mntent.c`, `ifdown.c` | the mount table, the lock of `/etc/mtab`, an alarm | read the table, unmount in reverse order, update `/etc/mtab`, take interfaces down | called by the shutdown; may `die()` |
| heartbeat, `heartbeat.c` | ring buffer, file | open, write, close | called by every refresh |
| PID file, `daemon-pid.c` | file, `daemon_pid` | check, write, remove, daemonise | other daemons, init scripts, shutdown (`daemon_pid`), ping ids |
| checks: `temp.c`, `net.c`, `iface.c`, `load.c`, `memory.c`, `file_stat.c`, `file_table.c`, `pidfile.c` | warning levels, byte counters, time stamps | one check function each | error policy |
| `logmessage.c` | destinations, suspended messages | open, log, fail, suspend, resume | all |
| `configfile.c`, `read-conf.c` | the parameters and lists | read a file, derive limits | all, once |
| `wd_keepalive.c`, `wd_identify.c` | as the life cycle | a daemon that only refreshes; a program that opens and closes the device | device, init scripts |
| `debian/init`, `debian/wd_keepalive.init` | none of their own | boot, start, stop, restart | the daemons, through PID files and signals |
| `lock_mem.c`, `xmalloc.c`, vendored `mount` sources | none of their own | | |

What is hard here: children, processes and signals that act between any two
steps of the daemon; a hardware timer that does not wait; failing `fork()`,
`malloc()`, `exec` and `waitpid()` in a program whose purpose is to work when
they fail; a driver that accepts only some time-outs; restarts in the middle of
a write; two daemons and a script that race for one device; a network that
loses, delays and duplicates; integer types that wrap. PROJECT.json lists these as hazards, each at its line.

## 2. Modules

| Module | Models | Extends |
|---|---|---|
| `WatchErr` | error codes, wait status | |
| `TestBinary` | `test_binary.c` with its children | `WatchErr` |
| `WdAction` | `do_check()`, `wd_action()`, `repair()` in the order of the main loop | `WatchErr` |
| `KeepAlive` | `keep_alive.c` and the driver, as operators over the primed variables | `WatchErr` |
| `Daemon` | `main()`, SIGTERM, `terminate()` | `KeepAlive` |
| `Umount` | `umount_all()`, the mount table, `ifdown()`, as operators | |
| `Shutdown` | `do_shutdown()` to `panic()`, with the machine's processes | `KeepAlive`, `Umount` |
| `Heartbeat`, `RollingLog` | the ring buffer and its file; what they promise | |
| `Temperature`, `Ping`, `SysChecks` | `temp.c`; `net.c`; `load.c`, `memory.c`, `file_*.c`, `pidfile.c`, `iface.c` | `WatchErr` |
| `Checks` | the three together, one configured at a time | these three |
| `Handover` | the daemons and `wd_identify` as processes, `daemon-pid.c`, the init scripts | |
| `LogMessage` | `logmessage.c`, as operators | |
| `Config` | `configfile.c`, `read-conf.c`, `main()` up to the device | `LogMessage` |
| `*Proofs` | theorems | the module they are named after, `TLAPS` |
| `MC*` | instances for TLC | the module they are named after |

Definitions whose name begins with `Faulty` are plausible bugs in the definition
that follows them. Only mutation runs use them: each replaces one definition and
must break one property.

### Correspondence to the code

*TestBinary.* One call of `check_bin()` is up to four labels (`gather`,
`timeouts`, `lookup`, `fork`), because children end and time passes between its
system calls. The linked list is a sequence with the head first; a list
operation is an operator that gives the new sequence. A time stamp is kept as an
age, capped one second above the time-out. The kernel's side is a table of PIDs
with their state, program and wait status. `act` walks through `tr_bin_list` and
then stands for the call with `NULL`.

*WdAction.* One label per decision of `wd_action()` and `repair()`. `last_time`
is the number of seconds that have passed since it was taken, `Off` for zero.
The result of a check is drawn from a set; `loop` says which list entry, if any,
comes with it. The history variables (`fault`, `last`, `okAge`, `repAge`,
`tries`) are written and never read by the actions. A child whose `execl()`
failed is `escaped`: it goes on in the daemon's code and takes the machine down.

*KeepAlive.* `open_watchdog`, `set_watchdog_timeout`, `keep_alive` and
`close_watchdog` are operators that `Daemon` and `Shutdown` conjoin with their
own steps. The driver accepts time-outs from `MinTimeout` to `MaxTimeout`; time
passes by `Elapse`, which resets the machine when the margin is used up. The
heartbeat that a refresh also writes is the subject of `Heartbeat`.

*Daemon.* `main()` from `check_parameters()` to `terminate()`. A check takes
some seconds and has an outcome; what `wd_action()` makes of an outcome is the
choice between going on, a repair and a shutdown, which `WdAction` refines.
SIGTERM may arrive at any label. Before `signal()` it kills the process and the
kernel closes the device without the magic character (`killed`). `FatalError` is
the end of a start-up that gets no memory after the PID file was written or the device
opened (`xstrdup()` in `write_pid_file()`, `xcalloc()` in `open_heartbeat()`): nothing
is cleaned up (`aborted`). The PID file is `stuck` when `unlink()` failed.

*Shutdown.* Starts where `wd_action()` calls `do_shutdown()`. `safe_sleep(n)` is
the pair of labels `pat` and `nap`, and a bare `keep_alive()` is
`safe_sleep(0)`. `killall5()` is stop, list, one step per signal, continue. Other
processes fork and end at any moment at which they are not stopped. A child
stays in the session of its parent; `setsid()` is not modelled, nor are
processes that SIGKILL cannot end. `daemon_pid` is zero for a daemon under
`--force`, which did not call `write_pid_file()`. Every way to end in `fatal_error()`
or `die()` during the unmounting is an action (`NoMountTable`, `UmountDies`,
`UpdateMtabDies`).

*Umount.* A file system is its mount point; `Under` says what it is mounted on.
`read_mounttable` takes the entries that `my_getmntent()` could read,
`umount_one` unmounts the last one left or is refused, by the kernel's rule
(`Occupied`) or for a reason of its own (`refused`). What is kept of `/etc/mtab`
is what decides about `die()`: whether it is a file, a link, missing, or on a
disk that has become read-only, and whether the lock has been taken. `alarm` is
the `alarm(LOCK_TIMEOUT)` of `lock_mtab()`, which nothing cancels and which may
end any later `sleep()` (`Slept`). Time passes in every step, as in `Shutdown`;
the RPC to an NFS server is only time.

*Temperature, Ping, SysChecks.* One sensor, one target, one check of the others,
because the lists are walked independently. `Degrees` is what the arithmetic of
`read_temp_sensor()` makes of thousandths of a degree, which the C code does in
`double`. In `Ping` the socket's buffer and the network are one set of answers,
from which any may be read, lost or kept for a second delivery; a packet's id is
`daemon_pid % IdSpan`, and is compared with `daemon_pid`, as in the code. The
fields `ours` and `pass` of an answer are history, and so is `spoke`, which says that
the target has sent an answer with this id during the call or just before it. Other
programs may ping any host with any id, this target and this id included
(`PingForeign`). `SysChecks` has one operator
per check, of which the run checks that every path ends in a code (`TypeOK`), and for
`check_iface()` more; `check_iface(n)` reads n lines of `/proc/net/dev` and may then fail.

*Handover.* A process is a record with the program, its label, `_running`, whether it
handles SIGTERM, `saved_fname` and whether the OOM killer spares it. `wd_daemon()` is one step:
the process that goes on has the PID that counts, and the exit of its parents is
`ScriptReturns`. Opening a PID file for writing, which empties it, and writing it
are two steps, and the second may fail without anybody looking (`WriteFails`). So may
`open()` of a free device (`OpenFails`), which watchdog does not look at either,
`unlink()`, `wd_daemon()`, `fopen()`, `xstrdup()` and the protection from the OOM
killer; `faults` counts how many still may. `harm` is history: what of the four events
that some property excludes has happened. `restart` stands for `restart` and
`force-reload`, which are the same. `setting` is `/etc/default/watchdog`. The script's `start-stop-daemon --stop` sends SIGTERM to whatever
process the file names (there is no `--exec`), waits, and may send SIGKILL;
`--start` looks at the file and at the program. `--loop-exit` is in `Daemon`.

*LogMessage, Config.* `out` is what a call sends to syslog, `shown` whether it
reaches the terminal. A line of the file is an option and a value that is blank,
a number or a text; which options exist, their kinds and their defaults are
those of `configfile.c`. Values and names are not characters; a value that is not a
number has the number 0, as `atoi()` would say (`LinesAssumption`). `ticker` is the
counter that `logtick` sets and no option of the file. `Library` lets
`LogMessage` run on its own, in the order in which `killall5()` calls it. (In the
program `close_logging()` comes before, shutdown.c:316, so that nothing is sent to syslog
there; the order is the one the interface allows.)

*Heartbeat.* Lines are model values. `open_heartbeat()` reads all lines of the
file into the ring; the operator `LastAt` says which of them a place ends up
with. `write_heartbeat()` writes in two parts (`Oldest`, `Newest`), each of which may stop
anywhere, also in the middle of a line (`PartOf`); so may the `fflush()`. A torn line
counts as a line: how its bytes shift the lines behind it is left out.

## 3. Runs

All properties are commented where they are defined.

| Run | Checks | Bounds |
|---|---|---|
| `TestBinary_live` | `OneInstance`, `ResultsGenuine`, `ChildrenTracked`, `TestAnswered`, `ZombiesReaped` with failing `fork()` | 2 programs, 2 PIDs, time-out 1 s; a killed process can hold a PID while its program runs again under the other |
| `TestBinary_faults` | `TypeOK`, `KillTargetsOwnChild` with failing `malloc()` and `fork()` and reused PIDs | 2 PIDs, symmetric; lists of up to 3 entries (`MaxEntries`), since reuse leaves entries behind without limit |
| `WdAction_live` | `TypeOK`, `Patience`, `RepairBudget`, `RepairSpacing`, `PersistentFaultGoesDown` with failing refreshes, `fork()`, `execl()` and `waitpid()` | 3 checks, one without a list entry, one with its own repair program and one with none; retry time 2 s, 2 repairs, checks of 0 and 1 s |
| `Daemon_loop` | `TypeOK`, `LoopIsTimely`, `CleanExit` | interval 4 s, time-out 6 s (the longest interval that `check_parameters()` lets pass), checks of 0, 1 and 4 s, 3 checks, 3 passes; memory, `unlink()` and the PID file may fail, the driver takes the time-out |
| `Daemon_live` | `SigtermStops` with `--force`, a refused time-out, failing refreshes and repairs that block | endless loop |
| `Shutdown` | `TypeOK`, `NobodyLeft`, `GraceGiven`, `CleanBeforeReset`, `OnlyRefusedLeft`, `GoesDown`, `NobodyStaysStopped` with failing `readproc()`, memory, unmounting, `/etc/mtab` and `reboot()` | 3 processes, one in the session; 3 file systems on top of each other, one by NFS and on a loop device; time-out 6 s, mail 1 s, unmounting 1 s each and up to 1 s for the RPC, `sigterm_delay` 3 s |
| `Heartbeat_ring` | `TypeOK`, `ImplementsRollingLog` | ring of 3, every initial file of up to 3 lines, every way for a write to stop |
| `Checks` | `TypeOK`, `LevelsOrdered`, `WarnOnce`, `TargetSpoke`, `NoFalseAlarm`, `SilenceNoticed` | limits from negative to 90 degrees with readings at and around every level; a PID below and one above the id's range (`IdSpan` 2 for 2^16), 2 passes, 2 answers of others; integers of a few values (`WordSpan` for 2^32), a byte counter that wraps |
| `Handover` | `TypeOK`, `FileNamesDaemon`, `WatchdogHasDevice`, `StopHandsOver` | 3 PIDs, every stale content of the PID files up to a renaming of PIDs, any number of starts, stops and restarts; one program by hand, or one failing call, or one of the daemons switched off (`Settings`). The run passes with two failures as well |
| `Config` | `TypeOK`, `FileMeans`, `LoadLimitsStand`, `FailureIsLoud`, `SuspensionAccounted` | files of up to 4 lines, around the limits of `check_parameters()`; 1 file of a test directory, up to 4 messages |

Ages and counts are capped just above the largest value that a guard compares
them with, so the caps lose nothing. Two or three entries, processes and lines
are what the interesting cases need: a first and a later element of a list, a
PID that is freed while another is in use, a process that forks while another is
listed, a ring that is empty, partly full, full and wrapped, two files with a
`change` line before, between and after them, two daemons and a stranger.
`CHECK_DEADLOCK FALSE` is set where the daemon may exit, the machine may be off
or the calls are used up: `Daemon`, `Shutdown`, `Checks`, `Handover`, `Config`.

Fairness. `TestBinary`: the loop of the daemon and the clock; children may hang
for ever. `WdAction`: the daemon; repair programs may hang, but the run has a
repair time-out. `Daemon`: `main()`. `Shutdown`: `do_shutdown()` and the timer of
the device. `Handover`: each daemon's `main()` and a script that has begun; nobody
has to start one, and nothing has to fail. The code justifies it: the daemon locks itself in memory, takes
real-time priority (`lock_mem.c`) and none of its own steps waits for another
process without a limit, except a repair without a time-out, for which nothing
is assumed, and the mail, whose duration is a constant.

### Disagreements between the code and its documentation

Each of these runs checks one property that a comment or a manual page states
and that the code violates.

| Run | What the counterexample shows |
|---|---|
| `WdAction_signal` | a repair program killed by a signal counts as a success |
| `Daemon_fallback` | a fall-back time-out is not remembered, so refreshing by ioctl fails from then on |

These are disagreements, too. No run is made of them: the code is plain, and the
properties are stated so that they do not rest on what it does not do.

- watchdog.8:199: "Errors returned by stat will **not** cause a reboot." `check_file_stat()`
  returns the errno (file_stat.c:24), which `wd_action()` treats as any other fault of a
  list entry: after the retry time comes the repair, then the shutdown.
- watchdog.conf.5:35-47 and watchdog.8:159: a load limit below 2 needs `--force`, for 5 and
  15 minutes too. `check_parameters()` tests `maxload1` only (watchdog.c:370), and
  `max-load-1 = 2` makes a limit of 1 for 15 minutes. `LoadLimitsStand` says only that
  the limits are not zero.
- watchdog.conf.5:17: "an interval of more than a minute can only be used with the force
  command-line option". The code compares with `watchdog-timeout` (watchdog.c:363), so
  that a longer one admits any interval, even one above 2147 s, for which `tint * 1000000`
  (watchdog.c:517) overflows.
- watchdog.conf.5:31: "Once this load average is reached the system is rebooted". The code
  asks for more than the limit, of the integer part (load.c:93): a limit of 4 acts
  at 5.00.
- net.c:161: "is it the one we just sent?" The answer to the same try of an earlier call,
  or to another program with the same id, is taken as well. `TargetSpoke` says what is
  left: the target is there and has just answered.
- daemon-pid.c:67: "or -1 for error (null name, PID file in use, or can't write)". The
  results of `fprintf()` and `fclose()` are not looked at (lines 84 and 85): on a full disk
  the daemon runs with an empty PID file. A second one then passes the check, and the
  script finds nobody to stop. `FileNamesDaemon` and `WatchdogHasDevice` exclude it
  (`unwritten`); TLC finds both violated without that.

The models contain the following behaviours too. They are outside what the
properties above promise, or outside the constants of the runs:

- With `PidReuse = TRUE`, `OneInstance` fails: an answer that waits may share its
  PID with a new run of another program, and `remove_process()`, by PID, takes
  the wrong entry off the list.
- Load, memory and file-table faults have no list entry, hence no retry timer
  and no limit on repairs; `RepairBudget` and `Patience` are about list entries.
- A failed `execl()` leaves a child that goes on in the daemon's code
  (`ChildEscapes`).
- SIGTERM after `open_watchdog()` and before `signal()` kills the process and
  leaves the timer running (label `killed`). So does `fatal_error()` for want of memory
  in `open_heartbeat()`, or for a negative `heartbeat-stamps` (label `aborted`); the PID
  file stays as well. `CleanExit` is about a daemon that comes to `terminate()`.
- `restart` or `force-reload` of the init script does not stop wd_keepalive: called
  while that holds the device, it starts a watchdog that finds it busy and runs
  its checks without it. One called while wd_keepalive still starts may take the device
  from it. `WatchdogHasDevice` and `StopHandsOver` exclude both (`reloaded`).
- watchdog also runs without the device when `open()` fails for another reason
  (`unopened`).
- No smaller value is tried for a time-out that the driver finds too big; its
  default stays, and if that is not longer than the interval `LoopIsTimely` fails.
- A process list cut short for want of memory is not used (`ReadProcFails`);
  `NobodyLeft` therefore asks for one complete list.
- With `MallocMayFail = TRUE`, `OneInstance` fails: `add_process()` without memory
  drops the whole list while its programs run, and they are started again.
- With `--force` `daemon_pid` is zero and the daemon kills itself in its own
  SIGKILL round, the others stopped (`KillSelf`). With a device the timer goes on and
  `GoesDown` and `NobodyStaysStopped` hold; without one the machine stays as it is, with
  every process stopped for good, which `NobodyStaysStopped` excludes. The same, with
  nobody stopped, goes for every `die()`: no mount table, no memory, a lock file that cannot be made on a
  read-only disk.
- The alarm of `lock_mtab()` is never cancelled. When `reboot()` fails because of
  ETOOHOT, it may end the sleep of `panic()` before the timer runs out;
  `close_all()` then stops the device and the machine stays up. `GoesDown`
  excludes this case (`mtab = "file"`); TLC finds it without the exclusion.
- Nothing refreshes the device between `mnt_off()` and `reboot()`. Telling an NFS
  server may take 20 s for each mount; where the sum is longer than the time-out
  (`RpcTime`), `CleanBeforeReset` fails.
- The heartbeat file is not cut off, so a file longer than the ring
  (`OldStamps > hbstamps`) keeps stale lines at its end and is no rolling log.
- With a PID above 65535 no answer to a ping is recognised (`NoFalseAlarm` excludes
  it).
- An interface whose name is the beginning of another's (`eth1`, `eth10`) is
  compared with the other's line too: its silence can go unnoticed, or be reported
  though it receives (`SilenceNoticed` asks for one line).
- A PID file that holds no number passes `check_pidfile()`; an empty sensor file
  may read as 0 degrees; whole degrees below zero come out one too high.
- With `SlowChild = TRUE`, where the child takes more than the ten milliseconds
  that `wd_daemon()` waits, a script that starts the other daemon finds no PID file
  to stop it by; watchdog then runs without the device.
- A stale PID file whose number is in use by a stranger makes a daemon refuse to
  start, and makes the script stop the stranger.
- `change` with a text sets the change time to zero; `softboot-option = no` in the
  file undoes `-b`; a negative `max-load-1` passes `check_parameters()`; a daemon
  built with a `MINLOAD` of 1 would get a 15-minute limit of zero.
- A write of the heartbeat file that stops half way leaves lines of two rotations
  side by side until the next one (`Damaged` of `RollingLog`).

## 4. Proofs

TLAPS checks every theorem down to its leaves; the constants are arbitrary within
the `ASSUME`s of the modules, which TLC evaluates on each instance.

*TestBinaryProofs.* `TypeCorrect`. `KillIsSafe`: an entry that is not done
belongs to an unreaped child of its program, whatever fails and however PIDs are
reused. The invariant adds that of several entries with one PID only the first,
which `update_process()` completes, can be open (`DoneBehind`). `NoSecondInstance` and
`AnswersKept` (that is `ResultsGenuine` and `ChildrenTracked`) assume that PIDs
are not reused while on the list and that `malloc()` works; section 3 shows that
both are needed. Their invariant `SingleInv` says that PIDs and
names are unique on the list (`Distinct`), that every entry agrees with the state
of its process (`AllSound`), that a child that counts has an open entry
(`Tracked`), and that a program about to be started has none (`NoEntry`).

*WdActionProofs.* `TypeCorrect`, `PatienceHolds`, `BudgetHolds`,
`SpacingHolds`, for any number of checks and any times. The inductive invariant
`PolicyInv` says: the code in hand is the one the check returned until a repair
replaces it (`FaultKnown`); a running timer is no older than the last good
answer and than the last repair (`TimerSound`), so when it has expired both are
that long ago (`Waited`); the counter is never behind the repairs begun
(`Charged`) and a repair is begun only below the limit (`Ready`); an escaped
child does nothing but shut down (`EscapeStops`). `Patience` alone is not
inductive: it says nothing of a timer that still runs.

*DaemonProofs.* `TypeCorrect`. `RefreshInTime`: under `GoodSetup` (the driver
takes the configured time-out, refreshes do not fail, no `--force`, a repair
time-out, checks no longer than the interval, start-up shorter than the margin)
the machine is never reset under a running daemon. The invariant `TimelyInv`
bounds the age of the last refresh by label; the tight place is a repair that
follows a check: interval plus one second, which is exactly what
`check_parameters()` leaves. `ExitIsClean`: if writes to the device succeed, a daemon that
came to `terminate()` leaves neither a timer that could have been stopped nor a PID file
it did not try to remove; those that were killed or ended by `fatal_error()` are not
covered.

*ChecksProofs.* `LevelsApart` for every limit. `WarnsOnce`: the invariant `TempInv` says
that the flags are those of the levels below the last reading; without it the
three flags could stand for any history. `TargetHasSpoken` and `NeverFalseAlarm`, for
every PID, number of tries, width of the id and traffic of other programs: the invariant
`PingInv` says that during a call an answer under way with the target's address and
this daemon's id was sent by the target in its time (`spoke`), and that no expected
answer has been passed over as long as the PID fits into the id. `NoticesSilence`, for every width of the interface's
counter: `SysInv` says that the count remembered plus what came in since is the
counter, modulo its range, so that the two are equal only after silence or a full
turn. It assumes that reading `/proc/net/dev` does not fail with `ENETUNREACH`, which
would look like silence. `TypeCorrect` rests on the three invariants; that a result
is a code of 8 bits is part of it.

*HandoverProofs.* For any set of PIDs, any number of programs started by hand and of
failures, and any `/etc/default/watchdog`.
`TypeCorrect` needs that the holder of the device is between opening and closing it
(`DeviceHeld`). `FileNames`: `FileNamesDaemon` is not inductive, because it does not
see the processes between `check_pid_file()` and the write; `OnePassed` says that
of each daemon at most one is past the check, as long as no two passed it together and
every file was written (`Orderly`). `HoldsDevice`, for `OnlyScripts`: programs are only
started by the scripts, the PID file is there when `wd_daemon()` returns, no file stayed
unwritten, the device could be opened when it was free, and no `restart` met a
wd_keepalive. `Alone` then says that there is one process at most, that its file names
it once the script has stopped waiting for it (`Named`, `Settled`), that it ends only
while the script waits for that (`Ending`), and that a script about to start a program
has seen the other one gone (`Replaced`, `Reloads`).

*ShutdownProofs.* For any processes, session, mount table, driver and delays.
`TypeCorrect`. `NobodyIsLeft`: the invariant `KillInv` follows `killall5()`: init
stays stopped from the first round on, all others are stopped while they are listed
and signalled, so that nobody can fork past the list (`AllStopped`), and whoever is
left outside the session is still on it (`ListedDies`). `GraceIsGiven`:
`Aged` adds to the time since SIGTERM what is left of the sleep. `RefusedLeft`: the
table keeps the order of mounting (`Ordered`), which is what makes the reverse order
right. `CleanReset` assumes `GoodSetup`: the driver takes the time-out and every
refresh, it is longer than a second of sleep and than the mail, and there is a
`Budget`: bounds on the time from one entry of the mount table to the next
that add up to less than the time-out, because `umount_all()` does not refresh the device. The
instance of the run `Shutdown` meets it (with 0, 1, 2 and 4 seconds for the first
0 to 3 entries). `Timely` bounds the age of the last refresh by label.

*HeartbeatProofs.* `TypeCorrect`, whatever the old file holds.
`RollingLogImplemented`: `Heartbeat` implements `RollingLog` for every ring size, if the
old file has at most `hbstamps` lines (otherwise old lines stay behind the new ones),
with writes that stop anywhere: a line of the file after one is torn, or one of the
log that belongs there or further on, or what was there before (`Damaged`).
The invariant adds that a ring that is not full starts at its first place
(`NotYetRound`), that the places in use hold lines (`Valid`) and that the file is no
longer than the ring (`FileFits`); the lemmas say what putting a line, opening
the file and writing it out do to `Contents`.

*ConfigProofs.* For any set of lines and messages. `TypeCorrect`, which needs what
`main()` relies on in the log: open and not suspended (`LogOpen`). `FailuresAreLoud`.
`LimitsStand`, for every `max-load-1`: `Configured` and `Checked` carry what
`read_config()` and `check_parameters()` made sure of to the running daemon. `SuspensionsAccounted`: with
syslog open, `err_count` is one more than the number of messages held back, and zero
outside a suspension (`Counted`). `FilesMean`: `Meaning` states `FileMeans` of
any sequence of lines; one lemma for each kind of line says what appending it changes:
the last number of an option, the position of a list entry, the `change` that
belongs to a file.

Every invariant and action property of the passing runs is stated by a theorem.
Only model-checked are the seven liveness properties (`TestAnswered`, `ZombiesReaped`,
`PersistentFaultGoesDown`, `SigtermStops`, `GoesDown`, `NobodyStaysStopped`,
`StopHandsOver`): TLAPS does
not prove liveness under fairness. The violations of section 3 are TLC's as well.

## 5. Not modelled, and the plan

Proofs that could still be added:

1. The hypotheses of `AnswersKept`, `RefreshInTime` and `CleanReset` made sharper, with
   the runs that show each of them to be needed.
2. The step-by-step part of `Daemon` abstracting `WdAction`: that a pass of
   `WdAction` ends in what `Daemon` takes for an outcome of a check.
3. Lemmas about `Degrees` and `LevelOf`: the reading at which `ETOOHOT` is returned.

Left out:

- `mount.c`, `nfsmount*.c` and most of `lomount.c`: vendored, and compiled in, but
  the only call (`mount_one()` in `try_clean_shutdown()`) is under `#if 0`.
- Characters: the text of `/etc/mtab`, of `/proc` files, of mails and log messages,
  usage texts, `print_info()`, and what `verbose` adds to the log.
- `status` of the init script, the links for `sendsigs`, and calls of wd_keepalive's
  own script after boot.
- The bytes of a torn line in the heartbeat file.
- Several repair children at once, and jumps of the wall clock in `wd_action()`.
- Several sensors or targets at once: the entries of a list share nothing.
