---------------------------- MODULE HandoverProofs ----------------------------
(***************************************************************************)
(* Proofs about Handover, for any set of PIDs, and any number of programs  *)
(* started by hand and of failures.                                        *)
(***************************************************************************)
EXTENDS Handover, TLAPS

Owns   == {"open", "handler", "lock", "loop", "close", "remove"}
Passed == {"create", "write"} \cup Owns         \* check_pid_file() found the file free

(* The device is open only between open_watchdog() and close_watchdog(), and the
   script waits for a process. *)
DeviceHeld == holder # NoPid => proc[holder].pc \in {"handler", "lock", "loop", "close"}
Waiting    == step \in {"wait", "return"} => target \in Pid

TypeInv == TypeOK /\ DeviceHeld /\ Waiting

(* Of each daemon one process at most is past check_pid_file(). *)
Orderly == harm \cap {"raced", "unwritten"} = {}

OnePassed ==
    Orderly => \A p, q \in Pid : /\ proc[p].prog \in Daemons /\ proc[q].prog = proc[p].prog
                                 /\ proc[p].pc \in Passed /\ proc[q].pc \in Passed
                                 => p = q

FileInv == TypeInv /\ OnePassed /\ FileNamesDaemon

(* When only the scripts start programs, and wait for the PID files, and nothing of
   Harm but a race has happened: there is one process at most, it is a daemon, its file
   names it as soon as the script does not wait for it any more, it ends only while the
   script waits for its end, and a script that is about to start a program has found no
   other. *)
OnlyScripts ==
    /\ byHand = setting.byHand /\ ~SlowChild
    /\ harm \cap {"unwritten", "unopened", "reloaded"} = {}

Ends       == {"close", "remove", "exit"}
OneProcess == \A p, q \in Pid : Alive(p) /\ Alive(q) => p = q
Named      == \A p \in Pid : Alive(p) /\ proc[p].pc \in Owns => file[proc[p].prog] = p
Daemon     == \A p \in Pid : Alive(p) => proc[p].prog \in Daemons
Settled    == \A p \in Pid : Alive(p) /\ step # "return" => proc[p].pc \in Owns \cup {"exit"}
Ending     == \A p \in Pid : Alive(p) /\ (proc[p].pc \in Ends \/ ~proc[p]._running) => step = "wait"
Awaited    == \A p \in Pid : Alive(p) /\ step \in {"return", "wait"} => p = target
Replaced   == \A p \in Pid : Alive(p) /\ step = "launch" => proc[p].prog = Starts
Reloads    == \A p \in Pid : Alive(p) /\ script = "restart" => proc[p].prog = "watchdog"
HasDevice  == \A p \in Pid :
                proc[p].prog = "watchdog" /\ proc[p].pc \in {"handler", "lock", "loop"} =>
                    holder = p

Alone ==
    /\ OneProcess /\ Named /\ Daemon /\ Settled /\ Ending /\ Awaited /\ Replaced /\ Reloads
    /\ HasDevice

DeviceInv == TypeInv /\ (OnlyScripts => Alone)

-----------------------------------------------------------------------------
(* The cases of Next. *)

LEMMA NextCases ==
    ASSUME Next
    PROVE  \/ \E p \in Pid : \/ wd_daemon(p) \/ check_pid_file(p) \/ PidFileInUse(p)
                             \/ CreatePidFile(p) \/ WritePidFile(p) \/ OpenDevice(p)
                             \/ DeviceBusy(p) \/ InstallHandler(p) \/ lock_our_memory(p)
                             \/ LeaveLoop(p) \/ CloseDevice(p) \/ RemovePidFile(p) \/ Exit(p)
                             \/ wd_daemon_fails(p) \/ CreateFails(p) \/ WriteFails(p)
                             \/ xstrdup_fails(p) \/ OpenFails(p) \/ LockFails(p)
                             \/ UnlinkFails(p) \/ OomKill(p)
           \/ StartByHand \/ ScriptBegins \/ ScriptTerminates \/ ScriptWaits
           \/ ScriptKills \/ ScriptLaunches \/ ScriptReturns
BY DEF Next, Main, Failure, Script, Caller

(* What the steps do to the process table, process by process. *)

LEMMA NewProcess ==
    ASSUME NEW g \in Program, NEW l \in Label
    PROVE  /\ New(g, l) \in Process /\ New(g, l).prog = g /\ New(g, l).pc = l
           /\ New(g, l)._running = TRUE
BY DEF New, Process, Program, Daemons

LEMMA NoProcessFields == NoProcess \in Process /\ NoProcess.pc = "none" /\ NoProcess.prog = "other"
<1>1. "other" \in Program /\ "none" \in Label
  BY DEF Program, Label
<1> QED
  BY <1>1, NewProcess DEF NoProcess

LEMMA LaunchEffect ==
    ASSUME proc \in [Pid -> Process], NEW p \in Pid, NEW g \in Program, Launch(p, g)
    PROVE  /\ proc[p].pc = "none" /\ proc' \in [Pid -> Process]
           /\ \A q \in Pid \ {p} : proc'[q] = proc[q]
           /\ proc'[p].prog = g /\ proc'[p].pc # "none" /\ (g \in Daemons => proc'[p].pc = "fork")
           /\ proc'[p]._running
           /\ UNCHANGED <<file, holder, harm>>
<1>1. PICK l \in Label \ {"none"} :
         proc' = [proc EXCEPT ![p] = New(g, l)] /\ (g \in Daemons => l = "fork")
  <2>1. CASE g = "other"
    <3>1. proc' = [proc EXCEPT ![p] = New(g, "loop")]
      BY <2>1 DEF Launch
    <3>2. "loop" \in Label \ {"none"} /\ g \notin Daemons
      BY <2>1 DEF Label, Daemons
    <3> QED
      BY <3>1, <3>2
  <2>2. CASE g = "wd_identify"
    <3>1. proc' = [proc EXCEPT ![p] = New(g, "open")]
      BY <2>2 DEF Launch
    <3>2. "open" \in Label \ {"none"} /\ g \notin Daemons
      BY <2>2 DEF Label, Daemons
    <3> QED
      BY <3>1, <3>2
  <2>3. CASE g \notin {"other", "wd_identify"}
    BY <2>3 DEF Launch, Label
  <2> QED
    BY <2>1, <2>2, <2>3
<1>2. PICK n \in Process : n = New(g, l) /\ n.prog = g /\ n.pc = l /\ n._running = TRUE
  BY <1>1, NewProcess
<1>3. proc' = [proc EXCEPT ![p] = n]
  BY <1>1, <1>2
<1>4. proc[p].pc = "none" /\ UNCHANGED <<file, holder, harm>>
  BY DEF Launch, Alive
<1> QED
  BY <1>1, <1>2, <1>3, <1>4

LEMMA DiesEffect ==
    ASSUME proc \in [Pid -> Process], NEW p \in Pid, Dies(p)
    PROVE  /\ proc' \in [Pid -> Process]
           /\ \A q \in Pid \ {p} : proc'[q] = proc[q]
           /\ proc'[p].prog = "other" /\ proc'[p].pc = "none"
BY NoProcessFields DEF Dies

LEMMA ToEffect ==
    ASSUME proc \in [Pid -> Process], NEW p \in Pid, NEW l \in Label, To(p, l)
    PROVE  /\ proc' \in [Pid -> Process]
           /\ \A q \in Pid \ {p} : proc'[q] = proc[q]
           /\ proc'[p].prog = proc[p].prog /\ proc'[p].pc = l
           /\ proc'[p]._running = proc[p]._running
BY DEF To, Process

(* SIGTERM ends a process or leaves it where it is. *)
LEMMA SigtermEffect ==
    ASSUME proc \in [Pid -> Process], NEW p \in Pid, Sigterm(p)
    PROVE  \/ Dies(p)
           \/ /\ proc' \in [Pid -> Process] /\ UNCHANGED holder
              /\ \A q \in Pid : proc'[q].prog = proc[q].prog /\ proc'[q].pc = proc[q].pc
<1>1. CASE ~proc[p].handled
  BY <1>1 DEF Sigterm
<1>2. CASE proc[p].handled
  <2>1. proc' = [proc EXCEPT ![p]._running = FALSE] /\ UNCHANGED holder
    BY <1>2 DEF Sigterm
  <2> QED
    BY <2>1 DEF Process
<1> QED
  BY <1>1, <1>2

(* Without the device a process ends, goes on, or goes to its end. *)
LEMMA NoDeviceEffect ==
    ASSUME NEW p \in Pid, NoDevice(p)
    PROVE  /\ proc[p].pc = "open" /\ UNCHANGED <<file, script, step, target, byHand, setting>>
           /\ Dies(p) \/ (UNCHANGED holder /\ \E l \in {"close", "handler"} : To(p, l))
BY DEF NoDevice, At, control

(* The setting stays, what has happened has happened, and failures are used up. *)
LEMMA Lasting ==
    ASSUME [Next]_vars
    PROVE  setting' = setting /\ harm \subseteq harm' /\ faults' \in {faults, faults - 1}
<1>1. setting' = setting
  BY NextCases DEF wd_daemon, check_pid_file, PidFileInUse, CreatePidFile, WritePidFile,
     OpenDevice, DeviceBusy, NoDevice, InstallHandler, lock_our_memory, LeaveLoop, CloseDevice,
     RemovePidFile, Exit, wd_daemon_fails, CreateFails, WriteFails, xstrdup_fails, OpenFails,
     LockFails, UnlinkFails, OomKill, Gone, StartByHand, ScriptBegins, ScriptTerminates,
     ScriptWaits, ScriptKills, ScriptLaunches, ScriptReturns, vars, control
<1>2. harm \subseteq harm'
  BY NextCases DEF wd_daemon, check_pid_file, PidFileInUse, CreatePidFile, WritePidFile,
     OpenDevice, DeviceBusy, NoDevice, InstallHandler, lock_our_memory, LeaveLoop, CloseDevice,
     RemovePidFile, Exit, wd_daemon_fails, CreateFails, WriteFails, xstrdup_fails, OpenFails,
     LockFails, UnlinkFails, OomKill, Gone, StartByHand, Launch, ScriptBegins, ScriptTerminates,
     ScriptWaits, ScriptKills, ScriptLaunches, ScriptReturns, vars
<1>3. faults' \in {faults, faults - 1}
  BY DEF Next, Main, Failure, Script, Caller, StartByHand, vars
<1> QED
  BY <1>1, <1>2, <1>3

(* Programs are started by hand in one step only. *)
LEMMA HandsOff ==
    ASSUME [Next]_vars, ~StartByHand
    PROVE  byHand' = byHand
BY NextCases DEF wd_daemon, check_pid_file, PidFileInUse, CreatePidFile, WritePidFile,
   OpenDevice, DeviceBusy, NoDevice, InstallHandler, lock_our_memory, LeaveLoop, CloseDevice,
   RemovePidFile, Exit, wd_daemon_fails, CreateFails, WriteFails, xstrdup_fails, OpenFails,
   LockFails, UnlinkFails, OomKill, Gone, ScriptBegins, ScriptTerminates, ScriptWaits,
   ScriptKills, ScriptLaunches, ScriptReturns, vars, control

(* Counting down from a bound stays below it. *)
LEMMA CountDown ==
    ASSUME NEW m \in Nat, NEW n \in 0 .. m, n > 0
    PROVE  n - 1 \in 0 .. m
OBVIOUS

(* The numbers of programs by hand and of failures. *)
LEMMA BudgetStep ==
    ASSUME TypeOK, [Next]_vars
    PROVE  /\ setting' \in Settings /\ faults' \in 0 .. setting'.faults
           /\ byHand' \in 0 .. setting'.byHand
<1>1. setting' = setting /\ setting \in Settings
  BY Lasting DEF TypeOK
<1>2. PICK m \in Nat, n \in Nat : m = setting.faults /\ n = setting.byHand
  BY <1>1, HandoverAssumption
<1>3. faults \in 0 .. m /\ byHand \in 0 .. n
  BY <1>2 DEF TypeOK
<1>4. faults' \in 0 .. m
  <2>1. UNCHANGED faults \/ (faults > 0 /\ faults' = faults - 1)
    BY DEF Next, Main, Failure, Script, Caller, StartByHand, vars
  <2> QED
    BY <1>3, <2>1, CountDown
<1>5. byHand' \in 0 .. n
  <2>1. CASE StartByHand
    BY <1>3, <2>1, CountDown DEF StartByHand
  <2>2. CASE ~StartByHand
    BY <1>3, <2>2, HandsOff
  <2> QED
    BY <2>1, <2>2
<1> QED
  BY <1>1, <1>2, <1>4, <1>5

LEMMA TypeInvStep ==
    ASSUME TypeInv, [Next]_vars
    PROVE  TypeInv'
<1> USE PidAssumption
<1> USE DEF DeviceHeld, Waiting, Alive, At, Is, control
<1>t. proc \in [Pid -> Process]
  BY DEF TypeInv, TypeOK
<1>b. /\ setting' \in Settings /\ faults' \in 0 .. setting'.faults
      /\ byHand' \in 0 .. setting'.byHand
  BY BudgetStep DEF TypeInv
<1> DEFINE Rest ==
      /\ proc \in [Pid -> Process]
      /\ file \in [Daemons -> Pid \cup {NoFile, Empty}]
      /\ holder \in Pid \cup {NoPid} /\ (holder # NoPid => Alive(holder))
      /\ script \in {"boot", "start", "stop", "restart"} /\ target \in Pid \cup {NoPid}
      /\ step \in {"find", "wait", "launch", "return", "done"}
      /\ harm \subseteq Harm
      /\ DeviceHeld /\ Waiting
<1>r. Rest
  BY DEF TypeInv, TypeOK
<1> SUFFICES Rest'
  BY <1>b DEF TypeInv, TypeOK
<1> USE <1>r
<1>g. ASSUME NEW p \in Pid, Gone(p) PROVE Rest'
  BY <1>g, DiesEffect DEF Gone, Dies
<1>1. ASSUME NEW p \in Pid, wd_daemon(p) PROVE Rest'
  BY <1>1, ToEffect DEF wd_daemon, Label
<1>2. ASSUME NEW p \in Pid, check_pid_file(p) PROVE Rest'
  BY <1>2, ToEffect DEF check_pid_file, Label, Harm
<1>3. ASSUME NEW p \in Pid, PidFileInUse(p) \/ Exit(p) PROVE Rest'
  BY <1>3, <1>g DEF PidFileInUse, Exit
<1>4. ASSUME NEW p \in Pid, CreatePidFile(p) PROVE Rest'
  BY <1>4, ToEffect DEF CreatePidFile, Label
<1>5. ASSUME NEW p \in Pid, WritePidFile(p) PROVE Rest'
  BY <1>5 DEF WritePidFile, Label, Process
<1>6. ASSUME NEW p \in Pid, OpenDevice(p) PROVE Rest'
  BY <1>6, ToEffect DEF OpenDevice, Label
<1>7. ASSUME NEW p \in Pid, DeviceBusy(p) \/ OpenFails(p) PROVE Rest'
  <2>0. harm' \subseteq Harm /\ NoDevice(p)
    BY <1>7 DEF DeviceBusy, OpenFails, Harm
  <2>1. proc[p].pc = "open" /\ UNCHANGED <<file, script, step, target>>
    BY <2>0, NoDeviceEffect
  <2>2. CASE Dies(p)
    BY <2>0, <2>1, <2>2, DiesEffect DEF Dies
  <2>3. CASE ~Dies(p)
    <3>1. PICK l \in {"close", "handler"} : To(p, l)
      BY <2>0, <2>3, NoDeviceEffect
    <3>2. UNCHANGED holder
      BY <2>0, <2>3, NoDeviceEffect
    <3> QED
      BY <2>0, <2>1, <3>1, <3>2, ToEffect DEF Label
  <2> QED
    BY <2>2, <2>3
<1>8. ASSUME NEW p \in Pid, InstallHandler(p) PROVE Rest'
  BY <1>8 DEF InstallHandler, Label, Process
<1>9. ASSUME NEW p \in Pid, lock_our_memory(p) PROVE Rest'
  BY <1>9 DEF lock_our_memory, Label, Process
<1>10. ASSUME NEW p \in Pid, LeaveLoop(p) PROVE Rest'
  BY <1>10, ToEffect DEF LeaveLoop, Label
<1>11. ASSUME NEW p \in Pid, CloseDevice(p) PROVE Rest'
  BY <1>11, ToEffect, NoProcessFields DEF CloseDevice, Label
<1>12. ASSUME NEW p \in Pid, RemovePidFile(p) PROVE Rest'
  BY <1>12, ToEffect DEF RemovePidFile, Label
<1>13. ASSUME NEW p \in Pid, wd_daemon_fails(p) \/ CreateFails(p) \/ OomKill(p) PROVE Rest'
  BY <1>13, <1>g DEF wd_daemon_fails, CreateFails, OomKill
<1>22. ASSUME NEW p \in Pid, WriteFails(p) PROVE Rest'
  BY <1>22 DEF WriteFails, Label, Process, Harm
<1>23. ASSUME NEW p \in Pid, xstrdup_fails(p) PROVE Rest'
  BY <1>23, DiesEffect DEF xstrdup_fails, Dies
<1>24. ASSUME NEW p \in Pid, LockFails(p) \/ UnlinkFails(p) PROVE Rest'
  BY <1>24, ToEffect DEF LockFails, UnlinkFails, Label
<1>14. CASE StartByHand
  <2>1. PICK p \in Pid, g \in Program : Launch(p, g)
    BY <1>14 DEF StartByHand
  <2>2. UNCHANGED <<script, step, target>>
    BY <1>14 DEF StartByHand
  <2> QED
    BY <2>1, <2>2, LaunchEffect
<1>15. CASE ScriptBegins
  BY <1>15 DEF ScriptBegins, Harm
<1>16. CASE ScriptTerminates
  <2> DEFINE f == file[Stops]
  <2>1. UNCHANGED <<file, harm, script>>
    BY <1>16 DEF ScriptTerminates
  <2>2. CASE ~Alive(f)
    BY <1>16, <2>1, <2>2 DEF ScriptTerminates
  <2>3. CASE Alive(f)
    <3>1. f \in Pid /\ Sigterm(f) /\ target' = f /\ step' = "wait"
      BY <1>16, <2>3 DEF ScriptTerminates
    <3> HIDE DEF f
    <3>2. CASE Dies(f)
      BY <2>1, <3>1, <3>2, DiesEffect DEF Dies
    <3>3. CASE ~Dies(f)
      BY <2>1, <3>1, <3>3, SigtermEffect
    <3> QED
      BY <3>2, <3>3
  <2> QED
    BY <2>2, <2>3
<1>17. CASE ScriptWaits
  BY <1>17 DEF ScriptWaits
<1>18. CASE ScriptKills
  BY <1>18, <1>g DEF ScriptKills
<1>19. CASE ScriptLaunches
  <2>1. CASE UNCHANGED <<proc, file, holder, harm, target>>
    BY <1>19, <2>1 DEF ScriptLaunches
  <2>2. CASE \E p \in Pid : Launch(p, Starts) /\ target' = p /\ step' = "return"
    <3>1. Starts \in Program
      BY DEF Starts, Program, Daemons
    <3> QED
      BY <1>19, <2>2, <3>1, LaunchEffect DEF ScriptLaunches
  <2> QED
    BY <1>19, <2>1, <2>2 DEF ScriptLaunches
<1>20. CASE ScriptReturns
  BY <1>20 DEF ScriptReturns
<1>21. CASE UNCHANGED vars
  BY <1>21 DEF vars
<1> QED
  BY NextCases, <1>1, <1>2, <1>3, <1>4, <1>5, <1>6, <1>7, <1>8, <1>9, <1>10, <1>11, <1>12,
     <1>13, <1>14, <1>15, <1>16, <1>17, <1>18, <1>19, <1>20, <1>21, <1>22, <1>23, <1>24

LEMMA TypeInit ==
    ASSUME Init
    PROVE  TypeInv
<1>1. proc \in [Pid -> Process]
  BY NoProcessFields DEF Init
<1>2. file \in [Daemons -> Pid \cup {NoFile, Empty}]
  BY HandoverAssumption DEF Init, Daemons, NoFile
<1>3. holder = NoPid /\ target = NoPid /\ script = "boot" /\ step \in {"launch", "done"}
  BY DEF Init
<1>4. harm \subseteq Harm /\ setting \in Settings
  BY DEF Init
<1>5. byHand \in 0 .. setting.byHand /\ faults \in 0 .. setting.faults
  <2>1. PICK m \in Nat, n \in Nat : m = setting.faults /\ n = setting.byHand
    BY <1>4, HandoverAssumption
  <2>2. faults = m /\ byHand = n
    BY <2>1 DEF Init
  <2> QED
    BY <2>1, <2>2
<1> QED
  BY <1>1, <1>2, <1>3, <1>4, <1>5 DEF TypeInv, TypeOK, DeviceHeld, Waiting

(* Whoever starts programs, whatever fails and however the signals fall, the device is
   open only in a process that is there, and everything keeps its type. *)
THEOREM TypeCorrect == Spec => []TypeOK
<1>1. Init => TypeInv
  BY TypeInit
<1>2. TypeInv /\ [Next]_vars => TypeInv'
  BY TypeInvStep
<1>3. TypeInv => TypeOK
  BY DEF TypeInv
<1> QED
  BY <1>1, <1>2, <1>3, PTL DEF Spec

-----------------------------------------------------------------------------
(* The PID file. *)

(* A step of p that leaves the files alone, and after which p does not count, or
   counts as it did before. *)
LEMMA FilesLeftAlone ==
    ASSUME OnePassed, FileNamesDaemon, NEW p \in Pid,
           \A q \in Pid \ {p} : proc'[q].prog = proc[q].prog /\ proc'[q].pc = proc[q].pc,
           UNCHANGED file, Orderly' => Orderly,
           \/ proc'[p].pc \notin Passed \/ proc'[p].prog \notin Daemons
           \/ /\ proc'[p].prog = proc[p].prog /\ proc[p].pc \in Passed
              /\ proc'[p].pc \in Owns => proc[p].pc \in Owns
    PROVE  OnePassed' /\ FileNamesDaemon'
<1>1. OnePassed'
  BY DEF OnePassed
<1>2. FileNamesDaemon'
  BY DEF FileNamesDaemon, Orderly, Owns, Passed
<1> QED
  BY <1>1, <1>2

LEMMA FileInvStep ==
    ASSUME FileInv, [Next]_vars
    PROVE  FileInv'
<1>0. TypeInv /\ OnePassed /\ FileNamesDaemon /\ proc \in [Pid -> Process]
  BY DEF FileInv, TypeInv, TypeOK
<1>t. TypeInv'
  BY <1>0, TypeInvStep
<1>m. Orderly' => Orderly
  BY Lasting DEF Orderly
<1> SUFFICES OnePassed' /\ FileNamesDaemon'
  BY <1>t DEF FileInv
<1> DEFINE Good == OnePassed' /\ FileNamesDaemon'
<1> USE <1>m DEF At, Is, control
<1>g. ASSUME NEW p \in Pid, Dies(p), UNCHANGED file PROVE Good
  BY <1>0, <1>g, DiesEffect, FilesLeftAlone DEF Passed, Owns
<1>h. ASSUME NEW p \in Pid, Gone(p) PROVE Good
  BY <1>h, <1>g DEF Gone
<1>o. ASSUME NEW p \in Pid, NEW l \in Owns, To(p, l), proc[p].pc \in Owns, UNCHANGED file
      PROVE  Good
  <2>1. l \in Label
    BY DEF Owns, Label
  <2>2. /\ \A q \in Pid \ {p} : proc'[q] = proc[q]
        /\ proc'[p].prog = proc[p].prog /\ proc'[p].pc = l
    BY <1>0, <1>o, <2>1, ToEffect
  <2> QED
    BY <1>0, <1>o, <2>2, FilesLeftAlone DEF Passed
<1>l. ASSUME NEW p \in Pid, NEW g \in Program, Launch(p, g) PROVE Good
  BY <1>0, <1>l, LaunchEffect, FilesLeftAlone DEF Passed, Owns
<1>1. ASSUME NEW p \in Pid, wd_daemon(p) PROVE Good
  <2>1. PICK l \in {"open", "check"} : To(p, l) /\ (l = "open" => proc[p].prog = "forced")
    BY <1>1 DEF wd_daemon
  <2>2. /\ \A q \in Pid \ {p} : proc'[q] = proc[q]
        /\ proc'[p].prog = proc[p].prog /\ proc'[p].pc = l
    BY <1>0, <2>1, ToEffect DEF Label
  <2> QED
    BY <1>0, <1>1, <2>1, <2>2, FilesLeftAlone DEF wd_daemon, Passed, Owns, Daemons
<1>2. ASSUME NEW p \in Pid, check_pid_file(p) PROVE Good
  <2>1. /\ \A q \in Pid \ {p} : proc'[q] = proc[q]
        /\ proc'[p].prog = proc[p].prog /\ proc'[p].pc = "create"
    BY <1>0, <1>2, ToEffect DEF check_pid_file, Label
  <2>2. UNCHANGED file /\ ~InUse(p, file[proc[p].prog])
    BY <1>2 DEF check_pid_file
  <2>3. ASSUME Orderly', NEW q \in Pid \ {p}, proc[q].prog = proc[p].prog, proc[p].prog \in Daemons
        PROVE  Orderly /\ proc[q].pc \notin Passed
    <3>1. Orderly /\ proc[q].pc \notin {"create", "write"}
      BY <1>2, <2>3 DEF check_pid_file, Orderly
    <3>2. proc[q].pc \in Owns => file[proc[p].prog] = q
      BY <1>0, <2>3, <3>1 DEF FileNamesDaemon, Orderly, Owns
    <3>3. proc[q].pc \notin Owns
      BY <2>2, <3>2 DEF InUse, Alive, Owns
    <3> QED
      BY <3>1, <3>3 DEF Passed
  <2>5. OnePassed'
    BY <1>0, <2>1, <2>3 DEF OnePassed
  <2>6. FileNamesDaemon'
    BY <1>0, <2>1, <2>2, <1>m DEF FileNamesDaemon, Orderly
  <2> QED
    BY <2>5, <2>6
<1>3. ASSUME NEW p \in Pid, PidFileInUse(p) \/ Exit(p) PROVE Good
  BY <1>3, <1>h DEF PidFileInUse, Exit
<1>4. ASSUME NEW p \in Pid, CreatePidFile(p) PROVE Good
  <2>1. /\ \A q \in Pid \ {p} : proc'[q] = proc[q]
        /\ proc'[p].prog = proc[p].prog /\ proc'[p].pc = "write"
    BY <1>0, <1>4, ToEffect DEF CreatePidFile, Label
  <2>2. /\ proc[p].pc = "create"
        /\ file' = [file EXCEPT ![proc[p].prog] = Empty]
    BY <1>4 DEF CreatePidFile
  <2>3. OnePassed'
    BY <1>0, <2>1, <2>2 DEF OnePassed, Passed
  <2>4. ASSUME Orderly', NEW q \in Pid, proc'[q].prog \in Daemons, proc'[q].pc \in Owns
        PROVE  file'[proc'[q].prog] = q
    <3>1. q # p /\ proc'[q] = proc[q]
      BY <2>1, <2>4 DEF Owns
    <3>2. proc[q].prog # proc[p].prog
      BY <1>0, <2>2, <2>4, <3>1 DEF OnePassed, Passed
    <3>3. file[proc[q].prog] = q
      BY <1>0, <2>4, <3>1 DEF FileNamesDaemon, Orderly, Owns
    <3> QED
      BY <1>0, <2>2, <2>4, <3>1, <3>2, <3>3 DEF TypeInv, TypeOK
  <2> QED
    BY <2>2, <2>3, <2>4 DEF FileNamesDaemon, Orderly, Owns
<1>5. ASSUME NEW p \in Pid, WritePidFile(p) PROVE Good
  <2>1. /\ \A q \in Pid \ {p} : proc'[q] = proc[q]
        /\ proc'[p].prog = proc[p].prog /\ proc'[p].pc = "open"
    BY <1>0, <1>5 DEF WritePidFile, Process
  <2>2. /\ proc[p].pc = "write"
        /\ file' = [file EXCEPT ![proc[p].prog] = p]
    BY <1>5 DEF WritePidFile
  <2>3. OnePassed'
    BY <1>0, <2>1, <2>2 DEF OnePassed, Passed
  <2>4. ASSUME Orderly', NEW q \in Pid, proc'[q].prog \in Daemons, proc'[q].pc \in Owns
        PROVE  file'[proc'[q].prog] = q
    <3>1. CASE q = p
      BY <1>0, <2>1, <2>2, <2>4, <3>1 DEF TypeInv, TypeOK
    <3>2. CASE q # p
      <4>1. proc'[q] = proc[q]
        BY <2>1, <3>2
      <4>2. proc[q].prog # proc[p].prog
        BY <1>0, <2>2, <2>4, <3>2, <4>1 DEF OnePassed, Passed
      <4>3. file[proc[q].prog] = q
        BY <1>0, <2>4, <4>1 DEF FileNamesDaemon, Orderly, Owns
      <4> QED
        BY <1>0, <2>2, <2>4, <4>1, <4>2, <4>3 DEF TypeInv, TypeOK
    <3> QED
      BY <3>1, <3>2
  <2> QED
    BY <2>2, <2>3, <2>4 DEF FileNamesDaemon, Orderly, Owns
<1>6. ASSUME NEW p \in Pid, OpenDevice(p) PROVE Good
  <2>1. PICK l \in {"close", "handler"} : To(p, l)
    BY <1>6 DEF OpenDevice
  <2> QED
    BY <1>6, <2>1, <1>o DEF OpenDevice, Owns
<1>7. ASSUME NEW p \in Pid, DeviceBusy(p) \/ OpenFails(p) PROVE Good
  <2>0. NoDevice(p)
    BY <1>7 DEF DeviceBusy, OpenFails
  <2>1. proc[p].pc = "open" /\ UNCHANGED file
    BY <2>0, NoDeviceEffect
  <2>2. CASE Dies(p)
    BY <2>1, <2>2, <1>g
  <2>3. CASE ~Dies(p)
    <3>1. PICK l \in {"close", "handler"} : To(p, l)
      BY <2>0, <2>3, NoDeviceEffect
    <3> QED
      BY <2>1, <3>1, <1>o DEF Owns
  <2> QED
    BY <2>2, <2>3
<1>8. ASSUME NEW p \in Pid, InstallHandler(p) PROVE Good
  <2>1. /\ \A q \in Pid \ {p} : proc'[q] = proc[q]
        /\ proc'[p].prog = proc[p].prog /\ proc'[p].pc = "lock"
    BY <1>0, <1>8 DEF InstallHandler, Process
  <2> QED
    BY <1>0, <1>8, <2>1, FilesLeftAlone DEF InstallHandler, Passed, Owns
<1>9. ASSUME NEW p \in Pid, lock_our_memory(p) PROVE Good
  <2>1. /\ \A q \in Pid \ {p} : proc'[q] = proc[q]
        /\ proc'[p].prog = proc[p].prog /\ proc'[p].pc = "loop"
    BY <1>0, <1>9 DEF lock_our_memory, Process
  <2> QED
    BY <1>0, <1>9, <2>1, FilesLeftAlone DEF lock_our_memory, Passed, Owns
<1>10. ASSUME NEW p \in Pid, LeaveLoop(p) PROVE Good
  BY <1>10, <1>o DEF LeaveLoop, Owns
<1>11. ASSUME NEW p \in Pid, CloseDevice(p) PROVE Good
  <2>1. CASE Is(p, "wd_identify")
    BY <1>0, <1>11, <2>1, NoProcessFields, FilesLeftAlone DEF CloseDevice, Passed, Owns
  <2>2. CASE ~Is(p, "wd_identify")
    BY <1>11, <2>2, <1>o DEF CloseDevice, Owns
  <2> QED
    BY <2>1, <2>2
<1>e. ASSUME NEW p \in Pid, To(p, "exit"), proc[p].pc = "remove"
      PROVE  /\ \A q \in Pid \ {p} : proc'[q] = proc[q]
             /\ proc'[p].prog = proc[p].prog /\ proc'[p].pc = "exit"
  BY <1>0, <1>e, ToEffect DEF Label
<1>12. ASSUME NEW p \in Pid, RemovePidFile(p) PROVE Good
  <2>1. /\ \A q \in Pid \ {p} : proc'[q] = proc[q]
        /\ proc'[p].prog = proc[p].prog /\ proc'[p].pc = "exit"
    BY <1>12, <1>e DEF RemovePidFile
  <2>2. proc[p].pc = "remove"
    BY <1>12 DEF RemovePidFile
  <2>3. OnePassed'
    BY <1>0, <2>1, <2>2 DEF OnePassed, Passed, Owns
  <2>4. ASSUME Orderly', NEW q \in Pid, proc'[q].prog \in Daemons, proc'[q].pc \in Owns
        PROVE  file'[proc'[q].prog] = q
    <3>1. q # p /\ proc'[q] = proc[q]
      BY <2>1, <2>4 DEF Owns
    <3>2. proc[q].prog # proc[p].prog
      BY <1>0, <2>2, <2>4, <3>1 DEF OnePassed, Passed, Owns
    <3>3. file[proc[q].prog] = q
      BY <1>0, <2>4, <3>1 DEF FileNamesDaemon, Orderly, Owns
    <3>4. file'[proc[q].prog] = file[proc[q].prog]
      BY <1>0, <1>12, <2>4, <3>1, <3>2 DEF RemovePidFile, TypeInv, TypeOK
    <3> QED
      BY <3>1, <3>3, <3>4
  <2> QED
    BY <2>3, <2>4 DEF FileNamesDaemon, Orderly, Owns
<1>13. ASSUME NEW p \in Pid, wd_daemon_fails(p) \/ CreateFails(p) \/ OomKill(p) PROVE Good
  BY <1>13, <1>h DEF wd_daemon_fails, CreateFails, OomKill
<1>19. ASSUME NEW p \in Pid, WriteFails(p) PROVE Good
  BY <1>19 DEF WriteFails, OnePassed, FileNamesDaemon, Orderly
<1>20. ASSUME NEW p \in Pid, xstrdup_fails(p) PROVE Good
  <2>1. /\ \A q \in Pid \ {p} : proc'[q] = proc[q]
        /\ proc'[p].prog = "other" /\ proc'[p].pc = "none"
    BY <1>0, <1>20, DiesEffect DEF xstrdup_fails
  <2>2. proc[p].pc = "write" /\ file' = [file EXCEPT ![proc[p].prog] = p]
    BY <1>20 DEF xstrdup_fails
  <2>3. OnePassed'
    BY <1>0, <2>1, <2>2 DEF OnePassed, Passed, Owns
  <2>4. ASSUME Orderly', NEW q \in Pid, proc'[q].prog \in Daemons, proc'[q].pc \in Owns
        PROVE  file'[proc'[q].prog] = q
    <3>1. q # p /\ proc'[q] = proc[q]
      BY <2>1, <2>4 DEF Owns
    <3>2. proc[q].prog # proc[p].prog
      BY <1>0, <2>2, <2>4, <3>1 DEF OnePassed, Passed
    <3>3. file[proc[q].prog] = q
      BY <1>0, <2>4, <3>1 DEF FileNamesDaemon, Orderly, Owns
    <3> QED
      BY <1>0, <2>2, <2>4, <3>1, <3>2, <3>3 DEF TypeInv, TypeOK
  <2> QED
    BY <2>3, <2>4 DEF FileNamesDaemon, Orderly, Owns
<1>21. ASSUME NEW p \in Pid, LockFails(p) PROVE Good
  BY <1>21, <1>o DEF LockFails, Owns
<1>22. ASSUME NEW p \in Pid, UnlinkFails(p) PROVE Good
  <2>1. proc[p].pc = "remove" /\ UNCHANGED file /\ To(p, "exit")
    BY <1>22 DEF UnlinkFails
  <2> QED
    BY <1>0, <2>1, <1>e, FilesLeftAlone DEF Passed, Owns
<1>14. CASE StartByHand
  BY <1>14, <1>l DEF StartByHand
<1>15. CASE ScriptTerminates
  <2>1. UNCHANGED file
    BY <1>15 DEF ScriptTerminates
  <2>2. CASE ~Alive(file[Stops])
    BY <1>0, <1>15, <2>1, <2>2 DEF ScriptTerminates, OnePassed, FileNamesDaemon, Orderly
  <2>3. CASE Alive(file[Stops])
    <3>1. file[Stops] \in Pid /\ Sigterm(file[Stops])
      BY <1>15, <2>3 DEF ScriptTerminates, Alive
    <3>2. CASE Dies(file[Stops])
      BY <2>1, <3>1, <3>2, <1>g
    <3>3. CASE ~Dies(file[Stops])
      <4>1. \A q \in Pid : proc'[q].prog = proc[q].prog /\ proc'[q].pc = proc[q].pc
        BY <1>0, <3>1, <3>3, SigtermEffect
      <4> QED
        BY <1>0, <2>1, <4>1 DEF OnePassed, FileNamesDaemon, Orderly
    <3> QED
      BY <3>2, <3>3
  <2> QED
    BY <2>2, <2>3
<1>16. CASE ScriptKills
  BY <1>16, <1>0, <1>h DEF ScriptKills, Alive
<1>17. CASE ScriptLaunches
  <2>1. Starts \in Program
    BY DEF Starts, Program, Daemons
  <2>2. CASE UNCHANGED <<proc, file, holder, harm, target>>
    BY <1>0, <2>2 DEF OnePassed, FileNamesDaemon, Orderly
  <2> QED
    BY <1>17, <2>1, <2>2, <1>l DEF ScriptLaunches
<1>18. CASE ScriptBegins \/ ScriptWaits \/ ScriptReturns \/ UNCHANGED vars
  BY <1>0, <1>18 DEF ScriptBegins, ScriptWaits, ScriptReturns, vars, OnePassed,
     FileNamesDaemon, Orderly
<1> QED
  BY NextCases, <1>1, <1>2, <1>3, <1>4, <1>5, <1>6, <1>7, <1>8, <1>9, <1>10, <1>11, <1>12,
     <1>13, <1>14, <1>15, <1>16, <1>17, <1>18, <1>19, <1>20, <1>21, <1>22

(* write_pid_file() and remove_pid_file(): unless two processes passed check_pid_file()
   before either wrote its PID, or a PID file could not be written, every daemon is the
   one that its PID file names, for any number of processes, with reused PIDs, stale
   files, calls that fail and processes killed at any point. *)
THEOREM FileNames == Spec => []FileNamesDaemon
<1>1. Init => FileInv
  <2>1. Init => TypeInv
    BY TypeInit
  <2>2. Init => OnePassed /\ FileNamesDaemon
    BY NoProcessFields DEF Init, OnePassed, FileNamesDaemon, Daemons
  <2> QED
    BY <2>1, <2>2 DEF FileInv
<1>2. FileInv /\ [Next]_vars => FileInv'
  BY FileInvStep
<1>3. FileInv => FileNamesDaemon
  BY DEF FileInv
<1> QED
  BY <1>1, <1>2, <1>3, PTL DEF Spec

-----------------------------------------------------------------------------
(* The device. *)

(* A step of the only process, p, that leaves its file and the script alone. *)
LEMMA OnlyOneMoves ==
    ASSUME TypeInv, Alone, NEW p \in Pid, Alive(p),
           \A q \in Pid \ {p} : proc'[q] = proc[q],
           \/ proc'[p].pc = "none" /\ proc'[p].prog = "other"
           \/ /\ proc'[p].prog = proc[p].prog
              /\ proc[p].pc \in Owns \cup {"exit"} => proc'[p].pc \in Owns \cup {"exit"}
              /\ proc'[p].pc \in Owns => file'[proc[p].prog] = p
              /\ /\ proc[p].prog = "watchdog" /\ proc'[p].pc \in {"handler", "lock", "loop"}
                 => holder' = p
              /\ proc'[p].pc \in Ends \/ ~proc'[p]._running => step = "wait",
           UNCHANGED <<script, step, target>>
    PROVE  Alone'
<1>1. \A q \in Pid \ {p} : ~Alive(q) /\ proc[q].pc = "none" /\ proc'[q].pc = "none"
  BY DEF Alone, OneProcess, Alive
<1>2. Starts' = Starts
  BY DEF Starts
<1>3. OneProcess'
  BY <1>1 DEF OneProcess, Alive
<1>4. Named'
  BY <1>1 DEF Named, Alive, Owns
<1>5. Daemon'
  BY <1>1 DEF Alone, Daemon, Alive
<1>6. Settled'
  BY <1>1 DEF Alone, Settled, Alive
<1>7. Awaited'
  BY <1>1 DEF Alone, Awaited, Alive
<1>8. Replaced'
  BY <1>1, <1>2 DEF Alone, Replaced, Alive
<1>10. Ending'
  BY <1>1 DEF Alone, Ending, Alive
<1>11. Reloads'
  BY <1>1 DEF Alone, Reloads, Alive
<1>9. HasDevice'
  BY <1>1 DEF HasDevice
<1> QED
  BY <1>3, <1>4, <1>5, <1>6, <1>7, <1>8, <1>9, <1>10, <1>11 DEF Alone

(* With no process there is nothing to ask. *)
LEMMA NoneIsFine ==
    ASSUME \A p \in Pid : proc'[p].pc = "none"
    PROVE  Alone'
BY DEF Alone, OneProcess, Named, Daemon, Settled, Ending, Awaited, Replaced, Reloads, HasDevice,
   Alive

LEMMA DeviceInvStep ==
    ASSUME DeviceInv, [Next]_vars
    PROVE  DeviceInv'
<1>0. TypeInv /\ proc \in [Pid -> Process]
  BY DEF DeviceInv, TypeInv, TypeOK
<1>t. TypeInv'
  BY <1>0, TypeInvStep
<1> SUFFICES ASSUME OnlyScripts' PROVE Alone'
  BY <1>t DEF DeviceInv
<1>l. setting' = setting /\ harm \subseteq harm'
  BY Lasting
<1>m. setting \in Settings /\ byHand \in 0 .. setting.byHand
  BY <1>0 DEF TypeInv, TypeOK
<1> USE DEF At, Is, control
<1>s. CASE StartByHand
  <2>1. PICK n \in Nat : n = setting.byHand
    BY <1>m, HandoverAssumption
  <2>2. byHand' = byHand - 1 /\ byHand \in 0 .. n /\ byHand' = n
    BY <1>l, <1>m, <1>s, <2>1 DEF StartByHand, OnlyScripts
  <2> QED
    BY <2>2
<1>b. CASE UNCHANGED byHand
  <2>a. Alone /\ ~SlowChild
    BY <1>b, <1>l DEF DeviceInv, OnlyScripts
  <2>h. ASSUME NEW p \in Pid, proc[p].pc = "open", holder # NoPid PROVE FALSE
    BY <1>0, <2>a, <2>h DEF Alone, OneProcess, Alive, TypeInv, TypeOK, DeviceHeld
  <2>g. ASSUME NEW p \in Pid, Gone(p), Alive(p) PROVE Alone'
    <3>1. UNCHANGED <<script, step, target>> /\ Dies(p)
      BY <2>g DEF Gone
    <3> QED
      BY <1>0, <2>a, <2>g, <3>1, DiesEffect, OnlyOneMoves
  <2>e. ASSUME NEW p \in Pid, Alive(p), proc[p].pc \in Ends \/ ~proc[p]._running PROVE step = "wait"
    BY <2>a, <2>e DEF Alone, Ending
  <2>o. ASSUME NEW p \in Pid, NEW l \in Owns \cup {"exit"}, To(p, l), proc[p].pc \in Owns,
               l \in Owns => UNCHANGED file,
               UNCHANGED <<script, step, target>>,
               l \in Ends => step = "wait",
               proc[p].prog = "watchdog" /\ l \in {"handler", "lock", "loop"} => holder' = p
        PROVE  Alone'
    <3>1. l \in Label /\ Alive(p)
      BY <2>o DEF Owns, Label, Alive
    <3>2. /\ \A q \in Pid \ {p} : proc'[q] = proc[q]
          /\ proc'[p].prog = proc[p].prog /\ proc'[p].pc = l
          /\ proc'[p]._running = proc[p]._running
      BY <1>0, <2>o, <3>1, ToEffect
    <3>3. l \in Owns => file'[proc[p].prog] = p
      BY <2>a, <2>o, <3>1 DEF Alone, Named
    <3>4. proc'[p].pc \in Ends \/ ~proc'[p]._running => step = "wait"
      BY <2>e, <2>o, <3>1, <3>2
    <3> QED
      BY <1>0, <2>a, <2>o, <3>1, <3>2, <3>3, <3>4, OnlyOneMoves
  <2>w. ASSUME NEW p \in Pid, NEW l \in {"check", "create", "write"}, To(p, l), Alive(p),
               proc[p].pc \notin Owns \cup {"exit"}, UNCHANGED <<script, step, target>>
        PROVE  Alone'
    <3>1. /\ \A q \in Pid \ {p} : proc'[q] = proc[q]
          /\ proc'[p].prog = proc[p].prog /\ proc'[p].pc = l
          /\ proc'[p]._running = proc[p]._running
      BY <1>0, <2>w, ToEffect DEF Label
    <3>2. proc'[p].pc \in Ends \/ ~proc'[p]._running => step = "wait"
      BY <2>e, <2>w, <3>1 DEF Ends
    <3>3. proc'[p].pc \notin Owns \cup {"handler", "lock", "loop"}
      BY <3>1 DEF Owns
    <3> QED
      BY <1>0, <2>a, <2>w, <3>1, <3>2, <3>3, OnlyOneMoves
  <2>1. ASSUME NEW p \in Pid, wd_daemon(p) PROVE Alone'
    <3>1. Alive(p) /\ proc[p].pc = "fork" /\ UNCHANGED <<script, step, target>>
      BY <2>1 DEF wd_daemon, Alive
    <3>2. To(p, "check")
      BY <2>1, <2>a, <3>1 DEF wd_daemon, Alone, Daemon, Daemons
    <3> QED
      BY <2>w, <3>1, <3>2 DEF Owns
  <2>2. ASSUME NEW p \in Pid, check_pid_file(p) PROVE Alone'
    BY <2>2, <2>w DEF check_pid_file, Owns, Alive
  <2>3. ASSUME NEW p \in Pid, PidFileInUse(p) \/ Exit(p) PROVE Alone'
    BY <2>3, <2>g DEF PidFileInUse, Exit, Alive
  <2>4. ASSUME NEW p \in Pid, CreatePidFile(p) PROVE Alone'
    BY <2>4, <2>w DEF CreatePidFile, Owns, Alive
  <2>5. ASSUME NEW p \in Pid, WritePidFile(p) PROVE Alone'
    <3>1. /\ \A q \in Pid \ {p} : proc'[q] = proc[q]
          /\ proc'[p].prog = proc[p].prog /\ proc'[p].pc = "open"
          /\ proc'[p]._running = proc[p]._running
      BY <1>0, <2>5 DEF WritePidFile, Process
    <3>2. Alive(p) /\ proc[p].pc = "write" /\ UNCHANGED <<script, step, target>>
      BY <2>5 DEF WritePidFile, Alive
    <3>3. file'[proc[p].prog] = p
      <4>1. proc[p].prog \in Daemons
        BY <2>a, <3>2 DEF Alone, Daemon
      <4> QED
        BY <1>0, <2>5, <4>1 DEF WritePidFile, TypeInv, TypeOK
    <3>4. proc'[p].pc \in Ends \/ ~proc'[p]._running => step = "wait"
      BY <2>e, <3>1, <3>2 DEF Ends
    <3> QED
      BY <1>0, <2>a, <3>1, <3>2, <3>3, <3>4, OnlyOneMoves DEF Owns
  <2>6. ASSUME NEW p \in Pid, OpenDevice(p) PROVE Alone'
    <3>1. proc[p].pc = "open" /\ holder' = p /\ UNCHANGED <<file, script, step, target>>
      BY <2>6 DEF OpenDevice
    <3>2. To(p, "handler")
      BY <2>6, <2>a, <3>1 DEF OpenDevice, Alone, Daemon, Daemons, Alive
    <3> QED
      BY <2>o, <3>1, <3>2 DEF Owns, Ends
  <2>7. ASSUME NEW p \in Pid, DeviceBusy(p) PROVE Alone'
    BY <2>7, <2>h DEF DeviceBusy, NoDevice
  <2>d. ASSUME NEW p \in Pid, proc[p].prog = "watchdog", proc[p].pc \in {"handler", "lock", "loop"}
        PROVE  holder = p
    BY <2>a, <2>d DEF Alone, HasDevice
  <2>8. ASSUME NEW p \in Pid, InstallHandler(p) \/ lock_our_memory(p) PROVE Alone'
    <3>1. /\ \A q \in Pid \ {p} : proc'[q] = proc[q]
          /\ proc'[p].prog = proc[p].prog /\ proc'[p].pc \in {"lock", "loop"}
          /\ proc'[p]._running = proc[p]._running
      BY <1>0, <2>8 DEF InstallHandler, lock_our_memory, Process
    <3>2. /\ Alive(p) /\ proc[p].pc \in {"handler", "lock"}
          /\ UNCHANGED <<file, holder, script, step, target>>
      BY <2>8 DEF InstallHandler, lock_our_memory, Alive
    <3>3. file'[proc[p].prog] = p
      BY <2>a, <3>2 DEF Alone, Named, Owns
    <3>4. proc'[p].pc \in Ends \/ ~proc'[p]._running => step = "wait"
      BY <2>e, <3>1, <3>2 DEF Ends
    <3> QED
      BY <1>0, <2>a, <2>d, <3>1, <3>2, <3>3, <3>4, OnlyOneMoves DEF Owns
  <2>9. ASSUME NEW p \in Pid, LockFails(p) PROVE Alone'
    BY <2>9, <2>d, <2>o DEF LockFails, Owns, Ends
  <2>10. ASSUME NEW p \in Pid, LeaveLoop(p) PROVE Alone'
    <3>1. /\ Alive(p) /\ proc[p].pc = "loop" /\ ~proc[p]._running /\ To(p, "close")
          /\ UNCHANGED <<file, script, step, target>>
      BY <2>10 DEF LeaveLoop, Alive
    <3> QED
      BY <2>e, <2>o, <3>1 DEF Owns
  <2>11. ASSUME NEW p \in Pid, CloseDevice(p) PROVE Alone'
    <3>1. Alive(p) /\ proc[p].pc = "close" /\ UNCHANGED <<file, script, step, target>>
      BY <2>11 DEF CloseDevice, Alive
    <3>2. To(p, "remove")
      BY <2>11, <2>a, <3>1 DEF CloseDevice, Alone, Daemon, Daemons
    <3> QED
      BY <2>e, <2>o, <3>1, <3>2 DEF Owns, Ends
  <2>12. ASSUME NEW p \in Pid, RemovePidFile(p) \/ UnlinkFails(p) PROVE Alone'
    <3>1. /\ Alive(p) /\ proc[p].pc = "remove" /\ To(p, "exit")
          /\ UNCHANGED <<script, step, target>>
      BY <2>12 DEF RemovePidFile, UnlinkFails, Alive
    <3> QED
      BY <2>e, <2>o, <3>1 DEF Owns, Ends
  <2>13. ASSUME NEW p \in Pid, wd_daemon_fails(p) \/ CreateFails(p) \/ OomKill(p) PROVE Alone'
    BY <2>13, <2>g DEF wd_daemon_fails, CreateFails, OomKill, Alive
  <2>21. ASSUME NEW p \in Pid, WriteFails(p) \/ OpenFails(p) PROVE Alone'
    BY <2>21 DEF WriteFails, OpenFails, OnlyScripts
  <2>22. ASSUME NEW p \in Pid, xstrdup_fails(p) PROVE Alone'
    <3>1. Alive(p) /\ Dies(p) /\ UNCHANGED <<script, step, target>>
      BY <2>22 DEF xstrdup_fails, Alive
    <3> QED
      BY <1>0, <2>a, <3>1, DiesEffect, OnlyOneMoves
  <2>14. CASE ScriptBegins
    <3>1. UNCHANGED <<proc, file, holder, target>> /\ step = "done" /\ step' \in {"find", "done"}
      BY <2>14 DEF ScriptBegins
    <3>2. ASSUME NEW p \in Pid, Alive(p), script' = "restart" PROVE proc[p].prog = "watchdog"
      <4>1. "reloaded" \notin harm'
        BY DEF OnlyScripts
      <4>2. proc[p].prog # "wd_keepalive"
        BY <2>14, <3>2, <4>1 DEF ScriptBegins
      <4> QED
        BY <2>a, <3>2, <4>2 DEF Alone, Daemon, Daemons
    <3>3. Reloads'
      BY <3>1, <3>2 DEF Reloads, Alive
    <3>4. OneProcess' /\ Named' /\ Daemon' /\ Settled'
      BY <2>a, <3>1 DEF Alone, OneProcess, Named, Daemon, Settled, Alive
    <3>5. Ending' /\ Awaited' /\ Replaced' /\ HasDevice'
      BY <2>a, <3>1 DEF Alone, Ending, Awaited, Replaced, HasDevice, Alive
    <3> QED
      BY <3>3, <3>4, <3>5 DEF Alone
  <2>15. CASE ScriptTerminates
    <3>1. UNCHANGED <<file, script>> /\ step = "find"
      BY <2>15 DEF ScriptTerminates
    <3>s. Starts' = Starts
      BY <3>1 DEF Starts
    <3>2. CASE ~Alive(file[Stops])
      <4>1. step' = "launch" /\ UNCHANGED <<proc, holder, target>>
        BY <2>15, <3>2 DEF ScriptTerminates
      <4>2. ASSUME NEW p \in Pid, Alive(p) PROVE proc[p].prog = Starts
        <5>1. proc[p].pc # "exit"
          BY <2>e, <3>1, <4>2 DEF Ends
        <5>2. proc[p].prog \in Daemons /\ file[proc[p].prog] = p
          BY <2>a, <3>1, <4>2, <5>1 DEF Alone, Daemon, Named, Settled
        <5>3. proc[p].prog # Stops
          BY <3>2, <4>2, <5>2
        <5>4. script # "restart"
          BY <2>a, <4>2, <5>3 DEF Alone, Reloads, Stops
        <5> QED
          BY <5>2, <5>3, <5>4 DEF Stops, Starts, Daemons
      <4>3. Replaced'
        BY <3>s, <4>1, <4>2 DEF Replaced, Alive
      <4>4. OneProcess' /\ Named' /\ Daemon' /\ Settled'
        BY <2>a, <3>1, <4>1 DEF Alone, OneProcess, Named, Daemon, Settled, Alive
      <4>5. Ending' /\ Awaited' /\ Reloads' /\ HasDevice'
        BY <2>a, <3>1, <4>1 DEF Alone, Ending, Awaited, Reloads, HasDevice, Alive
      <4> QED
        BY <4>3, <4>4, <4>5 DEF Alone
    <3>3. CASE Alive(file[Stops])
      <4>1. PICK f \in Pid : Alive(f) /\ Sigterm(f) /\ target' = f /\ step' = "wait"
        BY <2>15, <3>3 DEF ScriptTerminates, Alive
      <4>2. \A q \in Pid \ {f} : proc[q].pc = "none"
        BY <2>a, <4>1 DEF Alone, OneProcess, Alive
      <4>3. CASE Dies(f)
        <5>1. \A q \in Pid : proc'[q].pc = "none"
          BY <1>0, <4>2, <4>3, DiesEffect
        <5> QED
          BY <5>1, NoneIsFine
      <4>4. CASE ~Dies(f)
        <5>1. /\ \A q \in Pid : proc'[q].prog = proc[q].prog /\ proc'[q].pc = proc[q].pc
              /\ UNCHANGED holder
          BY <1>0, <4>1, <4>4, SigtermEffect
        <5>2. Awaited' /\ Replaced' /\ Ending'
          BY <4>1, <4>2, <5>1 DEF Awaited, Replaced, Ending, Alive
        <5>3. OneProcess' /\ Named' /\ Daemon' /\ Reloads'
          BY <2>a, <3>1, <5>1 DEF Alone, OneProcess, Named, Daemon, Reloads, Alive
        <5>4. Settled' /\ HasDevice'
          BY <2>a, <3>1, <5>1 DEF Alone, Settled, HasDevice, Alive
        <5> QED
          BY <5>2, <5>3, <5>4 DEF Alone
      <4> QED
        BY <4>3, <4>4
    <3> QED
      BY <3>2, <3>3
  <2>16. CASE ScriptWaits
    <3>1. UNCHANGED proc /\ step = "wait"
      BY <2>16 DEF ScriptWaits
    <3>2. \A p \in Pid : ~Alive(p)
      BY <2>a, <2>16, <3>1 DEF ScriptWaits, Alone, Awaited
    <3>3. \A p \in Pid : proc'[p].pc = "none"
      BY <3>1, <3>2 DEF Alive
    <3> QED
      BY <3>3, NoneIsFine
  <2>17. CASE ScriptKills
    BY <2>17, <2>g DEF ScriptKills, Alive
  <2>18. CASE ScriptLaunches
    <3>1. step = "launch" /\ UNCHANGED script
      BY <2>18 DEF ScriptLaunches
    <3>2. CASE UNCHANGED proc
      <4>1. UNCHANGED <<file, holder>> /\ step' \in {"done", "return"}
        BY <2>18 DEF ScriptLaunches, Launch
      <4>2. step' = "done"
        <5>1. ASSUME NEW p \in Pid, Launch(p, Starts) PROVE FALSE
          <6>1. Starts \in Program
            BY DEF Starts, Program, Daemons
          <6> QED
            BY <1>0, <3>2, <5>1, <6>1, LaunchEffect
        <5> QED
          BY <2>18, <5>1 DEF ScriptLaunches
      <4>3. OneProcess' /\ Named' /\ Daemon' /\ Settled'
        BY <2>a, <3>1, <3>2, <4>1, <4>2 DEF Alone, OneProcess, Named, Daemon, Settled, Alive
      <4>4. Ending' /\ Awaited' /\ Replaced' /\ Reloads' /\ HasDevice'
        BY <2>a, <3>1, <3>2, <4>1, <4>2 DEF Alone, Ending, Awaited, Replaced, Reloads, HasDevice,
           Alive
      <4> QED
        BY <4>3, <4>4 DEF Alone
    <3>3. CASE ~UNCHANGED proc
      <4>0. ~(Alive(file[Starts]) /\ Is(file[Starts], Starts))
        BY <2>18, <3>3 DEF ScriptLaunches
      <4>1. PICK p \in Pid : Launch(p, Starts) /\ target' = p /\ step' = "return"
        BY <2>18, <3>3 DEF ScriptLaunches
      <4>2. \A q \in Pid : proc[q].pc = "none"
        <5>1. ASSUME NEW q \in Pid, Alive(q) PROVE FALSE
          <6>1. proc[q].pc # "exit"
            BY <2>e, <3>1, <5>1 DEF Ends
          <6>2. proc[q].pc \in Owns /\ proc[q].prog = Starts
            BY <2>a, <3>1, <5>1, <6>1 DEF Alone, Settled, Replaced
          <6>3. file[Starts] = q
            BY <2>a, <5>1, <6>2 DEF Alone, Named
          <6> QED
            BY <4>0, <5>1, <6>2, <6>3
        <5> QED
          BY <5>1 DEF Alive
      <4>3. Starts \in Daemons /\ Starts \in Program /\ (script = "restart" => Starts = "watchdog")
        BY DEF Starts, Daemons, Program
      <4>4. /\ \A q \in Pid \ {p} : proc'[q].pc = "none"
            /\ proc'[p].prog = Starts /\ proc'[p].pc = "fork" /\ proc'[p]._running
        BY <1>0, <4>1, <4>2, <4>3, LaunchEffect
      <4>5. OneProcess' /\ Named' /\ Daemon' /\ Reloads'
        BY <3>1, <4>3, <4>4 DEF OneProcess, Named, Daemon, Reloads, Alive, Owns
      <4>6. Settled' /\ Awaited' /\ Replaced' /\ HasDevice'
        BY <1>0, <4>1, <4>2, <4>3, <4>4, LaunchEffect DEF Settled, Awaited, Replaced, HasDevice, Alive
      <4>7. Ending'
        BY <4>4 DEF Ending, Alive, Ends
      <4> QED
        BY <4>5, <4>6, <4>7 DEF Alone
    <3> QED
      BY <3>2, <3>3
  <2>19. CASE ScriptReturns
    <3>1. /\ UNCHANGED <<proc, file, holder, script>> /\ step = "return" /\ step' = "done"
          /\ proc[target].pc \notin {"fork", "check", "create", "write"}
      BY <2>a, <2>19 DEF ScriptReturns
    <3>2. ASSUME NEW p \in Pid, Alive(p) PROVE proc[p].pc \in Owns
      <4>1. p = target
        BY <2>a, <3>1, <3>2 DEF Alone, Awaited
      <4>2. proc[p].pc \in Label \ {"none", "exit"}
        BY <1>0, <2>e, <3>1, <3>2 DEF Process, Alive, Ends
      <4> QED
        BY <3>1, <4>1, <4>2 DEF Label, Owns
    <3>3. Settled' /\ Awaited' /\ Replaced'
      BY <3>1, <3>2 DEF Settled, Awaited, Replaced, Alive
    <3>4. Ending'
      BY <2>e, <3>1 DEF Ending, Alive
    <3> QED
      BY <2>a, <3>1, <3>3, <3>4 DEF Alone, OneProcess, Named, Daemon, Reloads, HasDevice, Alive
  <2>20. CASE UNCHANGED vars
    <3>1. UNCHANGED <<proc, file, holder, target, script, step>>
      BY <2>20 DEF vars
    <3>2. Starts' = Starts
      BY <3>1 DEF Starts
    <3> QED
      BY <2>a, <3>1, <3>2 DEF Alone, OneProcess, Named, Daemon, Settled, Ending, Awaited, Replaced,
         Reloads, HasDevice, Alive
  <2> QED
    BY NextCases, <1>s, <2>1, <2>2, <2>3, <2>4, <2>5, <2>6, <2>7, <2>8, <2>9, <2>10, <2>11, <2>12,
       <2>13, <2>14, <2>15, <2>16, <2>17, <2>18, <2>19, <2>20, <2>21, <2>22
<1> QED
  BY <1>s, <1>b, HandsOff

(* open_watchdog() in main() of watchdog.c: as long as only the init scripts start
   programs, the PID file is there when wd_daemon() returns and could be written, the
   device can be opened when it is free, and watchdog is not restarted beside a
   wd_keepalive, watchdog never runs its checks without the device, whichever processes
   are killed, whichever other calls fail and whatever the files left by an earlier run
   name. *)
THEOREM HoldsDevice == Spec => []WatchdogHasDevice
<1>1. Init => DeviceInv
  <2>1. Init => TypeInv
    BY TypeInit
  <2>2. Init => \A p \in Pid : proc[p].pc = "none"
    BY NoProcessFields DEF Init
  <2>3. Init => Alone
    BY <2>2 DEF Alone, OneProcess, Named, Daemon, Settled, Ending, Awaited, Replaced, Reloads,
       HasDevice, Alive
  <2> QED
    BY <2>1, <2>3 DEF DeviceInv
<1>2. DeviceInv /\ [Next]_vars => DeviceInv'
  BY DeviceInvStep
<1>3. DeviceInv => WatchdogHasDevice
  BY DEF DeviceInv, OnlyScripts, Alone, HasDevice, WatchdogHasDevice, At, Is
<1> QED
  BY <1>1, <1>2, <1>3, PTL DEF Spec
=============================================================================
