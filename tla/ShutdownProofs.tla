---------------------------- MODULE ShutdownProofs ----------------------------
(***************************************************************************)
(* Theorems about do_shutdown(), for any processes, file systems, drivers  *)
(* and settings.                                                           *)
(***************************************************************************)
EXTENDS Shutdown, SequenceTheorems, TLAPS

(* The mount table keeps the order in which the file systems were mounted. *)
Pos(n)  == CHOOSE k \in DOMAIN Mounts : Mounts[k] = n
Ordered == \A i, j \in 1 .. Len(table) : i < j => Pos(table[i]) < Pos(table[j])

(* From the first killall5() on init is stopped; while the processes are listed and
   signalled all of them are; and once they could be listed for SIGKILL those that are
   left outside the session are still on the list. *)
InitHeld    == round >= 1 \/ listed => initStopped
AllStopped  == pc \in {"read", "kill"} => stopped
ListedDies  == listed /\ pc # "killed" =>
                  \/ alive \subseteq Sess
                  \/ pc = "kill" /\ round >= 3 /\ alive \subseteq Sess \cup plist

KillInv == TypeOK /\ InitHeld /\ AllStopped /\ ListedDies

(* After the second round a process that has got SIGTERM will be sigterm_delay - 1
   seconds older than that at the end of the sleep. *)
StillToSleep == IF pc \in {"pat", "nap"} THEN left ELSE 0
Aged == round >= 3 => \A p \in Proc : termAge[p] # Never =>
                         termAge[p] + StillToSleep >= sigterm_delay - 1

GraceInv == TypeOK /\ Aged

(* The time that umount_all() may take: b[j] seconds for the first j file systems. *)
Budget(b) ==
    /\ b \in [0 .. Len(Mounts) -> Nat]
    /\ \A i, j \in 0 .. Len(Mounts) : i < j => b[i] <= b[j]
    /\ \A j \in 1 .. Len(Mounts), i \in 0 .. Len(Mounts) : i < j =>
          \A d \in UmountTime, w \in RpcWait(Mounts[j]) : b[i] + d + w <= b[j]
    /\ \A d \in UmountTime : d + b[Len(Mounts)] < dev_timeout

(* What the shutdown needs of its surroundings to finish before the device fires:
   the driver takes the configured time-out and every refresh; the mail, started Late
   seconds after the last refresh, and umount_all(), which does not refresh, each fit
   into that time-out, and so does a second of sleep. *)
GoodSetup ==
    /\ Accepts(dev_timeout) /\ ~WriteMayFail /\ dev_timeout > 1
    /\ \A d \in MailTime : Late + d < dev_timeout
    /\ \E b : Budget(b)

(* Unless it is a hard reset, and until umount_all() is done, the device is refreshed
   in time: it is fresh wherever it was refreshed last and no time has passed since, and
   umount_all() keeps to its time. *)
Running == errorcode # ERESET /\ ~synced /\ pc \notin {"exited", "killed"}

FreshAt == {"nap", "signals", "stop", "read", "kill", "cont", "record", "mnt_off"}

Fresh(b) ==
    armed => /\ watchdog_fd /\ margin = dev_timeout /\ timeout_used = dev_timeout
             /\ pc = "begin" => age <= Late
             /\ pc \in FreshAt => age = 0
             /\ pc \in {"umount", "mtab"} =>
                   age + (IF walk = 0 THEN 0 ELSE b[Pos(table[walk])]) < dev_timeout

Timely(b) ==
    Running => /\ machine = "up" /\ Fresh(b)
               /\ pc \notin {"reboot", "wait", "autoboot", "panic", "close"}

-----------------------------------------------------------------------------
(* The device and the mount table; see KeepAlive and Umount. *)

(* The margin after set_watchdog_timeout() is one the driver accepts; it is the
   one asked for, if the driver accepts that. *)
LEMMA MarginProperties ==
  ASSUME NEW t \in Nat, NEW m \in MinTimeout .. MaxTimeout
  PROVE  /\ MarginAfter(t, m) \in MinTimeout .. MaxTimeout
         /\ Accepts(t) => MarginAfter(t, m) = t
<1>1. \A v \in Taken(t) : v \in Int /\ Accepts(v) /\ t <= v
  BY DEF Taken, try_values
<1>2. CASE Taken(t) = {}
  <2>1. ~Accepts(t)
    BY <1>2 DEF Taken
  <2> QED
    BY <1>2, <2>1 DEF MarginAfter
<1>3. CASE Taken(t) # {}
  <2>1. \E x \in Taken(t) : \A y \in Taken(t) : x <= y
    <3>1. CASE t \in Taken(t)
      BY <1>1, <3>1
    <3>2. CASE t \notin Taken(t)
      <4>1. Taken(t) \subseteq {3, 5, 10}
        BY <3>2 DEF Taken, try_values
      <4>2. CASE 3 \in Taken(t)
        BY <4>1, <4>2
      <4>3. CASE 3 \notin Taken(t) /\ 5 \in Taken(t)
        BY <4>1, <4>3
      <4>4. CASE 3 \notin Taken(t) /\ 5 \notin Taken(t)
        BY <4>1, <4>4, <1>3
      <4> QED
        BY <4>2, <4>3, <4>4
    <3> QED
      BY <3>1, <3>2
  <2>2. Smallest(Taken(t)) \in Taken(t) /\ \A y \in Taken(t) : Smallest(Taken(t)) <= y
    BY <2>1 DEF Smallest
  <2>3. MarginAfter(t, m) = Smallest(Taken(t))
    BY <1>3 DEF MarginAfter
  <2>4. Accepts(t) => t \in Taken(t)
    BY DEF Taken
  <2> QED
    BY <1>1, <2>2, <2>3, <2>4 DEF Accepts
<1> QED
  BY <1>2, <1>3

(* What keep_alive() changes. *)
LEMMA KeepAliveEffect ==
  ASSUME DeviceTypeOK, NEW code, keep_alive(code)
  PROVE  /\ DeviceTypeOK'
         /\ UNCHANGED <<watchdog_fd, timeout_used, Refresh_using_ioctl, armed, machine>>
<1>1. UNCHANGED <<watchdog_fd, timeout_used, Refresh_using_ioctl, armed, machine>>
  BY DEF keep_alive
<1>2. margin' \in MinTimeout .. MaxTimeout /\ age' \in 0 .. margin'
  <2>1. CASE UNCHANGED <<margin, age>>
    BY <2>1 DEF DeviceTypeOK
  <2>2. CASE age' = 0 /\ (UNCHANGED margin \/ (Accepts(timeout_used) /\ margin' = timeout_used))
    BY <2>2, DriverAssumption DEF DeviceTypeOK, Accepts
  <2> QED
    BY <2>1, <2>2 DEF keep_alive
<1> QED
  BY <1>1, <1>2 DEF DeviceTypeOK

(* What passing time changes. *)
LEMMA ElapseType ==
  ASSUME DeviceTypeOK, NEW d \in Nat, Elapse(d), UNCHANGED <<watchdog_fd, wdStatic>>
  PROVE  DeviceTypeOK'
<1>1. age' \in 0 .. margin'
  BY DriverAssumption DEF DeviceTypeOK, Elapse
<1> QED
  BY <1>1 DEF DeviceTypeOK, Elapse, wdStatic

(* Seconds pass, for the device and for the processes that got SIGTERM. *)
LEMMA PassType ==
  ASSUME TypeOK, NEW d \in Nat, Pass(d), UNCHANGED <<watchdog_fd, wdStatic>>
  PROVE  /\ DeviceTypeOK'
         /\ termAge' \in [Proc -> {Never} \cup 0 .. sigterm_delay]
         /\ \A p \in Proc : termAge[p] # Never =>
               /\ termAge'[p] # Never
               /\ termAge'[p] = sigterm_delay \/ termAge'[p] = termAge[p] + d
         /\ \A p \in Proc : termAge[p] = Never => termAge'[p] = Never
<1>1. DeviceTypeOK'
  BY ElapseType DEF Pass, TypeOK
<1>2. /\ termAge' = Older(d) /\ sigterm_delay \in Nat
      /\ termAge \in [Proc -> {Never} \cup 0 .. sigterm_delay]
  BY TimeAssumption DEF Pass, TypeOK
<1> QED
  BY <1>1, <1>2 DEF Older, Never

LEMMA MountFacts ==
  /\ DOMAIN Mounts = 1 .. Len(Mounts) /\ Len(Mounts) \in Nat /\ Len(Mounts) > 0
  /\ \A k \in 1 .. Len(Mounts) : Mounts[k] \in Fs /\ Pos(Mounts[k]) = k
  /\ \A n \in Fs : Pos(n) \in 1 .. Len(Mounts) /\ Mounts[Pos(n)] = n
<1>1. DOMAIN Mounts = 1 .. Len(Mounts) /\ Len(Mounts) \in Nat /\ Len(Mounts) > 0
  BY MountAssumption
<1>2. ASSUME NEW k \in 1 .. Len(Mounts) PROVE Pos(Mounts[k]) = k /\ Mounts[k] \in Fs
  BY <1>1, MountAssumption DEF Pos, Fs
<1>3. ASSUME NEW n \in Fs PROVE Pos(n) \in 1 .. Len(Mounts) /\ Mounts[Pos(n)] = n
  BY <1>1, <1>2 DEF Fs
<1> QED
  BY <1>1, <1>2, <1>3

(* read_mounttable() leaves a part of the file systems in their order. *)
LEMMA TableRead ==
  ASSUME UmountTypeOK, read_mounttable
  PROVE  UmountTypeOK' /\ Ordered' /\ walk' = Len(table') /\ UNCHANGED <<mounted, refused, alarm>>
<1>1. PICK n \in 0 .. Len(Mounts) : \E e \in Picks(n) : table' = [k \in 1 .. n |-> Mounts[e[k]]]
  <2>1. table' \in my_getmntent
    BY DEF read_mounttable
  <2>2. CASE MountFaults
    BY <2>1, <2>2 DEF my_getmntent
  <2>3. CASE ~MountFaults
    <3>1. table' = Mounts
      BY <2>1, <2>3 DEF my_getmntent
    <3> DEFINE e == [k \in 1 .. Len(Mounts) |-> k]
    <3>2. e \in Picks(Len(Mounts))
      BY MountFacts DEF Picks
    <3>3. Mounts = [k \in 1 .. Len(Mounts) |-> Mounts[e[k]]]
      BY MountAssumption, MountFacts
    <3> QED
      BY <3>1, <3>2, <3>3, MountFacts
  <2> QED
    BY <2>2, <2>3
<1>p. PICK e \in Picks(n) : table' = [k \in 1 .. n |-> Mounts[e[k]]]
  BY <1>1
<1>2. /\ n \in Nat /\ e \in [1 .. n -> 1 .. Len(Mounts)]
      /\ \A i, j \in 1 .. n : i < j => e[i] < e[j]
  BY MountFacts DEF Picks
<1>3. table' \in [1 .. n -> Fs]
  BY <1>p, <1>2, MountFacts
<1>4. table' \in Seq(Fs) /\ Len(table') = n
  BY <1>2, <1>3, SeqDef
<1>5. Ordered'
  <2>1. \A k \in 1 .. n : Pos(table'[k]) = e[k]
    BY <1>p, <1>2, MountFacts
  <2> QED
    BY <1>2, <1>4, <2>1 DEF Ordered
<1>6. UmountTypeOK'
  BY <1>2, <1>4 DEF UmountTypeOK, read_mounttable
<1> QED
  BY <1>5, <1>6 DEF read_mounttable

(* The other operations of umount_all() *)
LEMMA UmountStep ==
  ASSUME UmountTypeOK, Ordered,
         (\E update \in BOOLEAN : umount_one(update)) \/ update_mtab \/ ifdown
  PROVE  UmountTypeOK' /\ Ordered' /\ UNCHANGED table
<1>1. UNCHANGED table
  BY DEF umount_one, update_mtab, ifdown
<1>2. Ordered'
  BY <1>1 DEF Ordered
<1>3. ASSUME NEW update \in BOOLEAN, umount_one(update) PROVE UmountTypeOK'
  <2>1. CurrentEntry \in Fs
    BY <1>3 DEF umount_one, CurrentEntry, UmountTypeOK
  <2>2. mounted' \subseteq Fs /\ refused' \subseteq Fs
    BY <1>3, <2>1 DEF umount_one, UmountSucceeds, UmountFails, UmountTypeOK
  <2>3. walk' \in 0 .. Len(table')
    BY <1>3 DEF umount_one, UmountTypeOK
  <2>4. umount_nomtab' \in BOOLEAN /\ UNCHANGED <<mtab, table, lock, alarm, up>>
    BY <1>3 DEF umount_one
  <2> QED
    BY <2>2, <2>3, <2>4 DEF UmountTypeOK
<1>4. ASSUME update_mtab PROVE UmountTypeOK'
  <2>1. lock' \in BOOLEAN /\ alarm' \in BOOLEAN
    BY <1>4 DEF update_mtab, UmountTypeOK
  <2> QED
    BY <1>4, <2>1 DEF update_mtab, UmountTypeOK
<1>5. ASSUME ifdown PROVE UmountTypeOK'
  <2>1. up' = {lo} \/ up' = up
    BY <1>5 DEF ifdown
  <2>2. up' \subseteq Ifaces /\ lo \in up'
    BY <2>1, MountAssumption DEF UmountTypeOK
  <2> QED
    BY <1>5, <2>2 DEF ifdown, UmountTypeOK
<1> QED
  BY <1>1, <1>2, <1>3, <1>4, <1>5

-----------------------------------------------------------------------------
(* Type correctness. *)

LEMMA NextCases ==
  ASSUME Next
  PROVE  \/ Pat \/ Nap \/ SendMail \/ StopInit \/ StopAll \/ ReadProc \/ ReadProcFails \/ Skip
         \/ Kill \/ KillSelf \/ AllSignalled \/ ContinueAll \/ Record \/ MntOff \/ NoMountTable
         \/ UmountNext \/ UmountDies \/ UpdateMtab \/ UpdateMtabDies \/ UmountDone \/ HardReset
         \/ SetShort \/ WaitForReset \/ Reboot \/ Panic \/ CloseAll \/ Fork \/ InitStarts \/ Exit \/ Tick
BY DEF Next, do_shutdown, killall5

LEMMA Durations ==
  /\ \A d \in MailTime \cup UmountTime \cup RpcTime \cup {0, 1} : d \in Nat
  /\ \A d \in UmountTime, n \in Fs : \A w \in RpcWait(n) : d + w \in Nat
  /\ \A d \in Slept(4 * dev_timeout) : d \in Nat
<1>1. \A d \in MailTime \cup UmountTime \cup RpcTime \cup {0, 1} : d \in Nat
  BY TimeAssumption
<1>2. \A n \in Fs : \A w \in RpcWait(n) : w \in Nat
  BY <1>1 DEF RpcWait
<1>3. \A d \in Slept(4 * dev_timeout) : d \in Nat
  BY DeviceAssumption DEF Slept
<1> QED
  BY <1>1, <1>2, <1>3

(* close() and the end of the process *)
LEMMA CloseType ==
  ASSUME DeviceTypeOK, close_watchdog \/ abandon_watchdog
  PROVE  DeviceTypeOK'
<1>1. UNCHANGED <<timeout_used, Refresh_using_ioctl, margin, machine>> /\ watchdog_fd' = FALSE
  BY DEF close_watchdog, abandon_watchdog, wdStatic, device
<1>2. armed' \in BOOLEAN
  BY DEF close_watchdog, abandon_watchdog, device, DeviceTypeOK
<1>3. age' = 0 \/ age' = age
  BY DEF close_watchdog, abandon_watchdog, device
<1>4. margin' \in MinTimeout .. MaxTimeout /\ age' \in 0 .. margin'
  BY <1>1, <1>3, DriverAssumption DEF DeviceTypeOK
<1> QED
  BY <1>1, <1>2, <1>4 DEF DeviceTypeOK

LEMMA TypeInit ==
  ASSUME Init
  PROVE  TypeOK
<1>1. DeviceTypeOK
  <2>1. watchdog_fd \in BOOLEAN /\ armed \in BOOLEAN /\ machine = "up"
    BY DEF Init
  <2>2. Refresh_using_ioctl \in BOOLEAN
    BY DeviceAssumption DEF Init, RefreshModes
  <2>3. DefaultTimeout \in MinTimeout .. MaxTimeout
    BY DriverAssumption
  <2>4. dev_timeout > 0 => MarginAfter(dev_timeout, DefaultTimeout) \in MinTimeout .. MaxTimeout
    BY <2>3, MarginProperties, DeviceAssumption
  <2>5. margin \in MinTimeout .. MaxTimeout /\ timeout_used \in Nat
    BY <2>3, <2>4, DeviceAssumption DEF Init, TIMER_MARGIN
  <2>6. age \in Nat /\ age <= margin
    BY <2>5, TimeAssumption, DriverAssumption DEF Init
  <2> QED
    BY <2>1, <2>2, <2>5, <2>6, DriverAssumption DEF DeviceTypeOK
<1>2. UmountTypeOK
  <2>1. table \in Seq(Fs) /\ walk \in 0 .. Len(table)
    BY DEF Init, UmountInit
  <2>2. umount_nomtab \in BOOLEAN /\ lock \in BOOLEAN /\ alarm \in BOOLEAN
    BY DEF Init, UmountInit
  <2> QED
    BY <2>1, <2>2, MountAssumption DEF Init, UmountInit, UmountTypeOK
<1>3. termAge \in [Proc -> {Never} \cup 0 .. sigterm_delay]
  BY DEF Init
<1>4. /\ stopped \in BOOLEAN /\ initStopped \in BOOLEAN /\ synced \in BOOLEAN /\ pidfile \in BOOLEAN
      /\ listed \in BOOLEAN
  BY DEF Init
<1>5. pc = "begin" /\ left = 0 /\ after = "begin" /\ round = 0 /\ plist = {} /\ alive \subseteq Proc
  BY DEF Init
<1>6. errorcode \in ErrorCodes /\ daemon_pid \in {0, 1} /\ system = "up"
  BY DEF Init
<1> QED
  BY <1>1, <1>2, <1>3, <1>4, <1>5, <1>6 DEF TypeOK

LEMMA TypeStep ==
  ASSUME TypeOK, Ordered, [Next]_vars
  PROVE  TypeOK'
<1> USE DEF devVars, wdStatic, sleeping, procs, files, reason, At, SafeSleep
<1>d. UNCHANGED devVars => DeviceTypeOK'
  BY DEF TypeOK, DeviceTypeOK
<1>u. UNCHANGED umountVars => UmountTypeOK'
  BY DEF TypeOK, UmountTypeOK, umountVars
<1>g. Grace \in Nat
  BY TimeAssumption DEF Grace
<1>1. CASE Pat
  <2>1. DeviceTypeOK'
    BY <1>1, KeepAliveEffect DEF Pat, TypeOK
  <2> QED
    BY <1>1, <1>u, <2>1 DEF Pat, TypeOK
<1>2. CASE Nap
  <2>1. DeviceTypeOK' /\ termAge' \in [Proc -> {Never} \cup 0 .. sigterm_delay]
    BY <1>2, PassType DEF Nap
  <2> QED
    BY <1>2, <1>u, <2>1 DEF Nap, TypeOK
<1>3. CASE SendMail
  <2>1. DeviceTypeOK' /\ termAge' \in [Proc -> {Never} \cup 0 .. sigterm_delay]
    BY <1>3, PassType, Durations DEF SendMail
  <2> QED
    BY <1>3, <1>u, <2>1 DEF SendMail, TypeOK
<1>4. CASE StopInit \/ StopAll \/ AllSignalled
  <2>1. CASE StopInit
    BY <2>1, <1>d, <1>u DEF StopInit, TypeOK
  <2>2. CASE StopAll
    BY <2>2, <1>d, <1>u DEF StopAll, TypeOK
  <2>3. CASE AllSignalled
    BY <2>3, <1>d, <1>u DEF AllSignalled, TypeOK
  <2> QED
    BY <1>4, <2>1, <2>2, <2>3
<1>5. CASE ReadProc
  BY <1>5, <1>d, <1>u DEF ReadProc, TypeOK
<1>6. CASE ReadProcFails
  BY <1>6, <1>d, <1>u DEF ReadProcFails, TypeOK
<1>7. CASE Skip
  BY <1>7, <1>d, <1>u DEF Skip, TypeOK
<1>8. CASE Kill
  <2>1. termAge' \in [Proc -> {Never} \cup 0 .. sigterm_delay] /\ alive' \subseteq Proc
    BY <1>8, TimeAssumption DEF Kill, TypeOK
  <2>2. plist' \subseteq Proc \cup {Self}
    BY <1>8 DEF Kill, TypeOK
  <2> QED
    BY <1>8, <1>d, <1>u, <2>1, <2>2 DEF Kill, TypeOK
<1>9. CASE KillSelf
  <2>1. DeviceTypeOK' /\ pc' \in {"kill", "killed"} /\ plist' \subseteq Proc \cup {Self}
    BY <1>9, <1>d, CloseType DEF KillSelf, TypeOK
  <2> QED
    BY <1>9, <1>u, <2>1 DEF KillSelf, TypeOK
<1>10. CASE ContinueAll
  <2>1. pc' = "pat" /\ left' \in Nat /\ after' \in {"stop", "record"} /\ plist' = {} /\ stopped' = FALSE
    BY <1>10, <1>g DEF ContinueAll
  <2>2. round' \in 0 .. 4
    BY <1>10 DEF ContinueAll, TypeOK
  <2> QED
    BY <1>10, <1>d, <1>u, <2>1, <2>2 DEF ContinueAll, TypeOK
<1>11. CASE Record
  BY <1>11, <1>d, <1>u DEF Record, TypeOK
<1>12. CASE MntOff
  <2>1. DeviceTypeOK' /\ termAge' \in [Proc -> {Never} \cup 0 .. sigterm_delay]
    BY <1>12, PassType, Durations DEF MntOff
  <2>2. UmountTypeOK'
    BY <1>12, TableRead DEF MntOff, TypeOK
  <2> QED
    BY <1>12, <2>1, <2>2 DEF MntOff, TypeOK
<1>13. CASE Die
  <2>1. DeviceTypeOK'
    BY <1>13, CloseType DEF Die, TypeOK
  <2> QED
    BY <1>13, <1>u, <2>1 DEF Die, TypeOK
<1>14. CASE UmountNext
  <2>1. CurrentEntry \in Fs
    BY <1>14 DEF UmountNext, CurrentEntry, TypeOK, UmountTypeOK
  <2>2. PICK d \in UmountTime, w \in RpcWait(CurrentEntry) : Pass(d + w)
    BY <1>14 DEF UmountNext
  <2>3. DeviceTypeOK' /\ termAge' \in [Proc -> {Never} \cup 0 .. sigterm_delay]
    BY <1>14, <2>1, <2>2, PassType, Durations DEF UmountNext
  <2>4. UmountTypeOK'
    BY <1>14, UmountStep DEF UmountNext, TypeOK
  <2>5. pc' \in {"umount", "mtab"}
    BY <1>14 DEF UmountNext
  <2> QED
    BY <1>14, <2>3, <2>4, <2>5 DEF UmountNext, TypeOK
<1>15. CASE UpdateMtab
  <2>1. UmountTypeOK'
    BY <1>15, UmountStep DEF UpdateMtab, TypeOK
  <2> QED
    BY <1>15, <1>d, <2>1 DEF UpdateMtab, TypeOK
<1>16. CASE UmountDone
  <2>1. UmountTypeOK'
    BY <1>16, UmountStep DEF UmountDone, TypeOK
  <2> QED
    BY <1>16, <1>d, <2>1 DEF UmountDone, TypeOK
<1>17. CASE HardReset
  <2>1. DeviceTypeOK' /\ termAge' \in [Proc -> {Never} \cup 0 .. sigterm_delay]
    BY <1>17, PassType DEF HardReset
  <2> QED
    BY <1>17, <1>u, <2>1 DEF HardReset, TypeOK
<1>18. CASE SetShort
  <2>1. MarginAfter(1, margin) \in MinTimeout .. MaxTimeout
    BY MarginProperties DEF TypeOK, DeviceTypeOK
  <2>2. margin' \in MinTimeout .. MaxTimeout /\ (age' = 0 \/ (age' = age /\ margin' = margin))
    BY <1>18, <2>1 DEF SetShort, set_watchdog_timeout, MarginAfter
  <2>3. DeviceTypeOK'
    BY <1>18, <2>2, DriverAssumption DEF SetShort, set_watchdog_timeout, TypeOK, DeviceTypeOK
  <2> QED
    BY <1>18, <1>u, <2>3 DEF SetShort, TypeOK
<1>19. ASSUME NEW l \in {"autoboot", "close"}, LongSleep(l) PROVE TypeOK'
  <2>1. DeviceTypeOK' /\ termAge' \in [Proc -> {Never} \cup 0 .. sigterm_delay]
    BY <1>19, PassType, Durations DEF LongSleep
  <2>2. UmountTypeOK'
    BY <1>19 DEF LongSleep, TypeOK, UmountTypeOK
  <2> QED
    BY <1>19, <2>1, <2>2 DEF LongSleep, TypeOK
<1>20. CASE Reboot
  <2>1. system' \in {"up", "rebooted", "off", "halted"}
    BY <1>20, GoingAssumption DEF Reboot, TypeOK
  <2> QED
    BY <1>20, <1>d, <1>u, <2>1 DEF Reboot, TypeOK
<1>21. CASE CloseAll
  <2>1. DeviceTypeOK'
    BY <1>21, CloseType DEF CloseAll, TypeOK
  <2> QED
    BY <1>21, <1>u, <2>1 DEF CloseAll, TypeOK
<1>22. CASE Fork \/ InitStarts
  <2>1. termAge' \in [Proc -> {Never} \cup 0 .. sigterm_delay] /\ alive' \subseteq Proc
    BY <1>22 DEF Fork, InitStarts, TypeOK
  <2> QED
    BY <1>22, <1>d, <1>u, <2>1 DEF Fork, InitStarts, TypeOK
<1>23. CASE Exit
  BY <1>23, <1>d, <1>u DEF Exit, TypeOK
<1>24. CASE Tick
  <2>1. DeviceTypeOK' /\ termAge' \in [Proc -> {Never} \cup 0 .. sigterm_delay]
    BY <1>24, PassType DEF Tick
  <2> QED
    BY <1>24, <1>u, <2>1 DEF Tick, TypeOK
<1>25. CASE UNCHANGED vars
  BY <1>25, <1>d, <1>u DEF vars, TypeOK
<1> QED
  BY NextCases, <1>1, <1>2, <1>3, <1>4, <1>5, <1>6, <1>7, <1>8, <1>9, <1>10, <1>11, <1>12,
     <1>13, <1>14, <1>15, <1>16, <1>17, <1>18, <1>19, <1>20, <1>21, <1>22, <1>23, <1>24, <1>25
     DEF NoMountTable, UmountDies, UpdateMtabDies, WaitForReset, Panic

(* The mount table stays in order: only read_mounttable() writes it. *)
LEMMA OrderedStep ==
  ASSUME TypeOK, Ordered, [Next]_vars
  PROVE  Ordered'
<1>1. CASE MntOff
  BY <1>1, TableRead DEF MntOff, TypeOK
<1>2. CASE ~MntOff
  <2>1. UNCHANGED table
    BY <1>2, NextCases DEF Pat, Nap, SendMail, StopInit, StopAll, ReadProc, ReadProcFails, Skip,
       Kill, KillSelf, AllSignalled, ContinueAll, Record, NoMountTable, Die, UmountNext,
       umount_one, UpdateMtab, update_mtab, UmountDies, UpdateMtabDies, UmountDone, ifdown, HardReset,
       SetShort, WaitForReset, Panic, LongSleep, Reboot, CloseAll, Fork, InitStarts, Exit, Tick,
       vars, files, umountVars
  <2> QED
    BY <2>1 DEF Ordered
<1> QED
  BY <1>1, <1>2

(* do_shutdown() keeps every variable in its type, whatever fails. *)
THEOREM TypeCorrect == Spec => []TypeOK
<1>1. Init => TypeOK /\ Ordered
  <2>1. ASSUME Init PROVE Len(table) = 0
    BY <2>1 DEF Init, UmountInit
  <2> QED
    BY <2>1, TypeInit DEF Ordered
<1>2. TypeOK /\ Ordered /\ [Next]_vars => TypeOK' /\ Ordered'
  BY TypeStep, OrderedStep
<1> QED
  BY <1>1, <1>2, PTL DEF Spec

-----------------------------------------------------------------------------
(* killall5() *)

(* The steps outside of killall5() do not concern the processes. *)
LEMMA Elsewhere ==
  ASSUME TypeOK,
         \/ Pat \/ Nap \/ SendMail \/ Record \/ MntOff \/ NoMountTable \/ UmountNext \/ UmountDies
         \/ UpdateMtab \/ UpdateMtabDies \/ UmountDone \/ HardReset \/ SetShort \/ WaitForReset
         \/ Reboot \/ Panic \/ CloseAll \/ Tick
  PROVE  /\ UNCHANGED <<round, plist, alive, stopped, initStopped, listed, daemon_pid>>
         /\ pc \notin {"read", "kill"} /\ pc' \notin {"read", "kill"}
         /\ pc' = "killed" => pc = "killed"
<1> USE DEF sleeping, procs, files, reason, At, SafeSleep
<1>1. CASE Pat
  BY <1>1 DEF Pat, TypeOK
<1>2. CASE Nap \/ SendMail \/ Record \/ MntOff
  BY <1>2 DEF Nap, SendMail, Record, MntOff
<1>3. CASE UmountNext \/ UpdateMtab \/ UmountDone
  BY <1>3 DEF UmountNext, UpdateMtab, UmountDone
<1>4. CASE NoMountTable \/ UmountDies \/ UpdateMtabDies \/ CloseAll
  BY <1>4 DEF NoMountTable, UmountDies, UpdateMtabDies, Die, CloseAll
<1>5. CASE HardReset \/ SetShort \/ WaitForReset \/ Panic
  BY <1>5 DEF HardReset, SetShort, WaitForReset, Panic, LongSleep
<1>6. CASE Reboot \/ Tick
  BY <1>6 DEF Reboot, Tick
<1> QED
  BY <1>1, <1>2, <1>3, <1>4, <1>5, <1>6

LEMMA KillStep ==
  ASSUME KillInv, TypeOK', [Next]_vars
  PROVE  KillInv'
<1> USE DEF sleeping, procs, files, reason, At, SafeSleep
<1>0. TypeOK /\ InitHeld /\ AllStopped /\ ListedDies
  BY DEF KillInv
<1> SUFFICES InitHeld' /\ AllStopped' /\ ListedDies'
  BY DEF KillInv
<1> DEFINE Good == InitHeld' /\ AllStopped' /\ ListedDies'
<1>e. CASE \/ Pat \/ Nap \/ SendMail \/ Record \/ MntOff \/ NoMountTable \/ UmountNext \/ UmountDies
           \/ UpdateMtab \/ UpdateMtabDies \/ UmountDone \/ HardReset \/ SetShort \/ WaitForReset
           \/ Reboot \/ Panic \/ CloseAll \/ Tick
  <2>1. /\ UNCHANGED <<round, plist, alive, stopped, initStopped, listed, daemon_pid>>
        /\ pc \notin {"read", "kill"} /\ pc' \notin {"read", "kill"}
        /\ pc' = "killed" => pc = "killed"
    BY <1>0, <1>e, Elsewhere
  <2>2. pc = "killed" => pc' = "killed"
    BY <1>e DEF Pat, Nap, SendMail, Record, MntOff, NoMountTable, UmountNext, UpdateMtab,
       UmountDies, UpdateMtabDies, UmountDone, HardReset, SetShort, WaitForReset, Reboot, Panic, CloseAll,
       Tick
  <2> QED
    BY <1>0, <2>1, <2>2 DEF InitHeld, AllStopped, ListedDies
<1>1. CASE StopInit
  <2>1. /\ UNCHANGED <<plist, alive, stopped, listed>> /\ initStopped' = TRUE
        /\ pc = "signals" /\ pc' = "stop"
    BY <1>1 DEF StopInit
  <2> QED
    BY <1>0, <2>1 DEF InitHeld, AllStopped, ListedDies
<1>2. CASE StopAll
  <2>1. /\ UNCHANGED <<round, plist, alive, initStopped, listed>> /\ stopped' = TRUE
        /\ pc = "stop" /\ pc' = "read"
    BY <1>2 DEF StopAll
  <2> QED
    BY <1>0, <2>1 DEF InitHeld, AllStopped, ListedDies
<1>3. CASE ReadProc
  <2>1. /\ UNCHANGED <<round, alive, stopped, initStopped>> /\ plist' = alive \cup {Self}
        /\ (listed' => listed \/ round >= 3) /\ pc = "read" /\ pc' = "kill"
    BY <1>3 DEF ReadProc
  <2>2. round \in 0 .. 4
    BY <1>0 DEF TypeOK
  <2>3. InitHeld' /\ AllStopped'
    BY <1>0, <2>1, <2>2 DEF InitHeld, AllStopped
  <2>4. ListedDies'
    BY <1>0, <2>1, <2>2 DEF ListedDies
  <2> QED
    BY <2>3, <2>4
<1>4. CASE ReadProcFails
  <2>1. /\ UNCHANGED <<round, alive, stopped, initStopped, listed>>
        /\ pc = "read" /\ pc' = "cont"
    BY <1>4 DEF ReadProcFails
  <2> QED
    BY <1>0, <2>1 DEF InitHeld, AllStopped, ListedDies
<1>5. CASE Skip
  <2>1. UNCHANGED <<pc, round, alive, stopped, initStopped, listed>>
    BY <1>5 DEF Skip
  <2>2. PICK p \in plist : p \in Sess \cup {Self} /\ plist' = plist \ {p}
    BY <1>5 DEF Skip, Spared
  <2>3. alive \subseteq Sess \cup plist => alive' \subseteq Sess \cup plist'
    BY <1>0, <2>1, <2>2, ProcAssumption DEF TypeOK
  <2> QED
    BY <1>0, <2>1, <2>3 DEF InitHeld, AllStopped, ListedDies
<1>6. CASE Kill
  <2>1. UNCHANGED <<pc, round, stopped, initStopped, listed>> /\ pc = "kill" /\ round \in 0 .. 4
    BY <1>0, <1>6 DEF Kill, TypeOK
  <2>2. alive' \subseteq alive
    BY <1>6 DEF Kill
  <2>3. round >= 3 /\ alive \subseteq Sess \cup plist => alive' \subseteq Sess \cup plist'
    BY <1>6, <2>1 DEF Kill, sig
  <2>4. InitHeld' /\ AllStopped'
    BY <1>0, <2>1 DEF InitHeld, AllStopped
  <2>5. ListedDies'
    BY <1>0, <2>1, <2>2, <2>3 DEF ListedDies
  <2> QED
    BY <2>4, <2>5
<1>7. CASE KillSelf
  <2>1. /\ UNCHANGED <<round, alive, stopped, initStopped, listed>> /\ plist' = plist \ {Self}
        /\ pc = "kill" /\ pc' \in {"kill", "killed"}
    BY <1>7 DEF KillSelf
  <2>2. alive \subseteq Sess \cup plist => alive' \subseteq Sess \cup plist'
    BY <1>0, <2>1, ProcAssumption DEF TypeOK
  <2> QED
    BY <1>0, <2>1, <2>2 DEF InitHeld, AllStopped, ListedDies
<1>8. CASE AllSignalled
  <2>1. /\ UNCHANGED <<round, alive, stopped, initStopped, listed>> /\ plist = {}
        /\ pc = "kill" /\ pc' = "cont"
    BY <1>8 DEF AllSignalled
  <2> QED
    BY <1>0, <2>1 DEF InitHeld, AllStopped, ListedDies
<1>9. CASE ContinueAll
  <2>1. UNCHANGED <<alive, initStopped, listed>> /\ pc = "cont" /\ pc' = "pat" /\ round >= 1
    BY <1>9 DEF ContinueAll
  <2> QED
    BY <1>0, <2>1 DEF InitHeld, AllStopped, ListedDies
<1>10. CASE Fork
  <2>1. UNCHANGED <<pc, round, plist, stopped, initStopped, listed>> /\ ~stopped
    BY <1>10 DEF Fork
  <2>2. alive \subseteq Sess => alive' \subseteq Sess
    BY <1>10 DEF Fork
  <2> QED
    BY <1>0, <2>1, <2>2 DEF InitHeld, AllStopped, ListedDies
<1>11. CASE InitStarts
  <2>1. UNCHANGED <<pc, round, plist, stopped, initStopped, listed>> /\ ~initStopped
    BY <1>11 DEF InitStarts
  <2> QED
    BY <1>0, <2>1 DEF InitHeld, AllStopped, ListedDies
<1>12. CASE Exit
  <2>1. UNCHANGED <<pc, round, plist, stopped, initStopped, listed>> /\ alive' \subseteq alive
    BY <1>12 DEF Exit
  <2> QED
    BY <1>0, <2>1 DEF InitHeld, AllStopped, ListedDies
<1>13. CASE UNCHANGED vars
  BY <1>0, <1>13 DEF vars, InitHeld, AllStopped, ListedDies
<1> QED
  BY NextCases, <1>e, <1>1, <1>2, <1>3, <1>4, <1>5, <1>6, <1>7, <1>8, <1>9, <1>10, <1>11, <1>12,
     <1>13

(* killall5() and try_clean_shutdown(): once the processes could be listed for SIGKILL,
   nobody outside the daemon's session is left for the rest of the shutdown, however
   many processes there were, in whatever order they forked and ended, and however
   often the list could not be read. *)
THEOREM NobodyIsLeft == Spec => []NobodyLeft
<1>1. Init => KillInv
  <2>1. Init => TypeOK
    BY TypeInit
  <2>2. Init => round = 0 /\ ~listed /\ pc = "begin"
    BY DEF Init
  <2> QED
    BY <2>1, <2>2 DEF KillInv, InitHeld, AllStopped, ListedDies
<1>2. KillInv /\ TypeOK' /\ [Next]_vars => KillInv'
  BY KillStep
<1>3. KillInv => NobodyLeft
  BY DEF KillInv, ListedDies, NobodyLeft
<1> QED
  BY <1>1, <1>2, <1>3, TypeCorrect, PTL DEF Spec

-----------------------------------------------------------------------------
(* The time between SIGTERM and SIGKILL. *)

LEMMA GraceStep ==
  ASSUME GraceInv, TypeOK', [Next]_vars
  PROVE  GraceInv'
<1> USE DEF sleeping, procs, files, reason, At, SafeSleep
<1>0. TypeOK /\ Aged
  BY DEF GraceInv
<1>a. /\ round \in 0 .. 4 /\ sigterm_delay \in Nat /\ left \in Nat
      /\ termAge \in [Proc -> {Never} \cup 0 .. sigterm_delay]
      /\ left' \in Nat /\ termAge' \in [Proc -> {Never} \cup 0 .. sigterm_delay]
  BY <1>0, TimeAssumption DEF TypeOK
<1> SUFFICES Aged'
  BY DEF GraceInv
<1>m. PICK m \in Nat : StillToSleep = m
  BY <1>a DEF StillToSleep
<1>n. PICK n \in Nat : StillToSleep' = n
  BY <1>a DEF StillToSleep
(* Seconds pass, and the sleep gets shorter by as many at most. *)
<1>p. ASSUME NEW d \in Nat, Pass(d), UNCHANGED <<watchdog_fd, wdStatic, round>>, n + d >= m
      PROVE  Aged'
  <2>1. /\ \A p \in Proc : termAge[p] # Never => termAge'[p] \in {sigterm_delay, termAge[p] + d}
        /\ \A p \in Proc : termAge[p] = Never => termAge'[p] = Never
    BY <1>0, <1>p, PassType
  <2> SUFFICES ASSUME round >= 3, NEW p \in Proc, termAge'[p] # Never
               PROVE  termAge'[p] + n >= sigterm_delay - 1
    BY <1>n, <1>p DEF Aged
  <2>2. termAge[p] # Never
    BY <2>1
  <2>3. termAge[p] \in Nat /\ termAge'[p] \in Nat
    BY <1>a, <2>2 DEF Never
  <2>4. termAge[p] + m >= sigterm_delay - 1
    BY <1>m, <1>0, <2>2 DEF Aged
  <2>5. CASE termAge'[p] = sigterm_delay
    BY <1>a, <1>p, <2>5
  <2>6. CASE termAge'[p] = termAge[p] + d
    BY <1>a, <1>p, <2>3, <2>4, <2>6
  <2> QED
    BY <2>1, <2>2, <2>5, <2>6
(* Nothing happens to the ages, and the sleep gets no shorter. *)
<1>f. ASSUME UNCHANGED <<termAge, round>>, n >= m PROVE Aged'
  <2> SUFFICES ASSUME round >= 3, NEW p \in Proc, termAge[p] # Never
               PROVE  termAge[p] + n >= sigterm_delay - 1
    BY <1>n, <1>f DEF Aged
  <2>1. termAge[p] \in Nat /\ termAge[p] + m >= sigterm_delay - 1
    BY <1>m, <1>0, <1>a DEF Aged, Never
  <2> QED
    BY <1>a, <1>m, <1>n, <1>f, <2>1
<1>1. CASE Pat
  <2>1. UNCHANGED <<termAge, round>>
    BY <1>1 DEF Pat
  <2>2. n >= m
    BY <1>m, <1>n, <1>0, <1>1, <1>a DEF Pat, StillToSleep, TypeOK
  <2> QED
    BY <1>f, <2>1, <2>2
<1>2. CASE Nap
  <2>1. Pass(1) /\ UNCHANGED <<watchdog_fd, wdStatic, round>>
    BY <1>2 DEF Nap
  <2>2. n + 1 >= m
    BY <1>m, <1>n, <1>2, <1>a DEF Nap, StillToSleep
  <2> QED
    BY <1>p, <1>m, <1>n, <2>1, <2>2
<1>3. CASE SendMail \/ HardReset
  <2>1. PICK d \in Nat : Pass(d)
    BY <1>3, Durations DEF SendMail, HardReset
  <2>2. UNCHANGED <<watchdog_fd, wdStatic, round>> /\ m = 0
    BY <1>m, <1>n, <1>3 DEF SendMail, HardReset, StillToSleep
  <2> QED
    BY <1>p, <1>m, <1>n, <2>1, <2>2
<1>4. CASE StopInit
  BY <1>4 DEF StopInit, Aged
<1>5. CASE StopAll \/ ReadProc \/ ReadProcFails \/ Skip \/ KillSelf \/ AllSignalled
  <2>1. UNCHANGED <<termAge, round>> /\ m = 0
    BY <1>m, <1>n, <1>5 DEF StopAll, ReadProc, ReadProcFails, Skip, KillSelf, AllSignalled,
       StillToSleep
  <2> QED
    BY <1>f, <1>m, <1>n, <2>1
<1>6. CASE Kill
  <2>1. UNCHANGED round /\ m = 0
    BY <1>m, <1>n, <1>6 DEF Kill, StillToSleep
  <2>2. round >= 3 => UNCHANGED termAge
    BY <1>6, <1>a DEF Kill, sig
  <2>3. CASE round >= 3
    BY <1>f, <1>m, <1>n, <2>1, <2>2, <2>3
  <2>4. CASE ~(round >= 3)
    BY <2>1, <2>4 DEF Aged
  <2> QED
    BY <2>3, <2>4
<1>7. CASE ContinueAll
  <2>1. UNCHANGED termAge /\ m = 0 /\ n = left'
    BY <1>m, <1>n, <1>7 DEF ContinueAll, StillToSleep
  <2>2. CASE round = 1
    BY <1>7, <2>2 DEF ContinueAll, Aged
  <2>3. CASE round = 2
    <3>1. left' = Grace
      BY <1>7, <2>3 DEF ContinueAll
    <3>2. \A p \in Proc : termAge[p] # Never => termAge[p] + Grace >= sigterm_delay - 1
      BY <1>a DEF Grace, Never
    <3> QED
      BY <1>n, <2>1, <3>1, <3>2 DEF Aged
  <2>4. CASE round \in {3, 4}
    BY <1>m, <1>n, <1>0, <1>7, <1>a, <2>1, <2>4 DEF ContinueAll, Aged, Never
  <2> QED
    BY <1>7, <2>2, <2>3, <2>4 DEF ContinueAll
<1>8. CASE \/ Record \/ NoMountTable \/ UmountDies \/ UpdateMtab \/ UpdateMtabDies \/ UmountDone
           \/ SetShort \/ CloseAll
  <2>1. UNCHANGED <<termAge, round>> /\ m = 0
    BY <1>m, <1>8 DEF Record, NoMountTable, UpdateMtab, UmountDies, UpdateMtabDies, Die, UmountDone,
       SetShort, CloseAll, StillToSleep
  <2> QED
    BY <1>f, <1>m, <1>n, <2>1
<1>9. CASE MntOff
  <2>1. PICK d \in UmountTime : Pass(d)
    BY <1>9 DEF MntOff
  <2>2. UNCHANGED <<watchdog_fd, wdStatic, round>> /\ m = 0
    BY <1>m, <1>n, <1>9 DEF MntOff, StillToSleep
  <2> QED
    BY <1>p, <1>m, <1>n, <2>1, <2>2, Durations
<1>10. CASE UmountNext
  <2>1. PICK d \in UmountTime, w \in RpcWait(CurrentEntry) : Pass(d + w)
    BY <1>10 DEF UmountNext
  <2>2. CurrentEntry \in Fs
    BY <1>0, <1>10 DEF UmountNext, CurrentEntry, TypeOK, UmountTypeOK
  <2>3. d + w \in Nat
    BY <2>2, Durations
  <2>4. UNCHANGED <<watchdog_fd, wdStatic, round>> /\ m = 0
    BY <1>m, <1>n, <1>10 DEF UmountNext, StillToSleep
  <2> QED
    BY <1>p, <1>m, <1>n, <2>1, <2>3, <2>4
<1>11. CASE WaitForReset \/ Panic
  <2>1. PICK d \in Nat : Pass(d)
    BY <1>11, Durations DEF WaitForReset, Panic, LongSleep
  <2>2. UNCHANGED <<watchdog_fd, wdStatic, round>> /\ m = 0
    BY <1>m, <1>n, <1>11 DEF WaitForReset, Panic, LongSleep, StillToSleep
  <2> QED
    BY <1>p, <1>m, <1>n, <2>1, <2>2
<1>12. CASE Reboot
  <2>1. UNCHANGED <<termAge, round>> /\ m = 0
    BY <1>m, <1>n, <1>12 DEF Reboot, StillToSleep
  <2> QED
    BY <1>f, <1>m, <1>n, <2>1
<1>13. CASE Fork \/ InitStarts
  <2>1. PICK q \in Proc : termAge' = [termAge EXCEPT ![q] = Never]
    BY <1>0, <1>13 DEF Fork, InitStarts
  <2>2. UNCHANGED <<pc, left, round>>
    BY <1>13 DEF Fork, InitStarts
  <2>3. \A p \in Proc : termAge'[p] # Never => termAge'[p] = termAge[p]
    BY <1>a, <2>1
  <2>4. n = m
    BY <1>m, <1>n, <2>2 DEF StillToSleep
  <2> QED
    BY <1>m, <1>n, <1>0, <2>2, <2>3, <2>4 DEF Aged
<1>14. CASE Exit \/ UNCHANGED vars
  <2>1. UNCHANGED <<termAge, round, pc, left>>
    BY <1>14 DEF Exit, vars
  <2>2. n = m
    BY <1>m, <1>n, <2>1 DEF StillToSleep
  <2> QED
    BY <1>f, <1>m, <1>n, <2>1, <2>2
<1>15. CASE Tick
  <2>1. Pass(1) /\ UNCHANGED <<watchdog_fd, wdStatic, round>> /\ m = 0
    BY <1>m, <1>n, <1>15 DEF Tick, StillToSleep
  <2> QED
    BY <1>p, <1>m, <1>n, <2>1
<1> QED
  BY NextCases, <1>1, <1>2, <1>3, <1>4, <1>5, <1>6, <1>7, <1>8, <1>9, <1>10, <1>11, <1>12,
     <1>13, <1>14, <1>15

(* try_clean_shutdown(): for every sigterm_delay, zero included, no process is sent
   SIGKILL less than sigterm_delay - 1 seconds after it was first sent SIGTERM. *)
THEOREM GraceIsGiven == Spec => []GraceGiven
<1>1. Init => GraceInv
  <2>1. Init => round = 0
    BY DEF Init
  <2> QED
    BY <2>1, TypeInit DEF GraceInv, Aged
<1>2. GraceInv /\ TypeOK' /\ [Next]_vars => GraceInv'
  BY GraceStep
<1>3. GraceInv => GraceGiven
  <2> SUFFICES ASSUME GraceInv, At("kill"), sig = "SIGKILL", NEW p \in plist \ {Self},
                          termAge[p] # Never
               PROVE  termAge[p] >= sigterm_delay - 1
    BY DEF GraceGiven
  <2>1. TypeOK /\ p \in Proc
    BY DEF GraceInv, TypeOK
  <2>2. round >= 3 /\ StillToSleep = 0
    BY <2>1 DEF TypeOK, sig, At, StillToSleep
  <2>3. termAge[p] \in Nat /\ sigterm_delay \in Nat
    BY <2>1, TimeAssumption DEF TypeOK, Never
  <2> QED
    BY <2>1, <2>2, <2>3 DEF GraceInv, Aged
<1> QED
  BY <1>1, <1>2, <1>3, TypeCorrect, PTL DEF Spec

-----------------------------------------------------------------------------
(* umount_all() *)

(* A file system is mounted on one that was mounted before it. *)
LEMMA UnderBefore ==
  ASSUME NEW m \in Fs, NEW n \in Fs, Under[m] = n, n # m
  PROVE  Pos(n) < Pos(m)
<1>1. Pos(m) \in 1 .. Len(Mounts) /\ Mounts[Pos(m)] = m
  BY MountFacts
<1>2. CASE Pos(m) = 1
  BY <1>1, <1>2, MountAssumption DEF root
<1>3. CASE Pos(m) # 1
  <2>1. Pos(m) \in 2 .. Len(Mounts)
    BY <1>1, <1>3, MountFacts
  <2>2. PICK j \in 1 .. Pos(m) - 1 : Under[m] = Mounts[j]
    BY <1>1, <2>1, MountAssumption
  <2>3. j \in 1 .. Len(Mounts)
    BY <2>1, <2>2, MountFacts
  <2> QED
    BY <2>1, <2>2, <2>3, MountFacts
<1> QED
  BY <1>2, <1>3

(* umount_one() leaves an entry mounted only for a reason, and takes nobody else's
   reason away: what is mounted on a passed entry came after it, and has been passed. *)
LEMMA UmountOneKeeps ==
  ASSUME UmountTypeOK, Ordered, OnlyRefusedLeft, NEW update \in BOOLEAN, umount_one(update)
  PROVE  OnlyRefusedLeft'
<1>0. walk \in 1 .. Len(table) /\ table \in Seq(Fs) /\ Len(table) \in Nat
  BY DEF umount_one, UmountTypeOK
<1>n. PICK n \in Fs : n = CurrentEntry
  BY <1>0 DEF CurrentEntry
<1>1. /\ walk \in 1 .. Len(table) /\ table \in Seq(Fs) /\ n = table[walk]
      /\ n \in Fs /\ Len(table) \in Nat
  BY <1>0, <1>n DEF CurrentEntry
<1>2. walk' = walk - 1 /\ UNCHANGED table /\ (UmountSucceeds(n) \/ UmountFails(n))
  BY <1>n DEF umount_one
<1>3. mounted' \subseteq mounted /\ mounted \subseteq Fs /\ refused \subseteq refused'
  BY <1>2 DEF UmountSucceeds, UmountFails, UmountTypeOK
<1>4. n \in mounted' => n \in refused' \/ Occupied(n)'
  <2>1. CASE UmountSucceeds(n)
    BY <2>1 DEF UmountSucceeds
  <2>2. CASE UmountFails(n)
    BY <2>2 DEF UmountFails, Occupied
  <2> QED
    BY <1>2, <2>1, <2>2
<1>5. ASSUME NEW k \in walk + 1 .. Len(table), table[k] \in mounted'
      PROVE  table[k] \in refused' \/ Occupied(table[k])'
  <2>1. k \in 1 .. Len(table) /\ walk < k /\ table[k] \in Fs
    BY <1>1, <1>5
  <2>2. table[k] \in refused \/ Occupied(table[k])
    BY <1>3, <1>5 DEF OnlyRefusedLeft
  <2>3. ASSUME Occupied(table[k]) PROVE Occupied(table[k])'
    <3>1. PICK m \in mounted \ {table[k]} : Under[m] = table[k]
      BY <2>3 DEF Occupied
    <3>2. Pos(table[k]) < Pos(m)
      BY <1>3, <2>1, <3>1, UnderBefore
    <3>3. Pos(n) < Pos(table[k])
      BY <1>1, <2>1 DEF Ordered
    <3>4. Pos(n) \in Nat /\ Pos(m) \in Nat /\ Pos(table[k]) \in Nat
      BY <1>1, <1>3, <2>1, <3>1, MountFacts
    <3>5. m # n
      BY <3>2, <3>3, <3>4
    <3>6. m \in mounted'
      BY <1>2, <3>1, <3>5 DEF UmountSucceeds, UmountFails
    <3> QED
      BY <1>2, <3>1, <3>6 DEF Occupied
  <2> QED
    BY <1>3, <2>2, <2>3
<1>6. ASSUME NEW k \in walk' + 1 .. Len(table')
      PROVE  table'[k] \in mounted' => table'[k] \in refused' \/ Occupied(table[k])'
  <2>1. table' = table
    BY <1>2
  <2>2. CASE k = walk
    <3>1. table[k] = n
      BY <1>1, <2>2
    <3> QED
      BY <1>4, <2>1, <3>1 DEF Occupied
  <2>3. CASE k # walk
    <3>1. k \in walk + 1 .. Len(table)
      BY <1>1, <1>2, <2>3
    <3> QED
      BY <1>5, <2>1, <3>1
  <2> QED
    BY <2>2, <2>3
<1> QED
  BY <1>2, <1>6 DEF OnlyRefusedLeft, Occupied

LEMMA RefusedStep ==
  ASSUME TypeOK, Ordered, OnlyRefusedLeft, [Next]_vars
  PROVE  OnlyRefusedLeft'
<1>1. CASE MntOff
  <2>1. walk' = Len(table') /\ table' \in Seq(Fs)
    BY <1>1, TableRead DEF MntOff, TypeOK, UmountTypeOK
  <2>2. walk' + 1 .. Len(table') = {}
    BY <2>1
  <2> QED
    BY <2>2 DEF OnlyRefusedLeft
<1>2. CASE UmountNext
  BY <1>2, UmountOneKeeps DEF UmountNext, TypeOK
<1>3. CASE ~MntOff /\ ~UmountNext
  <2>1. UNCHANGED <<table, walk, mounted, refused>>
    BY <1>3, NextCases DEF Pat, Nap, SendMail, StopInit, StopAll, ReadProc, ReadProcFails, Skip,
       Kill, KillSelf, AllSignalled, ContinueAll, Record, NoMountTable, Die, UpdateMtab,
       update_mtab, UmountDies, UpdateMtabDies, UmountDone, ifdown, HardReset, SetShort, WaitForReset,
       Panic, LongSleep, Reboot, CloseAll, Fork, InitStarts, Exit, Tick, vars, files, umountVars
  <2> QED
    BY <2>1 DEF OnlyRefusedLeft, Occupied
<1> QED
  BY <1>1, <1>2, <1>3

LEMMA UmountInvariant == Spec => [](TypeOK /\ Ordered /\ OnlyRefusedLeft)
<1>1. Init => TypeOK /\ Ordered /\ OnlyRefusedLeft
  <2>1. ASSUME Init PROVE Len(table) = 0 /\ walk = 0
    BY <2>1 DEF Init, UmountInit
  <2> QED
    BY <2>1, TypeInit DEF Ordered, OnlyRefusedLeft
<1>2. TypeOK /\ Ordered /\ OnlyRefusedLeft /\ [Next]_vars => (TypeOK /\ Ordered /\ OnlyRefusedLeft)'
  BY TypeStep, OrderedStep, RefusedStep
<1> QED
  BY <1>1, <1>2, PTL DEF Spec

(* umount_all(): for any tree of mounts, any part of the mount table that could be
   read and whatever umount(2) refuses: an entry that was passed is still mounted only
   if the kernel refused it, or something is still mounted on it. *)
THEOREM RefusedLeft == Spec => []OnlyRefusedLeft
BY UmountInvariant, PTL

-----------------------------------------------------------------------------
(* The device and the shutdown. *)

(* A time that is shorter than what the device has left *)
LEMMA ShortEnough ==
  ASSUME DeviceTypeOK, machine = "up", NEW d \in Nat, Elapse(d), armed => age + d < margin
  PROVE  /\ machine' = "up" /\ UNCHANGED <<armed, margin>>
         /\ armed => age' = age + d
BY DEF Elapse, DeviceTypeOK

(* A refresh that works *)
LEMMA Refreshed ==
  ASSUME DeviceTypeOK, ~WriteMayFail, Accepts(dev_timeout), NEW code, keep_alive(code),
         watchdog_fd, margin = dev_timeout, timeout_used = dev_timeout
  PROVE  age' = 0 /\ margin' = dev_timeout
BY DEF keep_alive

(* The device as do_shutdown() finds it *)
LEMMA FreshInit ==
  ASSUME GoodSetup, NEW b, Init
  PROVE  Timely(b)
<1>1. pc = "begin" /\ machine = "up"
  BY DEF Init
<1>2. ASSUME armed PROVE /\ watchdog_fd /\ margin = dev_timeout /\ timeout_used = dev_timeout
                         /\ age <= Late
  <2>1. DefaultTimeout \in MinTimeout .. MaxTimeout /\ dev_timeout \in Nat /\ dev_timeout > 0
    BY DriverAssumption, DeviceAssumption DEF GoodSetup
  <2>2. /\ watchdog_fd = TRUE
        /\ timeout_used = IF dev_timeout > 0 THEN dev_timeout ELSE TIMER_MARGIN
        /\ margin = IF dev_timeout > 0 THEN MarginAfter(dev_timeout, DefaultTimeout)
                    ELSE DefaultTimeout
        /\ age \in 0 .. Late
    <3>1. armed # FALSE
      BY <1>2
    <3> QED
      BY <3>1 DEF Init
  <2>3. timeout_used = dev_timeout /\ margin = MarginAfter(dev_timeout, DefaultTimeout)
    BY <2>1, <2>2
  <2>4. margin = dev_timeout
    BY <2>1, <2>3, MarginProperties DEF GoodSetup
  <2> QED
    BY <2>2, <2>3, <2>4, TimeAssumption
<1>3. Fresh(b)
  BY <1>1, <1>2 DEF Fresh, FreshAt
<1> QED
  BY <1>1, <1>3 DEF Timely

LEMMA TimelyStep ==
  ASSUME GoodSetup, NEW b, Budget(b), TypeOK, Ordered, Timely(b), TypeOK', Ordered', [Next]_vars
  PROVE  Timely(b)'
<1> USE DEF devVars, wdStatic, sleeping, procs, files, reason, At, SafeSleep
<1>a. /\ DeviceTypeOK /\ dev_timeout \in Nat /\ dev_timeout > 1
      /\ Late \in Nat /\ age \in Nat /\ margin \in Nat
  BY DriverAssumption, DeviceAssumption, TimeAssumption DEF GoodSetup, TypeOK, DeviceTypeOK
<1>b. /\ b \in [0 .. Len(Mounts) -> Nat] /\ Len(Mounts) \in Nat
      /\ \A i, j \in 0 .. Len(Mounts) : i < j => b[i] <= b[j]
  BY MountFacts DEF Budget
<1>t. /\ table \in Seq(Fs) /\ walk \in 0 .. Len(table) /\ Len(table) \in Nat
      /\ table' \in Seq(Fs) /\ walk' \in 0 .. Len(table') /\ Len(table') \in Nat
  BY DEF TypeOK, UmountTypeOK
<1> SUFFICES ASSUME Running'
             PROVE  /\ machine' = "up" /\ Fresh(b)'
                    /\ pc' \notin {"reboot", "wait", "autoboot", "panic", "close"}
  BY DEF Timely
<1> DEFINE Good == /\ machine' = "up" /\ Fresh(b)'
                   /\ pc' \notin {"reboot", "wait", "autoboot", "panic", "close"}
<1>r. ASSUME UNCHANGED errorcode, synced => synced', pc \notin {"exited", "killed"}
      PROVE  /\ Running /\ machine = "up" /\ Fresh(b)
             /\ pc \notin {"reboot", "wait", "autoboot", "panic", "close"}
  BY <1>r DEF Running, Timely
(* Nothing happens to the device, and the daemon goes on where it is fresh. *)
<1>s. ASSUME UNCHANGED <<devVars, errorcode, synced>>, pc \in FreshAt, pc' \in FreshAt \cup {"pat"}
      PROVE  Good
  <2>1. machine = "up" /\ Fresh(b)
    BY <1>r, <1>s DEF FreshAt
  <2> QED
    BY <1>s, <2>1 DEF Fresh, FreshAt
<1>1. CASE Pat
  <2>1. PICK code : keep_alive(code)
    BY <1>1 DEF Pat
  <2>2. /\ pc = "pat" /\ UNCHANGED <<errorcode, synced>>
        /\ pc' \in {"nap", "begin", "signals", "stop", "record", "mnt_off"}
    BY <1>1 DEF Pat, TypeOK
  <2>3. machine = "up" /\ Fresh(b)
    BY <1>r, <2>2
  <2>4. UNCHANGED <<watchdog_fd, timeout_used, armed, machine>>
    BY <1>a, <2>1, KeepAliveEffect
  <2>5. armed => age' = 0 /\ margin' = dev_timeout
    BY <1>a, <2>1, <2>3, Refreshed DEF GoodSetup, Fresh
  <2> QED
    BY <1>a, <2>2, <2>3, <2>4, <2>5 DEF Fresh, FreshAt
<1>2. CASE Nap
  <2>1. /\ pc = "nap" /\ pc' = "pat" /\ Elapse(1)
        /\ UNCHANGED <<errorcode, synced, watchdog_fd, timeout_used>>
    BY <1>2 DEF Nap, Pass
  <2>2. machine = "up" /\ Fresh(b)
    BY <1>r, <2>1
  <2>3. armed => age + 1 < margin
    BY <1>a, <2>1, <2>2 DEF Fresh, FreshAt
  <2>4. machine' = "up" /\ UNCHANGED <<armed, margin>>
    BY <1>a, <2>1, <2>2, <2>3, ShortEnough
  <2> QED
    BY <2>1, <2>2, <2>4 DEF Fresh, FreshAt
<1>3. CASE SendMail
  <2>1. PICK d \in MailTime : Elapse(d)
    BY <1>3 DEF SendMail, Pass
  <2>2. pc = "begin" /\ pc' = "pat" /\ UNCHANGED <<errorcode, synced, watchdog_fd, timeout_used>>
    BY <1>3 DEF SendMail
  <2>3. machine = "up" /\ Fresh(b)
    BY <1>r, <2>2
  <2>4. d \in Nat /\ Late + d < dev_timeout
    BY Durations DEF GoodSetup
  <2>5. armed => age + d < margin
    BY <1>a, <2>2, <2>3, <2>4 DEF Fresh
  <2>6. machine' = "up" /\ UNCHANGED <<armed, margin>>
    BY <1>a, <2>1, <2>3, <2>4, <2>5, ShortEnough
  <2> QED
    BY <2>2, <2>3, <2>6 DEF Fresh, FreshAt
<1>4. CASE StopInit \/ StopAll \/ ReadProc \/ ReadProcFails \/ Skip \/ Kill \/ AllSignalled
  BY <1>4, <1>s DEF StopInit, StopAll, ReadProc, ReadProcFails, Skip, Kill, AllSignalled, FreshAt
<1>5. CASE KillSelf
  <2>1. pc' # "killed" /\ pc = "kill"
    BY <1>5 DEF KillSelf, Running
  <2> QED
    BY <1>5, <1>s, <2>1 DEF KillSelf, FreshAt
<1>6. CASE ContinueAll \/ Record
  BY <1>6, <1>s DEF ContinueAll, Record, FreshAt
<1>7. CASE MntOff
  <2>1. PICK d \in UmountTime : Elapse(d)
    BY <1>7 DEF MntOff, Pass
  <2>2. pc = "mnt_off" /\ pc' = "umount" /\ UNCHANGED <<errorcode, synced, watchdog_fd, timeout_used>>
    BY <1>7 DEF MntOff
  <2>3. machine = "up" /\ Fresh(b)
    BY <1>r, <2>2
  <2>4. d \in Nat /\ d + b[Len(Mounts)] < dev_timeout
    BY Durations DEF Budget
  <2>5. armed => age = 0 /\ margin = dev_timeout
    BY <2>2, <2>3 DEF Fresh, FreshAt
  <2>6. b[Len(Mounts)] \in Nat
    BY <1>b
  <2>7. machine' = "up" /\ UNCHANGED <<armed, margin>> /\ (armed => age' = d)
    BY <1>a, <2>1, <2>3, <2>4, <2>5, <2>6, ShortEnough
  <2>8. ASSUME walk' # 0 PROVE /\ b[Pos(table'[walk'])] \in Nat
                               /\ b[Pos(table'[walk'])] <= b[Len(Mounts)]
    <3>1. table'[walk'] \in Fs
      BY <1>t, <2>8
    <3>2. PICK i \in 1 .. Len(Mounts) : i = Pos(table'[walk'])
      BY <3>1, MountFacts
    <3>3. b[i] \in Nat /\ b[i] <= b[Len(Mounts)]
      BY <1>b
    <3> QED
      BY <3>2, <3>3
  <2>9. armed' => age' + (IF walk' = 0 THEN 0 ELSE b[Pos(table'[walk'])]) < dev_timeout
    BY <1>a, <2>4, <2>6, <2>7, <2>8
  <2> QED
    BY <2>2, <2>3, <2>7, <2>9 DEF Fresh, FreshAt
<1>8. CASE NoMountTable \/ UmountDies \/ UpdateMtabDies \/ CloseAll
  BY <1>8 DEF NoMountTable, UmountDies, UpdateMtabDies, CloseAll, Die, Running
<1>9. CASE UmountNext
  <2>1. PICK d \in UmountTime, w \in RpcWait(CurrentEntry) : Elapse(d + w)
    BY <1>9 DEF UmountNext, Pass
  <2>2. /\ pc = "umount" /\ pc' \in {"umount", "mtab"} /\ walk' = walk - 1
        /\ walk > 0 /\ UNCHANGED table
        /\ UNCHANGED <<errorcode, synced, watchdog_fd, timeout_used>>
    BY <1>9 DEF UmountNext, umount_one
  <2>3. machine = "up" /\ Fresh(b)
    BY <1>r, <2>2
  <2>4. walk \in 1 .. Len(table) /\ table[walk] \in Fs
    BY <1>t, <2>2
  <2>5. PICK j \in 1 .. Len(Mounts) : j = Pos(table[walk]) /\ Mounts[j] = CurrentEntry
    BY <2>4, MountFacts DEF CurrentEntry
  <2>6. d + w \in Nat /\ d \in Nat /\ w \in Nat /\ b[j] \in Nat
    BY <1>b, <2>4, Durations, TimeAssumption DEF CurrentEntry, RpcWait
  <2>7. armed => margin = dev_timeout /\ age + b[j] < dev_timeout
    BY <2>2, <2>3, <2>5 DEF Fresh
  <2>8. \A i \in 0 .. Len(Mounts) : i < j => b[i] \in Nat /\ b[i] + d + w <= b[j]
    BY <1>b, <2>5 DEF Budget
  <2>9. b[0] \in Nat /\ b[0] + d + w <= b[j]
    BY <2>8, MountFacts
  <2>10. machine' = "up" /\ UNCHANGED <<armed, margin>> /\ (armed => age' = age + (d + w))
    BY <1>a, <2>1, <2>3, <2>6, <2>7, <2>9, ShortEnough
  <2>11. ASSUME walk' # 0, armed PROVE age' + b[Pos(table'[walk'])] < dev_timeout
    <3>1. walk' \in 1 .. Len(table) /\ table[walk'] \in Fs /\ walk' < walk
      BY <1>t, <2>2, <2>11
    <3>2. PICK i \in 1 .. Len(Mounts) : i = Pos(table[walk'])
      BY <3>1, MountFacts
    <3>3. i < j
      BY <2>4, <2>5, <3>1, <3>2 DEF Ordered
    <3>4. b[i] \in Nat /\ b[i] + d + w <= b[j]
      BY <2>8, <3>3
    <3> QED
      BY <1>a, <2>2, <2>6, <2>7, <2>10, <2>11, <3>2, <3>4
  <2>12. armed' => age' + (IF walk' = 0 THEN 0 ELSE b[Pos(table'[walk'])]) < dev_timeout
    BY <1>a, <2>6, <2>7, <2>9, <2>10, <2>11
  <2> QED
    BY <2>2, <2>3, <2>10, <2>12 DEF Fresh, FreshAt
<1>10. CASE UpdateMtab
  <2>1. /\ pc = "mtab" /\ pc' = "umount" /\ UNCHANGED <<devVars, errorcode, synced>>
        /\ UNCHANGED <<table, walk>>
    BY <1>10 DEF UpdateMtab, update_mtab
  <2>2. machine = "up" /\ Fresh(b)
    BY <1>r, <2>1
  <2> QED
    BY <2>1, <2>2 DEF Fresh, FreshAt
<1>11. CASE UmountDone \/ HardReset
  BY <1>11 DEF UmountDone, HardReset, Running
<1>12. CASE SetShort \/ WaitForReset \/ Reboot \/ Panic
  <2>1. /\ pc \in {"reboot", "wait", "autoboot", "panic", "close"}
        /\ UNCHANGED <<errorcode, synced>>
    BY <1>12 DEF SetShort, WaitForReset, Reboot, Panic, LongSleep
  <2> QED
    BY <1>r, <2>1
<1>13. CASE Fork \/ InitStarts \/ Exit \/ UNCHANGED vars
  <2>1. UNCHANGED <<devVars, errorcode, synced, pc, table, walk>>
    BY <1>13 DEF Fork, InitStarts, Exit, vars, umountVars
  <2>2. pc \notin {"exited", "killed"}
    BY <2>1 DEF Running
  <2>3. /\ machine = "up" /\ Fresh(b)
        /\ pc \notin {"reboot", "wait", "autoboot", "panic", "close"}
    BY <1>r, <2>1, <2>2
  <2> QED
    BY <2>1, <2>3 DEF Fresh
<1>14. CASE Tick
  BY <1>14 DEF Tick, Running
<1> QED
  BY NextCases, <1>1, <1>2, <1>3, <1>4, <1>5, <1>6, <1>7, <1>8, <1>9, <1>10, <1>11, <1>12,
     <1>13, <1>14

(* safe_sleep() and the calls of keep_alive() in try_clean_shutdown(): where the driver
   takes the configured time-out and the refreshes, and the mail and umount_all() each
   fit into it, the device does not reset the machine before umount_all() is done,
   however long the list of processes and of file systems is. *)
THEOREM CleanReset ==
  ASSUME GoodSetup
  PROVE  Spec => []CleanBeforeReset
<1>1. PICK b : Budget(b)
  BY DEF GoodSetup
<1>2. Init => Timely(b)
  BY FreshInit
<1>3. /\ Timely(b) /\ (TypeOK /\ Ordered /\ OnlyRefusedLeft)
      /\ (TypeOK /\ Ordered /\ OnlyRefusedLeft)'
      /\ [Next]_vars
      => Timely(b)'
  BY <1>1, TimelyStep
<1>4. Timely(b) => CleanBeforeReset
  BY DEF Timely, Running, CleanBeforeReset
<1> QED
  BY <1>2, <1>3, <1>4, UmountInvariant, PTL DEF Spec
=============================================================================
