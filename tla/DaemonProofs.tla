----------------------------- MODULE DaemonProofs -----------------------------
(***************************************************************************)
(* Theorems about main() and the device, for every driver and every        *)
(* setting of the parameters.                                              *)
(***************************************************************************)
EXTENDS Daemon, TLAPS

(* The margin after set_watchdog_timeout() is one the driver accepts; it is the
   one asked for, if the driver accepts that. *)
LEMMA MarginProperties ==
  ASSUME NEW t \in Nat, NEW m \in MinTimeout .. MaxTimeout
  PROVE  /\ MarginAfter(t, m) \in MinTimeout .. MaxTimeout
         /\ Accepts(t) => MarginAfter(t, m) = t
<1>1. \A v \in Taken(t) : v \in Int /\ Accepts(v) /\ t <= v
  BY DEF Taken, try_values
<1>2. CASE Taken(t) = {}
  <2>1. ~Accepts(t)
    BY <1>2 DEF Taken
  <2> QED
    BY <1>2, <2>1 DEF MarginAfter
<1>3. CASE Taken(t) # {}
  <2>1. \E x \in Taken(t) : \A y \in Taken(t) : x <= y
    <3>1. CASE t \in Taken(t)
      BY <1>1, <3>1
    <3>2. CASE t \notin Taken(t)
      <4>1. Taken(t) \subseteq {3, 5, 10}
        BY <3>2 DEF Taken, try_values
      <4>2. CASE 3 \in Taken(t)
        BY <4>1, <4>2
      <4>3. CASE 3 \notin Taken(t) /\ 5 \in Taken(t)
        BY <4>1, <4>3
      <4>4. CASE 3 \notin Taken(t) /\ 5 \notin Taken(t)
        BY <4>1, <4>4, <1>3
      <4> QED
        BY <4>2, <4>3, <4>4
    <3> QED
      BY <3>1, <3>2
  <2>2. Smallest(Taken(t)) \in Taken(t) /\ \A y \in Taken(t) : Smallest(Taken(t)) <= y
    BY <2>1 DEF Smallest
  <2>3. MarginAfter(t, m) = Smallest(Taken(t))
    BY <1>3 DEF MarginAfter
  <2>4. Accepts(t) => t \in Taken(t)
    BY DEF Taken
  <2> QED
    BY <1>1, <2>2, <2>3, <2>4 DEF Accepts
<1> QED
  BY <1>2, <1>3

(* What keep_alive() changes. *)
LEMMA KeepAliveEffect ==
  ASSUME DeviceTypeOK, NEW code, keep_alive(code)
  PROVE  /\ DeviceTypeOK'
         /\ UNCHANGED <<watchdog_fd, timeout_used, Refresh_using_ioctl, armed, machine>>
<1>1. UNCHANGED <<watchdog_fd, timeout_used, Refresh_using_ioctl, armed, machine>>
  BY DEF keep_alive
<1>2. margin' \in MinTimeout .. MaxTimeout /\ age' \in 0 .. margin'
  <2>1. CASE UNCHANGED <<margin, age>>
    BY <2>1 DEF DeviceTypeOK
  <2>2. CASE age' = 0 /\ (UNCHANGED margin \/ (Accepts(timeout_used) /\ margin' = timeout_used))
    BY <2>2, DriverAssumption DEF DeviceTypeOK, Accepts
  <2> QED
    BY <2>1, <2>2 DEF keep_alive
<1> QED
  BY <1>1, <1>2 DEF DeviceTypeOK

(* What passing time changes. *)
LEMMA ElapseType ==
  ASSUME DeviceTypeOK, NEW d \in Nat, Elapse(d), UNCHANGED <<watchdog_fd, wdStatic>>
  PROVE  DeviceTypeOK'
<1>1. age' \in 0 .. margin'
  BY DriverAssumption DEF DeviceTypeOK, Elapse
<1> QED
  BY <1>1 DEF DeviceTypeOK, Elapse, wdStatic

-----------------------------------------------------------------------------
(* Type correctness. *)

(* main() starts well typed. *)
LEMMA TypeInit == Init => TypeOK
<1> SUFFICES ASSUME Init PROVE TypeOK
  OBVIOUS
<1>1. DeviceTypeOK
  <2>1. timeout_used \in Nat /\ margin \in MinTimeout .. MaxTimeout /\ age \in 0 .. margin
    BY DriverAssumption DEF Init, DeviceInit, TIMER_MARGIN
  <2> QED
    BY <2>1 DEF Init, DeviceInit, DeviceTypeOK
<1>2. /\ pos \in 0 .. Checks /\ count \in 0 .. count_max /\ left \in 0 .. repair_timeout
      /\ count_max > 0 => count < count_max
  BY DaemonAssumption DEF Init
<1> QED
  BY <1>1, <1>2 DEF Init, TypeOK

(* Every step of main(), the signal and the clock keeps the types. *)
LEMMA TypeStep == TypeOK /\ [Next]_vars => TypeOK'
<1> SUFFICES ASSUME TypeOK, [Next]_vars PROVE TypeOK'
  OBVIOUS
<1> USE DEF devVars, repairing
<1>a. /\ tint \in Nat /\ repair_timeout \in Nat /\ count_max \in Nat /\ Checks \in Nat
      /\ StartTime \subseteq Nat /\ CheckTime \subseteq Nat
  BY DaemonAssumption
<1>1. CASE CheckParameters
  BY <1>1 DEF CheckParameters, Up, TypeOK, DeviceTypeOK
<1>2. CASE WritePidFile
  <2>1. pc' \in {"open", "exited", "aborted"} /\ UNCHANGED <<wdStatic, device, machine>>
    BY <1>2 DEF WritePidFile, FatalError, abandon_watchdog, wdStatic, device
  <2>2. watchdog_fd' \in BOOLEAN /\ pidfile' \in {"none", "there", "stuck"}
    BY <1>2 DEF WritePidFile, FatalError, abandon_watchdog, TypeOK, DeviceTypeOK
  <2> QED
    BY <1>2, <2>1, <2>2 DEF WritePidFile, Up, wdStatic, device, TypeOK, DeviceTypeOK
<1>3. CASE OpenWatchdog
  <2>1. DeviceTypeOK'
    <3>1. CASE no_act
      BY <1>3, <3>1 DEF OpenWatchdog, Up, TypeOK, DeviceTypeOK
    <3>2. CASE ~no_act
      <4>1. open_watchdog
        BY <1>3, <3>2 DEF OpenWatchdog
      <4>2. machine' = machine /\ watchdog_fd' \in BOOLEAN
        BY <4>1 DEF open_watchdog
      <4>3. Refresh_using_ioctl' \in BOOLEAN
        BY <4>1, DeviceAssumption DEF open_watchdog, RefreshModes
      <4>4. MarginAfter(dev_timeout, margin) \in MinTimeout .. MaxTimeout
        BY MarginProperties, DeviceAssumption DEF TypeOK, DeviceTypeOK
      <4>5. timeout_used' \in Nat /\ armed' \in BOOLEAN /\ margin' \in MinTimeout .. MaxTimeout
        BY <4>1, <4>4, DeviceAssumption DEF open_watchdog, TypeOK, DeviceTypeOK
      <4>6. age' = 0 \/ (age' = age /\ margin' = margin)
        BY <4>1 DEF open_watchdog
      <4>7. age' \in 0 .. margin'
        BY <4>5, <4>6, DriverAssumption DEF TypeOK, DeviceTypeOK
      <4> QED
        BY <4>2, <4>3, <4>5, <4>7 DEF TypeOK, DeviceTypeOK
    <3> QED
      BY <3>1, <3>2
  <2> QED
    BY <1>3, <2>1 DEF OpenWatchdog, Up, TypeOK
<1>4. CASE OpenChecks
  <2>1. DeviceTypeOK'
    <3>1. CASE FatalError
      BY <3>1 DEF FatalError, abandon_watchdog, wdStatic, device, TypeOK, DeviceTypeOK
    <3>2. CASE ~FatalError
      BY <1>4, <3>2, <1>a, ElapseType DEF OpenChecks, TypeOK
    <3> QED
      BY <3>1, <3>2
  <2>2. pc' \in {"signal", "aborted"}
    BY <1>4 DEF OpenChecks, FatalError
  <2> QED
    BY <1>4, <2>1, <2>2 DEF OpenChecks, Up, TypeOK
<1>5. CASE InstallHandler \/ LockMemory
  BY <1>5 DEF InstallHandler, LockMemory, Up, TypeOK, DeviceTypeOK
<1>6. CASE KeepAlive
  <2>1. DeviceTypeOK'
    BY <1>6, KeepAliveEffect DEF KeepAlive, Up, TypeOK
  <2>2. NextCheck \in {"check", "sleep"} /\ (NextCheck = "check" => pos < Checks)
    BY <1>a DEF NextCheck, TypeOK
  <2>3. CASE pc' = NextCheck /\ UNCHANGED repairing
    BY <1>6, <2>1, <2>2, <2>3 DEF KeepAlive, Up, TypeOK
  <2>4. CASE ActOnError(NextCheck)
    BY <1>6, <2>1, <2>2, <2>4, <1>a DEF KeepAlive, Up, TypeOK, ActOnError, Stands
  <2> QED
    BY <1>6, <2>3, <2>4 DEF KeepAlive
<1>7. CASE Check
  <2>1. DeviceTypeOK'
    BY <1>7, <1>a, ElapseType DEF Check, Up, TypeOK
  <2>2. pos' \in 0 .. Checks
    BY <1>7, <1>a DEF Check, Up, TypeOK
  <2>3. CASE pc' = "alive" /\ UNCHANGED repairing
    BY <1>7, <2>1, <2>2, <2>3 DEF Check, Up, TypeOK
  <2>4. CASE ActOnError("alive")
    BY <1>7, <2>1, <2>2, <2>4, <1>a DEF Check, Up, TypeOK, ActOnError, Stands
  <2> QED
    BY <1>7, <2>3, <2>4 DEF Check
<1>8. CASE RepairSleep
  <2>1. DeviceTypeOK'
    BY <1>8, ElapseType DEF RepairSleep, TypeOK
  <2> QED
    BY <1>8, <2>1 DEF RepairSleep, Up, TypeOK
<1>9. CASE RepairRefresh
  <2>1. DeviceTypeOK'
    BY <1>9, KeepAliveEffect DEF RepairRefresh, TypeOK
  <2>2. left' \in 0 .. repair_timeout /\ (pc' = "repair" => left' > 0)
    BY <1>9, <1>a DEF RepairRefresh, Stands, TypeOK
  <2>3. pc' \in {back, "shutdown", "repair"}
    BY <1>9 DEF RepairRefresh, Stands
  <2> QED
    BY <1>9, <2>1, <2>2, <2>3 DEF RepairRefresh, Up, TypeOK
<1>10. CASE RepairBlocks
  <2>1. DeviceTypeOK'
    BY <1>10, ElapseType DEF RepairBlocks, TypeOK
  <2>3. pc' \in {back, "shutdown", "repair"}
    BY <1>10 DEF RepairBlocks, Stands
  <2> QED
    BY <1>10, <2>1, <2>3 DEF RepairBlocks, Up, TypeOK
<1>11. CASE Sleep
  <2>1. DeviceTypeOK'
    <3>1. PICK d \in IF _running THEN {tint} ELSE 0 .. tint : Elapse(d)
      BY <1>11 DEF Sleep
    <3>2. d \in Nat
      BY <1>a
    <3> QED
      BY <1>11, <3>1, <3>2, ElapseType DEF Sleep, TypeOK
  <2>2. count' \in 0 .. count_max /\ (count_max > 0 /\ pc' # "terminate" => count' < count_max)
    <3>1. CASE count_max > 0
      <4>1. count < count_max /\ count' = count + 1
        BY <1>11, <3>1 DEF Sleep, Up, TypeOK
      <4>2. count' >= count_max => pc' = "terminate"
        BY <1>11, <3>1 DEF Sleep
      <4> QED
        BY <4>1, <4>2, <1>a DEF TypeOK
    <3>2. CASE ~(count_max > 0)
      BY <1>11, <3>2 DEF Sleep, TypeOK
    <3> QED
      BY <3>1, <3>2
  <2>3. pos' \in 0 .. Checks /\ pc' \in {"alive", "terminate"} /\ _running' \in BOOLEAN
    BY <1>11, <1>a DEF Sleep
  <2> QED
    BY <1>11, <2>1, <2>2, <2>3 DEF Sleep, TypeOK
<1>12. CASE Terminate
  <2>1. DeviceTypeOK'
    <3>1. armed' \in BOOLEAN
      BY <1>12 DEF Terminate, close_watchdog, TypeOK, DeviceTypeOK
    <3>2. age' = 0 \/ age' = age
      BY <1>12 DEF Terminate, close_watchdog
    <3>3. age' \in 0 .. margin
      BY <3>2, DriverAssumption DEF TypeOK, DeviceTypeOK
    <3> QED
      BY <1>12, <3>1, <3>3 DEF Terminate, close_watchdog, wdStatic, TypeOK, DeviceTypeOK
  <2> QED
    BY <1>12, <2>1 DEF Terminate, TypeOK
<1>13. CASE Sigterm
  <2>1. DeviceTypeOK'
    BY <1>13 DEF Sigterm, abandon_watchdog, wdStatic, device, TypeOK, DeviceTypeOK
  <2>2. CASE pc' = "killed" /\ UNCHANGED _running
    BY <1>13, <2>1, <2>2 DEF Sigterm, TypeOK
  <2>3. CASE _running' = FALSE /\ UNCHANGED pc
    BY <1>13, <2>1, <2>3 DEF Sigterm, TypeOK
  <2> QED
    BY <1>13, <2>2, <2>3 DEF Sigterm
<1>14. CASE Tick
  <2>1. DeviceTypeOK'
    BY <1>14, ElapseType DEF Tick, TypeOK
  <2> QED
    BY <1>14, <2>1 DEF Tick, TypeOK
<1>15. CASE UNCHANGED vars
  BY <1>15 DEF vars, TypeOK, DeviceTypeOK
<1> QED
  BY <1>1, <1>2, <1>3, <1>4, <1>5, <1>6, <1>7, <1>8, <1>9, <1>10, <1>11, <1>12, <1>13,
     <1>14, <1>15 DEF Next, Main

(* main() and keep_alive.c keep every variable in its type. *)
THEOREM TypeCorrect == Spec => []TypeOK
BY TypeInit, TypeStep, PTL DEF Spec

-----------------------------------------------------------------------------
(* Refreshing in time. *)

(* The driver takes the configured time-out and its writes succeed; the
   parameters were checked; repairs have a time-out; a check takes no longer than
   the interval, as a ping does, and starting up no longer than the device. *)
GoodSetup ==
    /\ Accepts(dev_timeout) /\ ~WriteMayFail
    /\ ~force /\ repair_timeout > 0
    /\ CheckTime \subseteq 0 .. tint
    /\ \A d \in StartTime : d < dev_timeout

Gone == {"exited", "aborted", "killed", "shutdown"}

(* Past check_parameters() the interval leaves room for one second of repair(). *)
IntervalChecked == pc \notin Gone \cup {"params"} => tint + 1 < dev_timeout

(* An armed device is open and has the configured margin. *)
DeviceAsSet ==
    armed /\ pc \notin Gone =>
        /\ pc \notin {"params", "pidfile", "open"}
        /\ watchdog_fd /\ margin = dev_timeout /\ timeout_used = dev_timeout

(* How old the last refresh can be, by where the daemon is. *)
Fresh ==
    armed =>
        /\ pc \in {"start", "check", "sleep"} => age = 0
        /\ pc = "repair" => age <= tint
        /\ pc = "refresh" => age <= tint + 1
        /\ pc \in {"signal", "lock", "alive"} => age < dev_timeout

TimelyInv == TypeOK /\ IntervalChecked /\ DeviceAsSet /\ Fresh /\ LoopIsTimely

(* A refresh works: the driver takes the value it is given. *)
LEMMA RefreshWorks ==
  ASSUME GoodSetup, TypeOK, DeviceAsSet, pc \notin Gone, armed, NEW code, keep_alive(code)
  PROVE  code = ENOERR /\ age' = 0 /\ margin' = dev_timeout
BY DEF GoodSetup, DeviceAsSet, keep_alive

(* Time passes, and the timer does not run out. *)
LEMMA ElapseSafe ==
  ASSUME TypeOK, NEW d \in Nat, Elapse(d), machine = "up", armed => age + d < margin
  PROVE  machine' = "up" /\ armed' = armed /\ margin' = margin /\ (armed => age' = age + d)
<1>1. age \in Int /\ margin \in Int
  BY DriverAssumption DEF TypeOK, DeviceTypeOK
<1> QED
  BY <1>1 DEF Elapse

(* Every step keeps the refresh in time. *)
LEMMA TimelyStep ==
  ASSUME GoodSetup
  PROVE  TimelyInv /\ [Next]_vars => TimelyInv'
<1> SUFFICES ASSUME TimelyInv, [Next]_vars PROVE TimelyInv'
  OBVIOUS
<1> USE DEF devVars, repairing, wdStatic
<1>t. TypeOK'
  BY TypeStep DEF TimelyInv
<1>a. /\ tint \in Nat \ {0} /\ dev_timeout \in Nat /\ StartTime \subseteq Nat
      /\ CheckTime \subseteq Nat /\ (\A d \in CheckTime : d <= tint)
      /\ \A d \in StartTime : d < dev_timeout
  BY DaemonAssumption, DeviceAssumption DEF GoodSetup
<1>b. age \in Int /\ margin \in Int
  BY DriverAssumption DEF TimelyInv, TypeOK, DeviceTypeOK
<1> USE DEF TimelyInv
<1> SUFFICES IntervalChecked' /\ DeviceAsSet' /\ Fresh' /\ LoopIsTimely'
  BY <1>t
<1>1. CASE CheckParameters
  <2>1. pc = "params" /\ machine = "up" /\ UNCHANGED devVars
    BY <1>1 DEF CheckParameters, Up
  <2>2. ~armed
    BY <2>1 DEF DeviceAsSet, Gone
  <2>3. pc' = "exited" \/ (pc' = "pidfile" /\ ~TooLong)
    BY <1>1 DEF CheckParameters, GoodSetup
  <2> QED
    BY <2>1, <2>2, <2>3, <1>a DEF IntervalChecked, DeviceAsSet, Fresh, LoopIsTimely, Gone, TooLong
<1>2. CASE WritePidFile
  <2>1. /\ pc = "pidfile" /\ machine = "up" /\ UNCHANGED <<machine, armed>>
        /\ pc' \in {"open", "exited", "aborted"}
    BY <1>2 DEF WritePidFile, FatalError, abandon_watchdog, device, Up
  <2>2. ~armed
    BY <2>1 DEF DeviceAsSet, Gone
  <2> QED
    BY <2>1, <2>2 DEF IntervalChecked, DeviceAsSet, Fresh, LoopIsTimely, Gone
<1>3. CASE OpenWatchdog
  <2>1. pc = "open" /\ machine = "up" /\ machine' = "up" /\ pc' = "start"
    BY <1>3 DEF OpenWatchdog, Up, open_watchdog
  <2>2. ~armed /\ tint + 1 < dev_timeout
    BY <2>1 DEF DeviceAsSet, IntervalChecked, Gone
  <2>3. MarginAfter(dev_timeout, margin) = dev_timeout
    BY MarginProperties, <1>a DEF TypeOK, DeviceTypeOK, GoodSetup
  <2>4. dev_timeout > 0
    BY <2>2, <1>a
  <2>5. armed' => watchdog_fd' /\ margin' = dev_timeout /\ timeout_used' = dev_timeout /\ age' = 0
    BY <1>3, <2>2, <2>3, <2>4 DEF OpenWatchdog, open_watchdog
  <2> QED
    BY <2>1, <2>2, <2>5 DEF IntervalChecked, DeviceAsSet, Fresh, LoopIsTimely, Gone
<1>4. CASE OpenChecks /\ pc' = "aborted"
  BY <1>4 DEF IntervalChecked, DeviceAsSet, Fresh, LoopIsTimely, Gone
<1>4a. CASE OpenChecks /\ pc' # "aborted"
  <2>1. pc = "start" /\ machine = "up" /\ pc' = "signal" /\ UNCHANGED <<watchdog_fd, timeout_used>>
    BY <1>4a DEF OpenChecks, FatalError, Up
  <2>2. PICK d \in StartTime : Elapse(d)
    BY <1>4a DEF OpenChecks, FatalError
  <2>3. armed => age = 0 /\ margin = dev_timeout /\ watchdog_fd /\ timeout_used = dev_timeout
    BY <2>1 DEF DeviceAsSet, Fresh, Gone
  <2>4. armed => age + d < margin
    BY <2>3, <1>a
  <2>5. machine' = "up" /\ armed' = armed /\ margin' = margin /\ (armed => age' = age + d)
    BY <2>1, <2>2, <2>4, <1>a, ElapseSafe
  <2> QED
    BY <2>1, <2>3, <2>4, <2>5 DEF IntervalChecked, DeviceAsSet, Fresh, LoopIsTimely, Gone
<1>5. CASE InstallHandler \/ LockMemory
  <2>1. /\ pc \in {"signal", "lock"} /\ machine = "up" /\ UNCHANGED devVars
        /\ pc' \in {"lock", "alive", "terminate"}
    BY <1>5 DEF InstallHandler, LockMemory, Up
  <2> QED
    BY <2>1 DEF IntervalChecked, DeviceAsSet, Fresh, LoopIsTimely, Gone
<1>6. CASE KeepAlive
  <2>1. pc = "alive" /\ machine = "up"
    BY <1>6 DEF KeepAlive, Up
  <2>2. PICK code \in KeepAliveCodes :
          /\ keep_alive(code)
          /\ \/ code = ENOERR /\ pc' = NextCheck /\ UNCHANGED repairing
             \/ code # ENOERR /\ ActOnError(NextCheck)
    BY <1>6 DEF KeepAlive
  <2>3. UNCHANGED <<watchdog_fd, timeout_used, Refresh_using_ioctl, armed, machine>>
    BY <2>2, KeepAliveEffect DEF TypeOK
  <2>4. armed => code = ENOERR /\ age' = 0 /\ margin' = dev_timeout
    BY <2>1, <2>2, RefreshWorks DEF Gone
  <2>5. pc' \in {"check", "sleep", "repair", "shutdown"} /\ (armed => pc' \in {"check", "sleep"})
    BY <2>2, <2>4 DEF NextCheck, ActOnError, Stands
  <2> QED
    BY <2>1, <2>3, <2>4, <2>5 DEF IntervalChecked, DeviceAsSet, Fresh, LoopIsTimely, Gone
<1>7. CASE Check
  <2>1. pc = "check" /\ machine = "up" /\ UNCHANGED <<watchdog_fd, timeout_used>>
    BY <1>7 DEF Check, Up
  <2>2. PICK d \in CheckTime : Elapse(d)
    BY <1>7 DEF Check
  <2>3. armed => age = 0 /\ margin = dev_timeout /\ watchdog_fd /\ timeout_used = dev_timeout
    BY <2>1 DEF DeviceAsSet, Fresh, Gone
  <2>4. d \in Nat /\ d <= tint /\ tint + 1 < dev_timeout
    BY <2>1, <1>a DEF IntervalChecked, Gone
  <2>5. armed => age + d < margin
    BY <2>3, <2>4, <1>a
  <2>6. machine' = "up" /\ armed' = armed /\ margin' = margin /\ (armed => age' = age + d)
    BY <2>1, <2>2, <2>5, <1>a, ElapseSafe
  <2>7. pc' \in {"alive", "repair", "shutdown"}
    BY <1>7 DEF Check, ActOnError, Stands
  <2>8. armed => age' <= tint /\ age' < dev_timeout
    BY <2>3, <2>4, <2>6, <1>a
  <2> QED
    BY <2>1, <2>3, <2>4, <2>6, <2>7, <2>8 DEF IntervalChecked, DeviceAsSet, Fresh, LoopIsTimely,
       Gone
<1>8. CASE RepairSleep
  <2>1. /\ pc = "repair" /\ machine = "up" /\ pc' = "refresh"
        /\ UNCHANGED <<watchdog_fd, timeout_used>> /\ Elapse(1)
    BY <1>8 DEF RepairSleep, Up
  <2>2. armed => age <= tint /\ margin = dev_timeout /\ watchdog_fd /\ timeout_used = dev_timeout
    BY <2>1 DEF DeviceAsSet, Fresh, Gone
  <2>3. tint + 1 < dev_timeout
    BY <2>1 DEF IntervalChecked, Gone
  <2>4. armed => age + 1 < margin
    BY <2>2, <2>3, <1>a, <1>b
  <2>5. machine' = "up" /\ armed' = armed /\ margin' = margin /\ (armed => age' = age + 1)
    BY <2>1, <2>4, ElapseSafe
  <2>6. armed => age' <= tint + 1
    BY <2>2, <2>5, <1>a, <1>b
  <2> QED
    BY <2>1, <2>2, <2>3, <2>5, <2>6 DEF IntervalChecked, DeviceAsSet, Fresh, LoopIsTimely, Gone
<1>9. CASE RepairRefresh
  <2>1. pc = "refresh" /\ machine = "up"
    BY <1>9 DEF RepairRefresh, Up
  <2>2. PICK code \in KeepAliveCodes : keep_alive(code)
    BY <1>9 DEF RepairRefresh
  <2>3. UNCHANGED <<watchdog_fd, timeout_used, Refresh_using_ioctl, armed, machine>>
    BY <2>2, KeepAliveEffect DEF TypeOK
  <2>4. armed => age' = 0 /\ margin' = dev_timeout
    BY <2>1, <2>2, RefreshWorks DEF Gone
  <2>5. pc' \in {"alive", "check", "sleep", "repair", "shutdown"}
    BY <1>9 DEF RepairRefresh, Stands, TypeOK
  <2>6. tint + 1 < dev_timeout
    BY <2>1 DEF IntervalChecked, Gone
  <2>7. armed => age' <= tint /\ age' < dev_timeout
    BY <2>4, <2>6, <1>a
  <2> QED
    BY <2>1, <2>3, <2>4, <2>5, <2>6, <2>7 DEF IntervalChecked, DeviceAsSet, Fresh, LoopIsTimely,
       Gone
<1>10. CASE RepairBlocks
  BY <1>10 DEF RepairBlocks, GoodSetup
<1>11. CASE Sleep
  <2>1. /\ pc = "sleep" /\ machine = "up" /\ pc' \in {"alive", "terminate"}
        /\ UNCHANGED <<watchdog_fd, timeout_used>>
    BY <1>11 DEF Sleep, Up
  <2>2. PICK d \in IF _running THEN {tint} ELSE 0 .. tint : Elapse(d)
    BY <1>11 DEF Sleep
  <2>3. armed => age = 0 /\ margin = dev_timeout /\ watchdog_fd /\ timeout_used = dev_timeout
    BY <2>1 DEF DeviceAsSet, Fresh, Gone
  <2>4. d \in Nat /\ d <= tint /\ tint + 1 < dev_timeout
    BY <2>1, <1>a DEF IntervalChecked, Gone
  <2>5. armed => age + d < margin
    BY <2>3, <2>4, <1>a
  <2>6. machine' = "up" /\ armed' = armed /\ margin' = margin /\ (armed => age' = age + d)
    BY <2>1, <2>2, <2>4, <2>5, ElapseSafe
  <2>7. armed => age' <= tint /\ age' < dev_timeout
    BY <2>3, <2>4, <2>6, <1>a
  <2> QED
    BY <2>1, <2>3, <2>4, <2>6, <2>7 DEF IntervalChecked, DeviceAsSet, Fresh, LoopIsTimely, Gone
<1>12. CASE Terminate
  BY <1>12 DEF Terminate, IntervalChecked, DeviceAsSet, Fresh, LoopIsTimely, Gone
<1>13. CASE Sigterm
  <2>1. CASE UNCHANGED <<devVars, pc>>
    BY <2>1 DEF IntervalChecked, DeviceAsSet, Fresh, LoopIsTimely
  <2>2. CASE pc' = "killed"
    BY <2>2 DEF IntervalChecked, DeviceAsSet, Fresh, LoopIsTimely, Gone
  <2> QED
    BY <1>13, <2>1, <2>2 DEF Sigterm
<1>14. CASE Tick
  BY <1>14 DEF Tick, IntervalChecked, DeviceAsSet, Fresh, LoopIsTimely, Gone
<1>15. CASE UNCHANGED vars
  BY <1>15 DEF vars, IntervalChecked, DeviceAsSet, Fresh, LoopIsTimely
<1> QED
  BY <1>1, <1>2, <1>3, <1>4, <1>4a, <1>5, <1>6, <1>7, <1>8, <1>9, <1>10, <1>11, <1>12, <1>13,
     <1>14, <1>15 DEF Next, Main

(* With a driver that takes the configured time-out, the sanity check of
   check_parameters() is enough: the main loop refreshes the device in time,
   repairs included, by either way of refreshing. *)
THEOREM RefreshInTime ==
  ASSUME GoodSetup
  PROVE  Spec => []LoopIsTimely
<1>1. Init => TimelyInv
  <2> SUFFICES ASSUME Init PROVE TimelyInv
    OBVIOUS
  <2>1. TypeOK
    BY TypeInit
  <2> QED
    BY <2>1 DEF TimelyInv, Init, DeviceInit, IntervalChecked, DeviceAsSet, Fresh, LoopIsTimely
<1>2. TimelyInv /\ [Next]_vars => TimelyInv'
  BY TimelyStep
<1>3. TimelyInv => LoopIsTimely
  BY DEF TimelyInv
<1> QED
  BY <1>1, <1>2, <1>3, PTL DEF Spec

-----------------------------------------------------------------------------
(* Leaving. *)

(* An armed device is open as long as the daemon lives, and main() reaches
   "exited" before its PID file and the device are there, or through terminate();
   only terminate() tries to remove the file. *)
ExitInv ==
    /\ TypeOK /\ CleanExit
    /\ pc \in {"params", "pidfile"} => pidfile = "none"
    /\ pc \in {"params", "pidfile", "open"} => ~armed
    /\ armed /\ pc \notin Gone => watchdog_fd

(* terminate() stops the timer, unless the driver does not allow it, and tries to
   remove the PID file; the refusals of main() come before there is either.  Nothing
   is said of a daemon that fatal_error() ended for lack of memory. *)
THEOREM ExitIsClean ==
  ASSUME ~WriteMayFail
  PROVE  Spec => []CleanExit
<1> USE DEF devVars, wdStatic, Gone
<1>1. Init => ExitInv
  <2> SUFFICES ASSUME Init PROVE ExitInv
    OBVIOUS
  <2>1. TypeOK
    BY TypeInit
  <2> QED
    BY <2>1 DEF ExitInv, Init, DeviceInit, CleanExit
<1>2. ExitInv /\ [Next]_vars => ExitInv'
  <2> SUFFICES ASSUME ExitInv, [Next]_vars PROVE ExitInv'
    OBVIOUS
  <2>t. TypeOK'
    BY TypeStep DEF ExitInv
  <2>1. CASE CheckParameters
    BY <2>1, <2>t DEF CheckParameters, Up, ExitInv, CleanExit
  <2>2. CASE WritePidFile
    <3>1. pc = "pidfile" /\ UNCHANGED armed
      BY <2>2 DEF WritePidFile, FatalError, abandon_watchdog, device, Up
    <3>2. pc' \in {"open", "aborted"} \/ (pc' = "exited" /\ UNCHANGED pidfile)
      BY <2>2 DEF WritePidFile, FatalError
    <3> QED
      BY <3>1, <3>2, <2>t DEF ExitInv, CleanExit
  <2>3. CASE OpenWatchdog
    BY <2>3, <2>t DEF OpenWatchdog, open_watchdog, Up, ExitInv, CleanExit
  <2>4. CASE OpenChecks \/ InstallHandler \/ LockMemory
    BY <2>4, <2>t DEF OpenChecks, FatalError, InstallHandler, LockMemory, Elapse, Up, ExitInv,
       CleanExit
  <2>5. CASE KeepAlive
    <3>1. pc' \in {"check", "sleep", "repair", "shutdown"}
      BY <2>5 DEF KeepAlive, NextCheck, ActOnError, Stands
    <3> QED
      BY <2>5, <3>1, <2>t DEF KeepAlive, keep_alive, Up, ExitInv, CleanExit
  <2>6. CASE Check
    <3>1. pc' \in {"alive", "repair", "shutdown"}
      BY <2>6 DEF Check, ActOnError, Stands
    <3> QED
      BY <2>6, <3>1, <2>t DEF Check, Elapse, Up, ExitInv, CleanExit
  <2>7. CASE RepairSleep
    BY <2>7, <2>t DEF RepairSleep, Elapse, Up, ExitInv, CleanExit
  <2>8. CASE RepairRefresh
    <3>1. pc' \in {"alive", "check", "sleep", "repair", "shutdown"}
      BY <2>8 DEF RepairRefresh, Stands, ExitInv, TypeOK
    <3> QED
      BY <2>8, <3>1, <2>t DEF RepairRefresh, keep_alive, Up, ExitInv, CleanExit
  <2>9. CASE RepairBlocks
    <3>1. pc' \in {"alive", "check", "sleep", "repair", "shutdown"}
      BY <2>9 DEF RepairBlocks, Stands, ExitInv, TypeOK
    <3> QED
      BY <2>9, <3>1, <2>t DEF RepairBlocks, Elapse, Up, ExitInv, CleanExit
  <2>10. CASE Sleep
    <3>1. pc' \in {"alive", "terminate"}
      BY <2>10 DEF Sleep
    <3> QED
      BY <2>10, <3>1, <2>t DEF Sleep, Elapse, Up, ExitInv, CleanExit
  <2>11. CASE Terminate
    <3>1. watchdog_fd \/ ~armed
      BY <2>11 DEF Terminate, Up, ExitInv, TypeOK, DeviceTypeOK
    <3>2. pc' = "exited" /\ pidfile' # "there"
      BY <2>11 DEF Terminate
    <3>3. armed' => NoWayOut
      <4>1. CASE ~watchdog_fd /\ UNCHANGED armed
        BY <3>1, <4>1
      <4>2. CASE armed' = (armed /\ NoWayOut)
        BY <4>2
      <4> QED
        BY <2>11, <4>1, <4>2 DEF Terminate, close_watchdog
    <3> QED
      BY <3>2, <3>3, <2>t DEF ExitInv, CleanExit
  <2>12. CASE Sigterm
    BY <2>12, <2>t DEF Sigterm, abandon_watchdog, device, ExitInv, CleanExit
  <2>13. CASE Tick
    BY <2>13, <2>t DEF Tick, Elapse, ExitInv, CleanExit
  <2>14. CASE UNCHANGED vars
    BY <2>14, <2>t DEF vars, ExitInv, CleanExit
  <2> QED
    BY <2>1, <2>2, <2>3, <2>4, <2>5, <2>6, <2>7, <2>8, <2>9, <2>10, <2>11, <2>12, <2>13,
       <2>14 DEF Next, Main
<1>3. ExitInv => CleanExit
  BY DEF ExitInv
<1> QED
  BY <1>1, <1>2, <1>3, PTL DEF Spec
=============================================================================
