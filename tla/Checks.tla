-------------------------------- MODULE Checks --------------------------------
(***************************************************************************)
(* The checks of the main loop that keep their state in the list entries   *)
(* or look at the kernel: one configuration has a temperature sensor, one  *)
(* a host to ping, and one each of the others.  What wd_action() makes of  *)
(* the codes is the subject of WdAction.                                   *)
(***************************************************************************)
EXTENDS Temperature, Ping, SysChecks

VARIABLE configured     \* the kind of check in the configuration file

vars == <<configured, tempVars, pingVars, sysVars>>

(* A check that is not configured keeps one of its initial states. *)
TempOff == maxtemp = 90 /\ temp_fd = FALSE /\ in_use = FALSE /\ have = {} /\ level = 0
           /\ said = Nothing /\ temp_code = ENOERR
PingOff == daemon_pid = 0 /\ pingcount = 3 /\ ping_pc = "closed" /\ i = 0 /\ ping_code = ENOERR
           /\ wire = {} /\ pass = 0 /\ heard = FALSE /\ spoke = FALSE
SysOff  == sys = "iface" /\ limit = << >> /\ fd = FALSE /\ sys_code = ENOERR /\ bytes = 0
           /\ names = << >> /\ counter = 0 /\ got = 0

Init ==
    \/ configured = "temperature" /\ TempInit /\ PingOff /\ SysOff
    \/ configured = "ping" /\ PingInit /\ TempOff /\ SysOff
    \/ configured = "system" /\ SysInit /\ TempOff /\ PingOff

Next ==
    \/ configured = "temperature" /\ TempNext /\ UNCHANGED <<configured, pingVars, sysVars>>
    \/ configured = "ping" /\ PingNext /\ UNCHANGED <<configured, tempVars, sysVars>>
    \/ configured = "system" /\ SysNext /\ UNCHANGED <<configured, tempVars, pingVars>>

Spec == Init /\ [][Next]_vars

(* Every variable has its type. *)
TypeOK ==
    /\ configured = "temperature" => TempTypeOK
    /\ configured = "ping" => PingTypeOK
    /\ configured = "system" => SysTypeOK
=============================================================================
